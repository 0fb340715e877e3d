------------------------- MODULE WsProtocol_proofs -------------------------
(* Proofs about WsProtocol, for every set of messages and connections,     *)
(* every number of identifiers and every resendNumber.                     *)
EXTENDS WsProtocol, TLAPS

-----------------------------------------------------------------------------
(* What the invariants rest on.                                            *)

(* An entry belongs to a message that has been stored under the identifier *)
(* it took; its counter says how often it was sent again.                  *)
EntriesAreStored ==
  \A i \in DOMAIN resendStore :
    /\ call[resendStore[i].message] = "done"
    /\ id[resendStore[i].message] = i
    /\ sends[resendStore[i].message] = 1 + resendStore[i].resendCounter

(* A message that is not stored yet was sent once at most.                 *)
SentOnce ==
  \A m \in Message :
    /\ call[m] \in {"idle", "counting", "counted"} => sends[m] = 0
    /\ call[m] = "sent" => sends[m] = 1

(* What is under way was sent, and what is acknowledged was received.      *)
Traffic ==
  \A m \in Message :
    /\ data[m] > 0 => call[m] \in {"sent", "done"}
    /\ acks[m] > 0 => m \in received /\ call[m] \in {"sent", "done"}

IInv ==
  /\ TypeOK
  /\ EntriesAreStored
  /\ SentOnce
  /\ Traffic
  /\ SendsBounded
  /\ BlockedWithNothingToDo

-----------------------------------------------------------------------------
LEMMA InitHolds == Init => IInv
<1>. SUFFICES ASSUME Init PROVE IInv
  OBVIOUS
<1>1. DOMAIN resendStore = {} /\ resendStore \in [{} -> [message : Message, resendCounter : 0 .. resendNumber]]
  BY DEF Init
<1>2. 0 \in 0 .. Ids - 1
  BY IdsAssumption
<1>3. TypeOK
  BY <1>1, <1>2 DEF Init, TypeOK, Stored
<1>4. EntriesAreStored /\ SentOnce /\ Traffic
  BY <1>1 DEF Init, EntriesAreStored, SentOnce, Traffic
<1>5. SendsBounded /\ BlockedWithNothingToDo
  BY resendNumberAssumption DEF Init, SendsBounded, BlockedWithNothingToDo
<1>. QED  BY <1>3, <1>4, <1>5 DEF IInv

LEMMA CountStep ==
  ASSUME IInv, NEW m \in Message, ReadCounter(m) \/ WriteCounter(m)
  PROVE  IInv'
<1>1. /\ UNCHANGED <<resendStore, resender, stopRequested, sends, netVars>>
      /\ call[m] \in {"idle", "counting"}
      /\ \E to \in {"counting", "counted"} : call' = [call EXCEPT ![m] = to]
  BY DEF ReadCounter, WriteCounter, At
<1>2. /\ id' \in [Message -> 0 .. Ids - 1]
      /\ \A n \in Message : n # m => id'[n] = id[n]
  BY DEF ReadCounter, WriteCounter, IInv, TypeOK
<1>3. outCounter' \in 0 .. Ids - 1
  BY IdsAssumption DEF ReadCounter, WriteCounter, IInv, TypeOK
<1>4. TypeOK'
  BY <1>1, <1>2, <1>3 DEF IInv, TypeOK, Stored, netVars
<1>5. EntriesAreStored'
  BY <1>1, <1>2 DEF IInv, TypeOK, EntriesAreStored, Stored
<1>6. SentOnce' /\ Traffic'
  BY <1>1 DEF IInv, TypeOK, SentOnce, Traffic, netVars
<1>7. SendsBounded' /\ BlockedWithNothingToDo'
  BY <1>1 DEF IInv, SendsBounded, BlockedWithNothingToDo, Stored
<1>. QED  BY <1>4, <1>5, <1>6, <1>7 DEF IInv

LEMMA SendStep ==
  ASSUME IInv, NEW m \in Message, Send(m)
  PROVE  IInv'
<1>1. /\ call[m] = "counted" /\ call' = [call EXCEPT ![m] = "sent"]
      /\ sends' = [n \in Message |-> IF n = m THEN sends[n] + 1 ELSE sends[n]]
      /\ UNCHANGED <<outCounter, id, resendStore, resender, stopRequested, open, acks, received>>
  BY DEF Send, At, Transmit
<1>2. /\ data' \in [Message -> Nat]
      /\ \A n \in Message : n # m => data'[n] = data[n]
  BY DEF Send, Transmit, IInv, TypeOK
<1>3. sends' \in [Message -> Nat]
  BY <1>1 DEF IInv, TypeOK
<1>4. TypeOK'
  BY <1>1, <1>2, <1>3 DEF IInv, TypeOK, Stored
<1>5. EntriesAreStored'
  BY <1>1 DEF IInv, TypeOK, EntriesAreStored, Stored
<1>6. SentOnce' /\ Traffic'
  BY <1>1, <1>2 DEF IInv, TypeOK, SentOnce, Traffic
<1>7. SendsBounded'
  BY <1>1, resendNumberAssumption DEF IInv, TypeOK, SentOnce, SendsBounded
<1>8. BlockedWithNothingToDo'
  BY <1>1 DEF IInv, BlockedWithNothingToDo, Stored
<1>. QED  BY <1>4, <1>5, <1>6, <1>7, <1>8 DEF IInv

LEMMA StoreStep ==
  ASSUME IInv, NEW m \in Message, AddToResendStore(m)
  PROVE  IInv'
<1>. DEFINE entry == [message |-> m, resendCounter |-> 0]
<1>1. /\ call[m] = "sent" /\ call' = [call EXCEPT ![m] = "done"]
      /\ resender' = IF resender = "blocked" THEN "wait" ELSE resender
      /\ UNCHANGED <<outCounter, id, stopRequested, sends, netVars>>
  BY DEF AddToResendStore, At
<1>2. \/ resendStore' = resendStore
      \/ /\ DOMAIN resendStore' = DOMAIN resendStore \cup {id[m]}
         /\ resendStore' = [i \in DOMAIN resendStore' |-> IF i = id[m] THEN entry ELSE resendStore[i]]
  BY DEF AddToResendStore, Stored
<1>3. entry \in [message : Message, resendCounter : 0 .. resendNumber] /\ id[m] \in 0 .. Ids - 1
  BY resendNumberAssumption DEF IInv, TypeOK
<1>4. /\ DOMAIN resendStore' \subseteq 0 .. Ids - 1
      /\ resendStore' \in [DOMAIN resendStore' -> [message : Message, resendCounter : 0 .. resendNumber]]
  BY <1>2, <1>3 DEF IInv, TypeOK, Stored
<1>5. TypeOK'
  BY <1>1, <1>4 DEF IInv, TypeOK, Stored, netVars
<1>6. sends[m] = 1
  BY <1>1 DEF IInv, SentOnce
<1>7. EntriesAreStored'
  <2>. SUFFICES ASSUME NEW i \in DOMAIN resendStore'
                PROVE  /\ call'[resendStore'[i].message] = "done"
                       /\ id[resendStore'[i].message] = i
                       /\ sends[resendStore'[i].message] = 1 + resendStore'[i].resendCounter
    BY <1>1 DEF EntriesAreStored
  <2>1. CASE i \in DOMAIN resendStore /\ resendStore'[i] = resendStore[i]
    BY <1>1, <2>1 DEF IInv, TypeOK, EntriesAreStored, Stored
  <2>2. CASE i = id[m] /\ resendStore'[i] = entry
    <3>1. resendStore'[i].message = m /\ resendStore'[i].resendCounter = 0
      BY <2>2
    <3>. QED  BY <1>1, <1>6, <2>2, <3>1 DEF IInv, TypeOK
  <2>. QED  BY <1>2, <2>1, <2>2
<1>8. SentOnce' /\ Traffic' /\ SendsBounded' /\ BlockedWithNothingToDo'
  BY <1>1 DEF IInv, TypeOK, SentOnce, Traffic, SendsBounded, BlockedWithNothingToDo, netVars
<1>. QED  BY <1>5, <1>7, <1>8 DEF IInv

LEMMA NetworkStep ==
  ASSUME IInv,
         \/ \E m \in Message : ReceiveData(m) \/ ReceiveAck(m)
         \/ \E c \in Connection : Close(c)
  PROVE  IInv'
<1>1. UNCHANGED <<callVars, resender, stopRequested, sends>>
  BY DEF ReceiveData, ReceiveAck, Close
<1>2. /\ DOMAIN resendStore' \subseteq DOMAIN resendStore
      /\ resendStore' \in [DOMAIN resendStore' -> [message : Message, resendCounter : 0 .. resendNumber]]
      /\ \A i \in DOMAIN resendStore' : resendStore'[i] = resendStore[i]
  <2>1. \/ resendStore' = resendStore
        \/ \E S \in SUBSET DOMAIN resendStore : resendStore' = [i \in S |-> resendStore[i]]
    BY DEF ReceiveData, ReceiveAck, Close, Remove, Restrict, Stored
  <2>2. resendStore \in [DOMAIN resendStore -> [message : Message, resendCounter : 0 .. resendNumber]]
    BY DEF IInv, TypeOK, Stored
  <2>. QED  BY <2>1, <2>2
<1>3. /\ open' \subseteq Connection
      /\ data' \in [Message -> Nat] /\ acks' \in [Message -> Nat]
      /\ received' \subseteq Message /\ received \subseteq received'
      /\ \A n \in Message : data'[n] > 0 => data[n] > 0
      /\ \A n \in Message : acks'[n] > 0 => acks[n] > 0 \/ (data[n] > 0 /\ n \in received')
  <2>1. CASE \E m \in Message : ReceiveData(m)
    BY <2>1 DEF ReceiveData, IInv, TypeOK
  <2>2. CASE \E m \in Message : ReceiveAck(m)
    BY <2>2 DEF ReceiveAck, IInv, TypeOK
  <2>3. CASE \E c \in Connection : Close(c)
    BY <2>3 DEF Close, IInv, TypeOK
  <2>. QED  BY <2>1, <2>2, <2>3
<1>4. TypeOK'
  BY <1>1, <1>2, <1>3 DEF IInv, TypeOK, Stored, callVars
<1>5. EntriesAreStored' /\ SentOnce'
  BY <1>1, <1>2 DEF IInv, EntriesAreStored, SentOnce, callVars
<1>6. Traffic'
  BY <1>1, <1>3 DEF IInv, Traffic, callVars
<1>7. SendsBounded' /\ BlockedWithNothingToDo'
  BY <1>1, <1>2 DEF IInv, SendsBounded, BlockedWithNothingToDo, Stored
<1>. QED  BY <1>4, <1>5, <1>6, <1>7 DEF IInv

(* What a walk over the store does to it and to the sends.                 *)
LEMMA PassStep ==
  ASSUME IInv, NEW due \in SUBSET Stored, NEW gone \in SUBSET due, Pass(due, gone)
  PROVE  IInv'
<1>. DEFINE sent == {MessageOf(i) : i \in Resent(due, gone)}
            Entry == [message : Message, resendCounter : 0 .. resendNumber]
<1>1. /\ resender' = "head"
      /\ sends' = [n \in Message |-> IF n \in sent THEN sends[n] + 1 ELSE sends[n]]
      /\ UNCHANGED <<callVars, stopRequested, open, acks, received>>
  BY DEF Pass, Transmit
<1>2. /\ data' \in [Message -> Nat] /\ sends' \in [Message -> Nat]
      /\ \A n \in Message : data'[n] > 0 => data[n] > 0 \/ n \in sent
  BY DEF Pass, Transmit, IInv, TypeOK
<1>3. DOMAIN resendStore' \subseteq DOMAIN resendStore
  BY DEF Pass, Counted, Stored
<1>4. \A i \in DOMAIN resendStore' :
        IF i \in Resent(due, gone)
          THEN resendStore'[i] = [resendStore[i] EXCEPT !.resendCounter = @ + 1]
          ELSE resendStore'[i] = resendStore[i]
  BY DEF Pass, Counted, Stored
<1>5. \A i \in DOMAIN resendStore : resendStore[i] \in Entry
  BY DEF IInv, TypeOK, Stored
<1>6. \A i \in Resent(due, gone) :
        i \in DOMAIN resendStore /\ resendStore[i].resendCounter < resendNumber
  BY <1>5, resendNumberAssumption DEF Resent, Exhausted, Stored
<1>7. \A i \in DOMAIN resendStore' : resendStore'[i] \in Entry
  BY <1>3, <1>4, <1>5, <1>6, resendNumberAssumption
<1>8. resendStore' \in [DOMAIN resendStore' -> Entry]
  <2>1. resendStore' = [i \in DOMAIN resendStore' |-> resendStore'[i]]
    BY DEF Pass, Counted
  <2>. QED  BY <1>7, <2>1
<1>9. TypeOK'
  BY <1>1, <1>2, <1>3, <1>8 DEF IInv, TypeOK, Stored, callVars
<1>10. \A i, j \in DOMAIN resendStore :
         resendStore[i].message = resendStore[j].message => i = j
  BY DEF IInv, EntriesAreStored
<1>11. \A i \in DOMAIN resendStore : resendStore[i].message \in sent <=> i \in Resent(due, gone)
  BY <1>6, <1>10 DEF MessageOf
<1>12. \A n \in sent : n \in Message /\ call[n] = "done"
  BY <1>5, <1>6 DEF IInv, EntriesAreStored, MessageOf
<1>13. EntriesAreStored'
  <2>. SUFFICES ASSUME NEW i \in DOMAIN resendStore'
                PROVE  /\ call[resendStore'[i].message] = "done"
                       /\ id[resendStore'[i].message] = i
                       /\ sends'[resendStore'[i].message] = 1 + resendStore'[i].resendCounter
    BY <1>1 DEF EntriesAreStored, callVars
  <2>1. /\ i \in DOMAIN resendStore /\ resendStore[i] \in Entry
        /\ call[resendStore[i].message] = "done"
        /\ id[resendStore[i].message] = i
        /\ sends[resendStore[i].message] = 1 + resendStore[i].resendCounter
    BY <1>3, <1>5 DEF IInv, EntriesAreStored
  <2>2. CASE i \in Resent(due, gone)
    <3>1. /\ resendStore'[i].message = resendStore[i].message
          /\ resendStore'[i].resendCounter = resendStore[i].resendCounter + 1
      BY <1>4, <2>1, <2>2
    <3>2. sends'[resendStore[i].message] = sends[resendStore[i].message] + 1
      BY <1>1, <1>11, <2>1, <2>2
    <3>. QED  BY <2>1, <3>1, <3>2
  <2>3. CASE i \notin Resent(due, gone)
    <3>1. resendStore'[i] = resendStore[i]
      BY <1>4, <2>3
    <3>2. sends'[resendStore[i].message] = sends[resendStore[i].message]
      BY <1>1, <1>11, <2>1, <2>3
    <3>. QED  BY <2>1, <3>1, <3>2
  <2>. QED  BY <2>2, <2>3
<1>14. SentOnce' /\ Traffic'
  BY <1>1, <1>2, <1>12 DEF IInv, TypeOK, SentOnce, Traffic, callVars
<1>15. SendsBounded'
  <2>. SUFFICES ASSUME NEW n \in Message PROVE sends'[n] <= 1 + resendNumber
    BY DEF SendsBounded
  <2>1. CASE n \in sent
    <3>1. PICK i \in Resent(due, gone) : n = resendStore[i].message
      BY <2>1 DEF MessageOf
    <3>2. sends[n] = 1 + resendStore[i].resendCounter /\ resendStore[i].resendCounter < resendNumber
      BY <1>6, <3>1 DEF IInv, EntriesAreStored
    <3>3. resendStore[i].resendCounter \in Nat
      BY <1>5, <1>6, resendNumberAssumption
    <3>. QED  BY <1>1, <2>1, <3>2, <3>3, resendNumberAssumption
  <2>2. CASE n \notin sent
    BY <1>1, <2>2 DEF IInv, SendsBounded
  <2>. QED  BY <2>1, <2>2
<1>16. BlockedWithNothingToDo'
  BY <1>1 DEF BlockedWithNothingToDo
<1>. QED  BY <1>9, <1>13, <1>14, <1>15, <1>16 DEF IInv

(* The steps of the thread that leave the store alone, and stop.           *)
LEMMA ThreadStep ==
  ASSUME IInv, Block \/ WaitReturnsFalse \/ WakeUp \/ SpuriousWakeup \/ Stop
  PROVE  IInv'
<1>1. UNCHANGED <<callVars, resendStore, sends, netVars>>
  BY DEF Block, WaitReturnsFalse, WakeUp, SpuriousWakeup, Stop
<1>2. /\ resender' \in {"wait", "blocked", "head", "done"} /\ stopRequested' \in BOOLEAN
      /\ resender' = "blocked" => Stored = {} /\ ~stopRequested'
  <2>1. resender \in {"wait", "blocked", "head", "done"} /\ stopRequested \in BOOLEAN
    BY DEF IInv, TypeOK
  <2>2. CASE Stop
    BY <2>1, <2>2 DEF Stop
  <2>3. CASE Block \/ WaitReturnsFalse \/ WakeUp \/ SpuriousWakeup
    BY <2>1, <2>3 DEF Block, WaitReturnsFalse, WakeUp, SpuriousWakeup
  <2>. QED  BY <2>2, <2>3
<1>3. TypeOK' /\ BlockedWithNothingToDo'
  BY <1>1, <1>2 DEF IInv, TypeOK, BlockedWithNothingToDo, Stored, callVars, netVars
<1>4. EntriesAreStored' /\ SentOnce' /\ Traffic' /\ SendsBounded'
  BY <1>1 DEF IInv, EntriesAreStored, SentOnce, Traffic, SendsBounded, callVars, netVars
<1>. QED  BY <1>3, <1>4 DEF IInv

LEMMA StepPreserves == IInv /\ [Next]_vars => IInv'
<1>. SUFFICES ASSUME IInv, [Next]_vars PROVE IInv'
  OBVIOUS
<1>1. CASE Next
  <2>1. CASE \E m \in Message : ReadCounter(m) \/ WriteCounter(m)
    BY <2>1, CountStep
  <2>2. CASE \E m \in Message : Send(m)
    BY <2>2, SendStep
  <2>3. CASE \E m \in Message : AddToResendStore(m)
    BY <2>3, StoreStep
  <2>4. CASE \/ \E m \in Message : ReceiveData(m) \/ ReceiveAck(m)
             \/ \E c \in Connection : Close(c)
    BY <2>4, NetworkStep
  <2>5. CASE AnyPass
    <3>1. \E due \in SUBSET Stored : \E gone \in SUBSET due : Pass(due, gone)
      BY <2>5 DEF AnyPass
    <3>. QED  BY <3>1, PassStep
  <2>6. CASE Block \/ WaitReturnsFalse \/ WakeUp \/ SpuriousWakeup \/ Stop
    BY <2>6, ThreadStep
  <2>. QED
    BY <1>1, <2>1, <2>2, <2>3, <2>4, <2>5, <2>6 DEF Next, SendMessage, Resender
<1>2. CASE UNCHANGED vars
  BY <1>2 DEF vars, IInv, TypeOK, EntriesAreStored, SentOnce, Traffic, SendsBounded,
              BlockedWithNothingToDo, Stored
<1>. QED  BY <1>1, <1>2

LEMMA InvariantHolds == Spec => []IInv
  BY InitHolds, StepPreserves, PTL DEF Spec

-----------------------------------------------------------------------------
(* Counter, store and traffic keep their types.                            *)
THEOREM TypeCorrect == Spec => []TypeOK
<1>1. IInv => TypeOK
  BY DEF IInv
<1>. QED  BY <1>1, InvariantHolds, PTL

(* A message is sent once and then at most resendNumber_ times.            *)
THEOREM AttemptsAreBounded == Spec => []SendsBounded
<1>1. IInv => SendsBounded
  BY DEF IInv
<1>. QED  BY <1>1, InvariantHolds, PTL

(* The resend thread never sleeps through a message or a stop.             *)
THEOREM NoLostWakeup == Spec => []BlockedWithNothingToDo
<1>1. IInv => BlockedWithNothingToDo
  BY DEF IInv
<1>. QED  BY <1>1, InvariantHolds, PTL

(* A message leaves the store for a reason only.                           *)
THEOREM NothingGivenUpEarly == Spec => GivenUpForAReason
<1>. DEFINE Reason(i) == \/ MessageOf(i) \in received
                         \/ Exhausted(i) \/ Closed(i) \/ SharesId(MessageOf(i))
<1>1. IInv /\ [Next]_vars =>
        [\A i \in Stored \ Stored' :
           LET m == MessageOf(i)
           IN  m \in received \/ Exhausted(i) \/ Closed(i) \/ SharesId(m)]_vars
  <2>. SUFFICES ASSUME IInv, Next, NEW i \in Stored \ Stored'
                PROVE  Reason(i)
    OBVIOUS
  <2>1. CASE \E m \in Message : ReceiveAck(m)
    <3>1. PICK m \in Message : ReceiveAck(m)
      BY <2>1
    <3>2. i = id[m] /\ m \in received /\ call[m] # "idle"
      BY <3>1 DEF ReceiveAck, Remove, Restrict, Stored, IInv, Traffic
    <3>3. id[MessageOf(i)] = i
      BY DEF IInv, EntriesAreStored, MessageOf, Stored
    <3>. QED  BY <3>2, <3>3 DEF SharesId
  <2>2. CASE AnyPass
    <3>1. PICK due, gone : (\A j \in gone : Closed(j)) /\ Pass(due, gone)
      BY <2>2 DEF AnyPass
    <3>2. i \in Removed(due, gone)
      BY <3>1 DEF Pass, Counted, Stored
    <3>. QED  BY <3>1, <3>2 DEF Removed
  <2>3. CASE Stored \subseteq Stored'
    BY <2>3
  <2>. QED
    BY <2>1, <2>2, <2>3
       DEF Next, SendMessage, ReadCounter, WriteCounter, Send, AddToResendStore,
           ReceiveData, Close, Resender, Block, WaitReturnsFalse, WakeUp,
           SpuriousWakeup, Stop, Stored
<1>. QED
  BY <1>1, InvariantHolds, PTL DEF Spec, GivenUpForAReason
=============================================================================
