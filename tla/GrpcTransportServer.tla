------------------------ MODULE GrpcTransportServer ------------------------
(***************************************************************************)
(* grpcapi::GrpcTransportServer (grpcapi/src/GrpcTransportServer.cpp):     *)
(* each client process has a stream, read by a call of Connect in a thread *)
(* of its own.  Every event routes its user to a handle of the stream,     *)
(* under streamsMutex; sendToUser looks the handle up and writes under the *)
(* handle's writeMutex, since gRPC takes one write of a stream at a time.  *)
(*                                                                         *)
(* gRPC is external: a stream is there until its Connect returns, and a    *)
(* write to it afterwards is undefined: it fails or ends the process.      *)
(***************************************************************************)
EXTENDS Integers, Functions, FiniteSets

CONSTANTS User, Stream,
          Sender    \* the threads that push: the broadcaster

(* A call of Connect acts on behalf of its stream.                         *)
Actor == Sender \cup Stream

VARIABLES session,        \* where each call of Connect is
          sessionUsers,   \* its local set of users
          made,           \* handles made for the stream so far
          streamHandles,  \* streamHandles: stream -> handle
          userToHandle,   \* userToHandle
          answering,      \* the user its messageHandler answers
          target,         \* the handle a sendToUser has looked up, per thread
          writing,        \* the threads that hold the writeMutex of theirs
          last,           \* u -> the stream of its last event
          crashed         \* the process has ended

vars == <<session, sessionUsers, made, streamHandles, userToHandle, answering,
          target, writing, last, crashed>>

mapVars  == <<sessionUsers, made, streamHandles, userToHandle, last>>
sendVars == <<target, writing, crashed>>

(* The n-th handle made for a stream.                                      *)
Handle == Stream \X (Nat \ {0})
StreamOf(h) == h[1]

Empty == [x \in {} |-> {}]
Extended(f, x, y) == [z \in DOMAIN f \cup {x} |-> IF z = x THEN y ELSE f[z]]

Init ==
  /\ session = [s \in Stream |-> "new"]
  /\ sessionUsers = [s \in Stream |-> {}]
  /\ made = [s \in Stream |-> 0]
  /\ streamHandles = Empty
  /\ userToHandle = Empty
  /\ answering = [s \in Stream |-> {}]
  /\ target = [a \in Actor |-> {}]
  /\ writing = {}
  /\ last = Empty
  /\ crashed = FALSE

-----------------------------------------------------------------------------
(* Connect.                                                                *)
Goto(s, from, to) ==
  /\ session[s] = from
  /\ session' = [session EXCEPT ![s] = to]

Connect(s) ==
  /\ Goto(s, "new", "reading")
  /\ UNCHANGED <<mapVars, answering, sendVars>>

(* The handler has returned.                                               *)
Idle(s) == answering[s] = {} /\ target[s] = {}

NewHandle(s) == <<s, made[s] + 1>>

(* A slip the checks must catch: each event makes a handle.                *)
HandleAnew(s) == NewHandle(s)

HandleOf(s) == IF s \in DOMAIN streamHandles THEN streamHandles[s] ELSE NewHandle(s)

(* A slip: the session notes the users only that had no route.             *)
NotedIfNew(s, u) ==
  IF u \in DOMAIN userToHandle THEN sessionUsers[s] ELSE sessionUsers[s] \cup {u}

Noted(s, u) == sessionUsers[s] \cup {u}

(* An event of u, one without a payload being of user 0.  Only that of a   *)
(* connecting user is answered by the application.                         *)
ReadEvent(s, u) ==
  /\ session[s] = "reading"
  /\ Idle(s)
  /\ LET h == HandleOf(s)
     IN  /\ streamHandles' = Extended(streamHandles, s, h)
         /\ userToHandle' = Extended(userToHandle, u, h)
         /\ made' = [made EXCEPT ![s] = h[2]]
  /\ sessionUsers' = [sessionUsers EXCEPT ![s] = Noted(s, u)]
  /\ last' = Extended(last, u, s)
  /\ \/ answering' = [answering EXCEPT ![s] = {u}]
     \/ UNCHANGED answering
  /\ UNCHANGED <<session, sendVars>>

ReadFails(s) ==
  /\ Idle(s)
  /\ Goto(s, "reading", "over")
  /\ UNCHANGED <<mapVars, answering, sendVars>>

(* A slip: everybody is dropped.                                           *)
DroppedAll(s) == DOMAIN userToHandle

(* The users of the session lose their routes, wherever these lead by now. *)
Dropped(s) == sessionUsers[s]

(* A slip: the handle of the stream is left behind.                        *)
CleanupUsersOnly(s) ==
  /\ Goto(s, "over", "returned")
  /\ userToHandle' = Restrict(userToHandle, DOMAIN userToHandle \ Dropped(s))
  /\ UNCHANGED <<sessionUsers, made, streamHandles, last, answering, sendVars>>

Cleanup(s) ==
  /\ Goto(s, "over", "returned")
  /\ userToHandle' = Restrict(userToHandle, DOMAIN userToHandle \ Dropped(s))
  /\ streamHandles' = Restrict(streamHandles, DOMAIN streamHandles \ {s})
  /\ UNCHANGED <<sessionUsers, made, last, answering, sendVars>>

-----------------------------------------------------------------------------
(* sendToUser.                                                             *)
LookUp(a, u) ==
  /\ target[a] = {}
  /\ target' = [target EXCEPT ![a] =
                  IF u \in DOMAIN userToHandle THEN {userToHandle[u]} ELSE {}]

Push(a, u) ==
  /\ LookUp(a, u)
  /\ UNCHANGED <<session, mapVars, answering, writing, crashed>>

(* A slip: the answer waits until its user is routed.                      *)
AnswerIfRouted(s) ==
  /\ \E u \in answering[s] : u \in DOMAIN userToHandle /\ LookUp(s, u)
  /\ answering' = [answering EXCEPT ![s] = {}]
  /\ UNCHANGED <<session, mapVars, writing, crashed>>

Answer(s) ==
  /\ \E u \in answering[s] : LookUp(s, u)
  /\ answering' = [answering EXCEPT ![s] = {}]
  /\ UNCHANGED <<session, mapVars, writing, crashed>>

LockHandle(a) ==
  /\ target[a] # {}
  /\ \A b \in writing : target[b] # target[a]
  /\ writing' = writing \cup {a}
  /\ UNCHANGED <<session, mapVars, answering, target, crashed>>

(* Write, and the end of the lock_guard.                                   *)
Write(a) ==
  /\ a \in writing
  /\ writing' = writing \ {a}
  /\ target' = [target EXCEPT ![a] = {}]
  /\ \/ UNCHANGED crashed
     \/ /\ \E h \in target[a] : session[StreamOf(h)] = "returned"
        /\ crashed' = TRUE
  /\ UNCHANGED <<session, mapVars, answering>>

Handler(s) == Answer(s) \/ Write(s) \/ Cleanup(s)

Next ==
  /\ ~crashed
  /\ \/ \E s \in Stream :
          \/ Connect(s) \/ ReadFails(s) \/ Handler(s)
          \/ \E u \in User : ReadEvent(s, u)
     \/ \E a \in Sender : Write(a) \/ \E u \in User : Push(a, u)
     \/ \E a \in Actor : LockHandle(a)

(* Threads run.  One that waits for a mutex gets it at last: the           *)
(* broadcaster, which takes it again and again, sleeps between its rounds. *)
Fairness ==
  /\ \A s \in Stream : WF_vars(~crashed /\ Handler(s))
  /\ \A s \in Stream : SF_vars(~crashed /\ LockHandle(s))
  /\ \A a \in Sender : WF_vars(~crashed /\ (LockHandle(a) \/ Write(a)))

Spec == Init /\ [][Next]_vars /\ Fairness

-----------------------------------------------------------------------------
Routed == DOMAIN userToHandle
AtMostOne(S) == {{}} \cup {{x} : x \in S}

TypeOK ==
  /\ session \in [Stream -> {"new", "reading", "over", "returned"}]
  /\ sessionUsers \in [Stream -> SUBSET User]
  /\ made \in [Stream -> Nat]
  /\ DOMAIN streamHandles \subseteq Stream
  /\ \A s \in DOMAIN streamHandles : streamHandles[s] \in Handle
  /\ Routed \subseteq User
  /\ \A u \in Routed : userToHandle[u] \in Handle
  /\ answering \in [Stream -> AtMostOne(User)]
  /\ target \in [Actor -> SUBSET Handle]
  /\ writing \subseteq Actor
  /\ \A a \in writing : target[a] # {}
  /\ DOMAIN last \subseteq User
  /\ last \in [DOMAIN last -> Stream]
  /\ crashed \in BOOLEAN

(* gRPC takes one write of a stream at a time.  The mutex is the handle's, *)
(* so a second handle of a stream would undo it: two threads would hold    *)
(* two mutexes and write to one stream.                                    *)
OneWriterPerStream ==
  \A a, b \in writing : \A g \in target[a], h \in target[b] :
    StreamOf(g) = StreamOf(h) => a = b

(* Once a call of Connect has returned, which ends its stream, no table    *)
(* leads to it: every user that its events routed there is dropped, also   *)
(* one that shares the stream or has used several.                         *)
NoRouteToEndedStream ==
  /\ \A u \in Routed : session[StreamOf(userToHandle[u])] \in {"reading", "over"}
  /\ \A s \in DOMAIN streamHandles : session[s] \in {"reading", "over"}

(* A user that keeps to one stream is routed to it while it is read,       *)
(* whoever else shares it or ends another.                                 *)
Loyal(u) ==
  /\ u \in DOMAIN last
  /\ session[last[u]] = "reading"
  /\ \A s \in Stream \ {last[u]} : u \notin sessionUsers[s]

LoyalUserRouted ==
  \A u \in User : Loyal(u) => u \in Routed /\ StreamOf(userToHandle[u]) = last[u]

(* A call of Connect whose client has gone returns: the mutexes it shares  *)
(* with the broadcaster never keep it for ever.                            *)
ConnectReturns ==
  \A s \in Stream : answering[s] # {} \/ session[s] = "over" ~>
                      (Idle(s) /\ session[s] # "over") \/ crashed

-----------------------------------------------------------------------------
(* What the application can tell of the streams: where users are routed,   *)
(* which streams their events came over, which are no more, and where each *)
(* thread is about to write.                                               *)
route == [u \in Routed |-> StreamOf(userToHandle[u])]
came == {p \in User \X Stream : p[1] \in sessionUsers[p[2]]}
ended == {s \in Stream : session[s] = "returned"}
aim == [a \in Actor |-> {StreamOf(h) : h \in target[a]}]
=============================================================================
