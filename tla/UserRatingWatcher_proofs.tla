----------------------- MODULE UserRatingWatcher_proofs -----------------------
(***************************************************************************)
(* However many users and threads there are, the broadcaster never sleeps  *)
(* through a connection or a stop, and a user that left gets at most the   *)
(* push of the round in progress.                                          *)
(***************************************************************************)
EXTENDS UserRatingWatcher, TLAPS

(* A user that may still be pushed to has had no late push yet: neither    *)
(* one that is connected, whose count was cleared when it connected, nor   *)
(* one the round in progress has yet to serve.                             *)
NotPushedLateYet ==
  \A u \in User : u \in connectedUsers \cup snapshot => late[u] = 0

WatcherInv == TypeOK /\ BlockedWithNothingToDo /\ NotPushedLateYet /\ AtMostOneLatePush

-----------------------------------------------------------------------------
LEMMA WatcherInitially == Init => WatcherInv
<1>. SUFFICES ASSUME Init PROVE WatcherInv
  OBVIOUS
<1>1. {} \in AtMostOne
  BY DEF AtMostOne
<1>2. TypeOK
  BY <1>1 DEF Init, TypeOK
<1>3. BlockedWithNothingToDo /\ NotPushedLateYet /\ AtMostOneLatePush
  BY DEF Init, BlockedWithNothingToDo, NotPushedLateYet, AtMostOneLatePush
<1>. QED  BY <1>2, <1>3 DEF WatcherInv

LEMMA WatcherPreserved == WatcherInv /\ [Next]_vars => WatcherInv'
<1>. SUFFICES ASSUME WatcherInv, [Next]_vars PROVE WatcherInv'
  OBVIOUS
<1>. USE DEF WatcherInv, TypeOK, AtMostOne
<1>1. CASE Start
  BY <1>1 DEF Start, BlockedWithNothingToDo, NotPushedLateYet, AtMostOneLatePush
<1>2. CASE Stop
  BY <1>2 DEF Stop, BlockedWithNothingToDo, NotPushedLateYet, AtMostOneLatePush
<1>3. CASE SpuriousWakeup
  BY <1>3 DEF SpuriousWakeup, BlockedWithNothingToDo, NotPushedLateYet, AtMostOneLatePush
<1>4. CASE TakeSnapshot
  BY <1>4 DEF TakeSnapshot, BlockedWithNothingToDo, NotPushedLateYet, AtMostOneLatePush
<1>5. CASE WaitReturnsFalse
  BY <1>5 DEF WaitReturnsFalse, BlockedWithNothingToDo, NotPushedLateYet, AtMostOneLatePush
<1>6. CASE Block
  BY <1>6 DEF Block, BlockedWithNothingToDo, NotPushedLateYet, AtMostOneLatePush
<1>7. CASE BeginPush
  <2>1. PICK u \in snapshot :
          /\ sending' = {u}
          /\ snapshot' = snapshot \ {u}
          /\ late' = IF u \in connectedUsers THEN late ELSE [late EXCEPT ![u] = @ + 1]
    BY <1>7 DEF BeginPush
  <2>2. u \in User /\ late[u] = 0
    BY DEF NotPushedLateYet
  <2>3. late' \in [User -> Nat] /\ \A v \in User \ {u} : late'[v] = late[v]
    BY <2>1, <2>2
  <2>4. late'[u] <= 1 /\ (u \in connectedUsers => late'[u] = 0)
    BY <2>1, <2>2
  <2>5. TypeOK' /\ BlockedWithNothingToDo'
    BY <1>7, <2>1, <2>2, <2>3 DEF BeginPush, BlockedWithNothingToDo
  <2>6. NotPushedLateYet'
    BY <1>7, <2>1, <2>3, <2>4 DEF BeginPush, NotPushedLateYet
  <2>7. AtMostOneLatePush'
    BY <2>3, <2>4 DEF AtMostOneLatePush
  <2>. QED  BY <2>5, <2>6, <2>7
<1>8. CASE EndPush
  BY <1>8 DEF EndPush, BlockedWithNothingToDo, NotPushedLateYet, AtMostOneLatePush
<1>9. CASE EndRound
  BY <1>9 DEF EndRound, BlockedWithNothingToDo, NotPushedLateYet, AtMostOneLatePush
<1>10. CASE WakeUp
  BY <1>10 DEF WakeUp, BlockedWithNothingToDo, NotPushedLateYet, AtMostOneLatePush
<1>11. ASSUME NEW w \in Worker, AnswerConnect(w) PROVE WatcherInv'
  BY <1>11 DEF AnswerConnect, BlockedWithNothingToDo, NotPushedLateYet, AtMostOneLatePush
<1>12. ASSUME NEW w \in Worker, NEW u \in User, UserConnected(w, u) PROVE WatcherInv'
  <2>1. BlockedWithNothingToDo'
    BY <1>12 DEF UserConnected, Notified, BlockedWithNothingToDo
  <2>2. TypeOK'
    BY <1>12 DEF UserConnected, Notified
  <2>3. NotPushedLateYet' /\ AtMostOneLatePush'
    BY <1>12 DEF UserConnected, NotPushedLateYet, AtMostOneLatePush
  <2>. QED  BY <2>1, <2>2, <2>3
<1>13. ASSUME NEW w \in Worker, NEW u \in User, UserDisconnected(w, u) PROVE WatcherInv'
  BY <1>13 DEF UserDisconnected, BlockedWithNothingToDo, NotPushedLateYet, AtMostOneLatePush
<1>14. CASE UNCHANGED vars
  BY <1>14 DEF vars, BlockedWithNothingToDo, NotPushedLateYet, AtMostOneLatePush
<1>. QED
  BY <1>1, <1>2, <1>3, <1>4, <1>5, <1>6, <1>7, <1>8, <1>9, <1>10,
     <1>11, <1>12, <1>13, <1>14 DEF Next, Broadcaster

-----------------------------------------------------------------------------
(* The strengthening that holds of every reachable state.                  *)
THEOREM WatcherInvariant == Spec => []WatcherInv
  BY WatcherInitially, WatcherPreserved, PTL DEF Spec

(* The variables of UserRatingWatcher hold what the code lets them hold.   *)
THEOREM WatcherTypeCorrect == Spec => []TypeOK
<1>1. WatcherInv => TypeOK
  BY DEF WatcherInv
<1>. QED  BY <1>1, WatcherInvariant, PTL

(* cv_.wait never loses the wakeup of a connection or of a stop.           *)
THEOREM NoLostWakeup == Spec => []BlockedWithNothingToDo
<1>1. WatcherInv => BlockedWithNothingToDo
  BY DEF WatcherInv
<1>. QED  BY <1>1, WatcherInvariant, PTL

(* The snapshot a round works from serves a user that left once at most.   *)
THEOREM OneLatePush == Spec => []AtMostOneLatePush
<1>1. WatcherInv => AtMostOneLatePush
  BY DEF WatcherInv
<1>. QED  BY <1>1, WatcherInvariant, PTL
=============================================================================
