------------------------------ MODULE Routing ------------------------------
(***************************************************************************)
(* What the application is promised of a transport server, whichever it    *)
(* is: a user's messages go where its last event came from.  Others move   *)
(* nobody's route: it changes by an event that names the user, and by the  *)
(* end of a connection that such an event has come over.                   *)
(*                                                                         *)
(*   route   a partial function from users to connections                  *)
(*   came    the pairs <<u, e>> such that an event of u came over e        *)
(*   ended   the connections that are no more                              *)
(*   aim     the connection each thread is about to send over, if any      *)
(***************************************************************************)
CONSTANTS User, Endpoint, Actor

VARIABLES route, came, ended, aim

vars == <<route, came, ended, aim>>

Routed == DOMAIN route

Init ==
  /\ route = [u \in {} |-> {}]
  /\ came = {}
  /\ ended = {}
  /\ aim = [a \in Actor |-> {}]

Arrive(u, e) ==
  /\ e \notin ended
  /\ route' = [v \in Routed \cup {u} |-> IF v = u THEN e ELSE route[v]]
  /\ came' = came \cup {<<u, e>>}
  /\ UNCHANGED <<ended, aim>>

Leave(u) ==
  /\ route' = [v \in Routed \ {u} |-> route[v]]
  /\ UNCHANGED <<came, ended, aim>>

(* Users that came over it may lose their routes, wherever these lead.     *)
End(e) ==
  /\ e \notin ended
  /\ ended' = ended \cup {e}
  /\ \E lost \in SUBSET {u \in User : <<u, e>> \in came} :
       route' = [v \in Routed \ lost |-> route[v]]
  /\ UNCHANGED <<came, aim>>

LookUp(a, u) ==
  /\ aim[a] = {} /\ u \in Routed
  /\ aim' = [aim EXCEPT ![a] = {route[u]}]
  /\ UNCHANGED <<route, came, ended>>

Send(a) ==
  /\ aim[a] # {}
  /\ aim' = [aim EXCEPT ![a] = {}]
  /\ UNCHANGED <<route, came, ended>>

Next ==
  \/ \E u \in User : Leave(u) \/ \E e \in Endpoint : Arrive(u, e)
  \/ \E e \in Endpoint : End(e)
  \/ \E a \in Actor : Send(a) \/ \E u \in User : LookUp(a, u)

Spec == Init /\ [][Next]_vars
=============================================================================
