---------------------------- MODULE MCWsProtocol ----------------------------
(* Two messages over two connections and two identifiers: the calls race   *)
(* for one, and the counter comes round.                                   *)
EXTENDS WsProtocol, TLC

CONSTANTS m1, m2, c1, c2

MCTo == [m \in Message |-> IF m = m2 THEN c2 ELSE c1]
=============================================================================
