------------------------- MODULE MCTransportServers -------------------------
(* Two users over two connections: they can share one, use both and      *)
(* change over while a push is between its lookup and its sending.         *)
EXTENDS TransportServers
=============================================================================
