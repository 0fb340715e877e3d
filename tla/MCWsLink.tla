------------------------------ MODULE MCWsLink ------------------------------
(* Two requests and a push, in the three forms of the length; a foreign    *)
(* end sends three frames at most, of one message, of two or of three, the *)
(* last left open or not, and puts one control frame anywhere.             *)
EXTENDS WsLink

MCPart == {"short", "long", "huge"}
MCLengthBytes == [p \in MCPart |-> CASE p = "short" -> 0 [] p = "long" -> 2 [] p = "huge" -> 8]
MCPushes == <<"huge">>
MCRequests == <<"long", "short">>
MCParts == <<"huge", "short", "short">>
=============================================================================
