------------------------ MODULE GrpcTransportClient ------------------------
(***************************************************************************)
(* grpcapi::GrpcTransportClient (grpcapi/src/GrpcTransportClient.cpp): one *)
(* call of Connect over one channel, a thread that reads its stream, and   *)
(* the wait for the channel.  The call, which blocks meanwhile, waits for  *)
(* one attempt to connect (gRPC's default): when that fails the call is    *)
(* over, and the channel, which tries again, may still get ready.          *)
(***************************************************************************)
VARIABLE rpc

(* receiveThread: where it is.  wait: where waitForConnection's caller is. *)
Init ==
  rpc = [channel |-> "none", stream |-> "none", receiveThread |-> "none",
         stopped |-> FALSE, wait |-> "no"]

Connect ==
  /\ rpc.channel = "none"
  /\ rpc' = [rpc EXCEPT !.channel = "connecting", !.stream = "pending"]

(* The stub has sent what opens the call, or failed to.                    *)
Connected ==
  /\ rpc.stream # "pending" /\ rpc.receiveThread = "none"
  /\ rpc' = [rpc EXCEPT !.receiveThread = "reading"]

ChannelReady ==
  /\ rpc.channel = "connecting"
  /\ rpc' = [rpc EXCEPT !.channel = "ready",
                        !.stream = IF @ = "pending" THEN "alive" ELSE @]

ChannelFails ==
  /\ rpc.channel \in {"connecting", "ready"}
  /\ rpc' = [rpc EXCEPT !.channel = "connecting", !.stream = "over"]

(* An attempt to connect succeeds or fails, in the end by its timeout.     *)
AttemptEnds == rpc.stream = "pending" /\ (ChannelReady \/ ChannelFails)

CallEnds ==
  /\ rpc.stream = "alive"
  /\ rpc' = [rpc EXCEPT !.stream = "over"]

ReadFails ==
  /\ rpc.receiveThread = "reading" /\ rpc.stream = "over"
  /\ rpc' = [rpc EXCEPT !.receiveThread = "ended"]

WaitForConnection ==
  /\ rpc.channel # "none" /\ rpc.wait = "no"
  /\ rpc' = [rpc EXCEPT !.wait = "blocked"]

(* The channel is ready, or the deadline passes.                           *)
WaitReturns ==
  /\ rpc.wait = "blocked"
  /\ rpc' = [rpc EXCEPT !.wait = IF rpc.channel = "ready" THEN "connected" ELSE "givenUp"]

(* disconnect, up to the join: TryCancel ends the call.                    *)
Disconnect ==
  rpc' = IF rpc.stopped THEN rpc ELSE [rpc EXCEPT !.stopped = TRUE, !.stream = "over"]
Joined == rpc.receiveThread = "ended"

(* A write to a call that is over fails, and is only logged.               *)
CanSend == rpc.stream = "alive"

Scheduled == AttemptEnds \/ ReadFails \/ WaitReturns
Network == ChannelReady \/ ChannelFails \/ CallEnds
=============================================================================
