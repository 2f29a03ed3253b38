---------------------------- MODULE MCIPCManager ----------------------------
(***************************************************************************)
(* IPCManager for TLC: two peers, so that one can block the other at the   *)
(* front of the queue, and a third timeout that makes run reconnect.       *)
(***************************************************************************)
EXTENDS IPCManager

CONSTANTS broker, kai

MCPeers == {broker, kai}

=============================================================================
