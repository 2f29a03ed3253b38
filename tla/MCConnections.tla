--------------------------- MODULE MCConnections ---------------------------
(* Two clients of kserver, on descriptors that are reused.                 *)
EXTENDS Connections
=============================================================================
