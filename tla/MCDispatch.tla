----------------------------- MODULE MCDispatch -----------------------------
(* The dispatch of requests and events, for two clients.                   *)
EXTENDS Dispatch
=============================================================================
