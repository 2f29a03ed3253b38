---------------------------- MODULE MCTaskQueue ----------------------------
(* The thread pool with a handful of workers and pushes.                   *)
EXTENDS TaskQueue
=============================================================================
