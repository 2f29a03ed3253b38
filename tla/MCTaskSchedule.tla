--------------------------- MODULE MCTaskSchedule ---------------------------
(***************************************************************************)
(* TaskSchedule for TLC: t1's success triggers t2 when both are there.     *)
(***************************************************************************)
EXTENDS TaskSchedule, TLC

CONSTANTS t1, t2

NoTriggers   == [t \in Tasks |-> {}]
ChainTrigger == [t \in Tasks |-> IF t = t1 THEN Tasks \ {t1} ELSE {}]
=============================================================================
