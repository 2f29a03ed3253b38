------------------------------ MODULE JobPool ------------------------------
(***************************************************************************)
(* What kserver's thread pool promises the socket listener that feeds it:  *)
(* jobs are numbered in the order they are submitted, they are started in  *)
(* that order, each one once, each on a worker that holds no other job.    *)
(* Nothing is said about when a job ends: a job serves one client for as   *)
(* long as that client stays.                                              *)
(***************************************************************************)
EXTENDS Naturals

CONSTANT Workers

VARIABLES submitted,  \* how many jobs were handed to the pool
          started,    \* how many of them a worker took
          holding     \* the job each worker holds, 0 when it holds none

poolVars == <<submitted, started, holding>>

Init ==
  /\ submitted = 0
  /\ started = 0
  /\ holding = [w \in Workers |-> 0]

Submit ==
  /\ submitted' = submitted + 1
  /\ UNCHANGED <<started, holding>>

Start(w) ==
  /\ holding[w] = 0
  /\ started < submitted
  /\ started' = started + 1
  /\ holding' = [holding EXCEPT ![w] = started + 1]
  /\ UNCHANGED submitted

Finish(w) ==
  /\ holding[w] # 0
  /\ holding' = [holding EXCEPT ![w] = 0]
  /\ UNCHANGED <<submitted, started>>

Next ==
  \/ Submit
  \/ \E w \in Workers : Start(w) \/ Finish(w)

Spec == Init /\ [][Next]_poolVars
=============================================================================
