SPECIFICATION FairSpec
CONSTANTS
  Workers = {w1, w2, w3}
  Free = Free
  MaxPushes = 3
  Word = 4
INVARIANT NoIdleWorkerBesideWork
PROPERTIES PushedIsStarted ImplementsJobPool
CHECK_DEADLOCK FALSE
