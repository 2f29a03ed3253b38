SPECIFICATION FairSpec
CONSTANTS
  f1 = f1
  f2 = f2
  NoFd = NoFd
  Fds <- MCFds
  Workloads <- MCWorkloads
  MaxConns = 2
  FileParts = 2
  MaxRequests = 2
  MaxReceived = 2
  MaxTime = 2
CHECK_DEADLOCK FALSE
INVARIANTS
  AckedFileIsHeld
  SentAsRequested
 
