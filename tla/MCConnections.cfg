SPECIFICATION FairSpec
CONSTANTS
  Fds = {f1, f2}
  Users = {u1}
  Workers = {w1, w2}
  MaxConns = 2
  NoFd = NoFd
  NoUser = NoUser
  Freed = Freed
INVARIANTS WorkerOwnsDescriptor NoDescriptorLeak
PROPERTIES EndedIsClosed ExpiredIsSwept
CHECK_DEADLOCK FALSE
