CONSTANTS
  Fds = {1, 2}
  Requesters = {2}
  MaxInputs = 2
SPECIFICATION Spec
CHECK_DEADLOCK FALSE
INVARIANTS
  
  
  AnsweredInFull

  
