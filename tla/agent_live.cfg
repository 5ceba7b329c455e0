CONSTANTS
  Links = {l1, l2}
  Readers = {r1}
  Ids = {1}
  Fds = {f1, f2}
  MaxDelay = 2
  None = None
SPECIFICATION FairSpec
PROPERTIES
  StopReturns
  
  
CHECK_DEADLOCK FALSE
