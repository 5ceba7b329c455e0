CONSTANTS
  Links = {l1, l2}
  Readers = {r1, r2}
  Ids = {1, 2}
  Fds = {f1, f2, f3}
  MaxDelay = 2
  None = None
SPECIFICATION Spec
INVARIANTS
  SessionHasReader
CHECK_DEADLOCK FALSE
