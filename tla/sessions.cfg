CONSTANTS
  Clients = {x1, g1}
  Gateway = {g1}
  Fds = {f1, f2}
  MaxId = 2
  MaxInFlight = 1
  NoClient = NoClient
  NoFd = NoFd
  NoSession = NoSession
SPECIFICATION Spec
INVARIANTS
  TypeOK
  SessionFdIsOwn
  PendingIsAwaited
  NoOrphanSession
CHECK_DEADLOCK FALSE
