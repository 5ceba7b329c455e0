CONSTANTS
  Clients = {x1, g1}
  Gateway = {g1}
  Fds = {f1}
  MaxId = 2
  MaxInFlight = 1
  NoClient = NoClient
  NoFd = NoFd
  NoSession = NoSession
SPECIFICATION FairSpec
PROPERTIES
  OpenResolves
  GoneIsReleased
  StopDrains
CHECK_DEADLOCK FALSE
