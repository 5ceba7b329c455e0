CONSTANTS
  Clients = {c1, c2}
  Fds = {f1, f2}
  Listen = Listen
  MaxEvents = 2
  MaxQueue = 1
  MaxReplies = 2
  None = None
SPECIFICATION FairSpec
INVARIANTS
  TypeOK
  TablesMatchSockets
  ReplyToOwner
  EventIsOwn
  NoStrandedReply
PROPERTIES
  IdleSessionExpires
  StopEndsLoop
CHECK_DEADLOCK FALSE
