CONSTANTS
  Agents = {a1}
  Conns = {c1, c2, c3}
  Senders = {x1}
  Fds = {f1, f2}
  NoConn = NoConn
  NoFd = NoFd
  NoAgent = NoAgent
SPECIFICATION Spec
PROPERTIES
  ReplacementKept
CHECK_DEADLOCK FALSE
