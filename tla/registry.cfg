CONSTANTS
  Agents = {a1}
  Conns = {c1, c2}
  Senders = {x1}
  Fds = {f1, f2}
  NoConn = NoConn
  NoFd = NoFd
  NoAgent = NoAgent
SPECIFICATION FairSpec
INVARIANTS
  TypeOK
  ConnFdIsOwn
  RegisteredIsOpen
  NoDescriptorLeak
PROPERTIES
  
  
  StopEmptiesRegistry
CHECK_DEADLOCK FALSE
