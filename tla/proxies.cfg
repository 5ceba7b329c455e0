CONSTANTS
  NumConns = 2
  MaxRemote = 2
  MaxHellos = 1
  MaxEvents = 3
SPECIFICATION Spec
INVARIANT TablesMatchSockets
INVARIANT NothingStranded
INVARIANT TlsKeepsOrder
PROPERTY ProxiesImplementRelay
CHECK_DEADLOCK FALSE
