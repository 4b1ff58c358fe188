SPECIFICATION Spec
CONSTANTS
  None = None
  DialErrors = {"OSError", "TimeoutError"}
  Refusals = {"AccessRefused", "InternalError"}
  Heartbeats = TRUE
  BrokerMayClose = TRUE
  SocketMayDrop = TRUE
  MaxSessions = 3
  MaxCalls = 2
CHECK_DEADLOCK FALSE
INVARIANTS
  TypeOK
  ConnectCanBeRetried
PROPERTIES
  ReconnectedWithChannel
  EveryCallEnds
