SPECIFICATION Spec
CONSTANTS
  None = None
  DialErrors = {"OSError"}
  Refusals = {"InternalError"}
  Heartbeats = FALSE
  BrokerMayClose = TRUE
  SocketMayDrop = FALSE
  MaxSessions = 3
  MaxCalls = 2
CHECK_DEADLOCK FALSE
INVARIANT
  StaysUsable
