SPECIFICATION Spec
CONSTANTS
  Task = {t1, t2, t3}
  None = None
  Requests = {"exchange_declare", "queue_declare"}
  Workloads <- AnsweredOrAlone
  Codes = {"NotFound", "PreconditionFailed"}
  MaxChannels = 2
  ClientCloses = TRUE
  SocketMayDrop = TRUE
  MaxCalls = 4
  MaxUnsolicited = 0
CHECK_DEADLOCK FALSE
INVARIANTS
  AnswersMatch
  CloseDisconnects
  StaysUsable
PROPERTIES
  EveryCallEnds
  ChannelRestored
