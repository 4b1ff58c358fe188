SPECIFICATION Spec
CONSTANTS
  Task = {t1, t2}
  None = None
  Requests = {"queue_declare"}
  Workloads <- Refused
  Codes = {"NotFound"}
  MaxChannels = 2
  ClientCloses = FALSE
  SocketMayDrop = FALSE
  MaxCalls = 2
  MaxUnsolicited = 0
SYMMETRY Symmetry
CHECK_DEADLOCK FALSE
INVARIANTS
  StaysUsable
