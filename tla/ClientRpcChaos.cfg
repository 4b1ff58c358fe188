SPECIFICATION Spec
CONSTANTS
  Task = {t1, t2}
  None = None
  Requests = {"queue_declare", "tx_select", "tx_commit", "confirm_select"}
  Workloads <- Refused
  Codes = {"NotFound"}
  MaxChannels = 2
  ClientCloses = TRUE
  SocketMayDrop = TRUE
  MaxCalls = 2
  MaxUnsolicited = 1
SYMMETRY Symmetry
CHECK_DEADLOCK FALSE
INVARIANTS
  TypeOK
  ChannelAgrees
  NothingFollowsClose
