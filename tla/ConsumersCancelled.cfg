SPECIFICATION Spec
CONSTANTS
  Task = {t1}
  None = None
  Workloads <- Cancelled
  SocketMayDrop = FALSE
  MaxCalls = 3
  MaxDeliveries = 2
CHECK_DEADLOCK FALSE
INVARIANTS
  ServedUntilCancelOk
