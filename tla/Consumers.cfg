SPECIFICATION Spec
CONSTANTS
  Task = {t1, t2}
  None = None
  Workloads <- All
  SocketMayDrop = TRUE
  MaxCalls = 3
  MaxDeliveries = 2
CHECK_DEADLOCK FALSE
INVARIANTS
  TypeOK
  HandedAsSent
  DeliveredIsHanded
  CarefulIsServed
  SettledIsMeant
PROPERTIES
  EveryCallEnds
