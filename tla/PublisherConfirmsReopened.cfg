SPECIFICATION Spec
CONSTANTS
  Publisher = {p1}
  None = None
  Verdicts = {"ack"}
  Outcomes = {"route", "missing"}
  Bodies = {"some"}
  OutOfOrder = FALSE
  OnReturn = TRUE
  SocketMayDrop = FALSE
  MaxMessages = 2
CHECK_DEADLOCK FALSE
PROPERTIES
  EveryPublishEnds
