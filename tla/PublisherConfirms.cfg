SPECIFICATION Spec
CONSTANTS
  Publisher = {p1, p2}
  None = None
  Verdicts = {"ack"}
  Outcomes = {"route", "return", "missing"}
  Bodies = {"some", "empty"}
  OutOfOrder = FALSE
  OnReturn = FALSE
  SocketMayDrop = TRUE
  MaxMessages = 1
CHECK_DEADLOCK FALSE
INVARIANTS
  TypeOK
  ConfirmsAreTrue
  ErrorIsRaisedOnce
PROPERTIES
  AckedPublishEnds
