SPECIFICATION Spec
CONSTANTS
  Publisher = {p1}
  None = None
  Verdicts = {"ack", "nack"}
  Outcomes = {"route", "return", "missing"}
  Bodies = {"some"}
  OutOfOrder = FALSE
  OnReturn = TRUE
  SocketMayDrop = FALSE
  MaxMessages = 3
CHECK_DEADLOCK FALSE
INVARIANTS
  ConfirmsAreTrue
  ReturnedIsReported
  TagsAreForgotten
  StaysUsable
