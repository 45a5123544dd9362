SPECIFICATION Spec
CONSTANTS
  Orders = {"b"}
  SideOf <- MCSideOf
  Quantity = 2
  LeftPositions = {0}
  CancelOnDisconnect = TRUE
  CancelAllAfter = 4
  Millisecond = 1
  Period = 0
  Delay = 0
  Budget <- StatusEvents
CHECK_DEADLOCK FALSE
INVARIANTS
  DocumentedStatus
