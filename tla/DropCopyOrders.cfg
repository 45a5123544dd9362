SPECIFICATION Spec
CONSTANTS
  Orders = {"s"}
  SideOf <- MCSideOf
  Quantity = 2
  LeftPositions = {1}
  CancelOnDisconnect = FALSE
  CancelAllAfter = 1
  Millisecond = 1
  Period = 1
  Delay = 0
  Budget <- OrderEvents
CHECK_DEADLOCK FALSE
INVARIANTS
  TypeOK
  OrdersCurrent
  PositionCurrent
  FillsExact
  AnswersTrue
  Disarmed
