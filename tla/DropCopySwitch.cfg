SPECIFICATION FairSpec
CONSTANTS
  Orders = {"b"}
  SideOf <- MCSideOf
  Quantity = 2
  LeftPositions = {0}
  CancelOnDisconnect = TRUE
  CancelAllAfter = 9
  Millisecond = 7
  Period = 2
  Delay = 2
  Budget <- SwitchEvents
CHECK_DEADLOCK FALSE
INVARIANTS
  Protected
  SwitchWound
PROPERTIES
  EventuallyTold
