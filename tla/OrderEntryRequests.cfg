SPECIFICATION Spec
CONSTANTS
  Orders = {o1}
  All = all
  Connections = 2
  Pipelining = TRUE
  ExpiresTimeout = 1
  RequestTimeout = 30
  Versions = 3
  Requests = 3
  Troubles <- Troubled
  Budget = 1
INVARIANTS TypeOK AnsweredOnce AnswersMatch ReasonTrue TakenInTurn NewestTold
PROPERTY TimeoutSettles
CHECK_DEADLOCK FALSE
