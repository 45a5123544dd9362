SPECIFICATION Spec
CONSTANTS
  Orders = {o1}
  All = all
  Connections = 1
  Pipelining = FALSE
  ExpiresTimeout = 1
  RequestTimeout = 30
  Versions = 3
  Requests = 3
  Troubles <- Limited
  Budget = 1
INVARIANT RateLimitTold
CHECK_DEADLOCK FALSE
