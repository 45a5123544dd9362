SPECIFICATION ManagedFairSpec
CONSTANTS
  Orders = {o1}
  All = all
  Connections = 1
  Pipelining = TRUE
  ExpiresTimeout = 1
  RequestTimeout = 30
  Versions = 3
  Requests = 3
  Troubles <- Troubled
  Budget = 1
  Losses = 2
INVARIANTS OpenShown EndsShown
PROPERTIES FollowsLife EventuallyInformed
CHECK_DEADLOCK FALSE
