\* A client that reconnects while its old socket still closes.
CONSTANTS
  Requests = {r1, r2}
  ExecRequests = {r2}
  MaxSessions = 2
  MaxLinks = 2
  MaxAbandoned = 1
  kMaxPendingBridgeRpc = 1
  kMaxPendingClientRequests = 2
SPECIFICATION FairSpec
CHECK_DEADLOCK FALSE
PROPERTIES LiveSessionIsReached
