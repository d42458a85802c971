\* A write whose answer comes after its deadline.
CONSTANTS
  Requests = {r1, r2}
  ExecRequests = {r2}
  MaxSessions = 2
  MaxLinks = 2
  MaxAbandoned = 1
  kMaxPendingBridgeRpc = 1
  kMaxPendingClientRequests = 2
SPECIFICATION FairSpec
CHECK_DEADLOCK FALSE
INVARIANTS WrittenOnce
