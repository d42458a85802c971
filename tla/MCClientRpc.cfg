\* Two calls, two sessions of the client, two connections of the daemon.
CONSTANTS
  Requests = {r1, r2}
  ExecRequests = {r2}
  MaxSessions = 2
  MaxLinks = 2
  MaxAbandoned = 1
  kMaxPendingBridgeRpc = 1
  kMaxPendingClientRequests = 1
SPECIFICATION FairSpec
CHECK_DEADLOCK FALSE
INVARIANTS ReplacedSessionIsEmpty
PROPERTIES ImplementsOneShotCall CallbackFires
