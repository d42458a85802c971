\* A cancel that finds the stream waiting for its model to load.
CONSTANTS
  Models = {ma}
  NoModel = NoModel
  CallSlots <- BlockingSlots
  kMaxConsecutiveSpawnFailures = 3
  MaxRequests = 2
SPECIFICATION Spec
CHECK_DEADLOCK FALSE
PROPERTIES CancelLands
