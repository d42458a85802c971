\* A good model, one that fails to load after the slot was emptied, the good
\* one again: warmModelBlocking reports it loaded.
CONSTANTS
  Models = {ma, mb}
  NoModel = NoModel
  CallSlots <- BlockingSlots
  kMaxConsecutiveSpawnFailures = 3
  MaxRequests = 3
SPECIFICATION Spec
CHECK_DEADLOCK FALSE
INVARIANTS WarmMeansLoaded
