\* Two requests over two models, one blocking slot and the chat slot; the latch
\* falls at the first process that does not start.
CONSTANTS
  Models = {ma, mb}
  NoModel = NoModel
  CallSlots <- BlockingSlots
  kMaxConsecutiveSpawnFailures = 1
  MaxRequests = 2
SPECIFICATION Spec
CHECK_DEADLOCK FALSE
INVARIANTS EndsOnce OwnModelAnswers InFlightIsReal
PROPERTIES RequestEnds
