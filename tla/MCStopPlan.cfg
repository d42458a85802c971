\* The plan a turn works on is stopped.
CONSTANTS
  Conversations = {c1, c2}
  None = None
  Outlines = {2}
  MaxPlans = 2
  MaxGenerating = 1
  MaxSteps = 3
SPECIFICATION Spec
CHECK_DEADLOCK FALSE
PROPERTIES StopPlanStopsTurn
