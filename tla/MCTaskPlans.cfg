\* Two conversations, two plans of up to two steps, one turn at a time.
CONSTANTS
  Conversations = {c1, c2}
  None = None
  Outlines = {2}
  MaxPlans = 2
  MaxGenerating = 1
  MaxSteps = 3
SPECIFICATION Spec
SYMMETRY Symmetry
CHECK_DEADLOCK FALSE
INVARIANTS AnchorIsLive NothingLeftMeansClosed
PROPERTIES OnlyUserReopens
