\* Stop a turn, then run a task.
CONSTANTS
  Runs = {r1}
  Providers = {ollama}
  None = None
  Features = {"stop", "plan"}
  MaxContinuations = 0
  MaxPosted = 3
SPECIFICATION Spec
PROPERTIES OnlyStoppedTurnsCancelPlans
