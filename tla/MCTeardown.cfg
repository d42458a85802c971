\* A session is destroyed while others wait.
CONSTANTS
  Runs = {r1, r2}
  Providers = {ollama}
  None = None
  Features = {"destroy"}
  MaxContinuations = 0
  MaxPosted = 3
SPECIFICATION Spec
CHECK_DEADLOCK FALSE
INVARIANTS SlotsMatchHolders
