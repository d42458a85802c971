\* A classification that outlives its turn.
CONSTANTS
  Runs = {r1}
  Providers = {ollama}
  None = None
  Features = {"stop", "verdict"}
  MaxContinuations = 1
  MaxPosted = 3
SPECIFICATION Spec
PROPERTIES StaleVerdictDropped
