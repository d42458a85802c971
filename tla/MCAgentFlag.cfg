\* Stop an agent turn that waits for its slot.
CONSTANTS
  Runs = {r1, r2}
  Providers = {ollama}
  None = None
  Features = {"stop", "agent"}
  MaxContinuations = 0
  MaxPosted = 3
SPECIFICATION Spec
INVARIANTS HeldMeansWorking
