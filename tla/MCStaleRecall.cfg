\* A recall left over from a stopped turn is answered in a later turn.
CONSTANTS
  Runs = {r1, r2}
  Providers = {ollama}
  None = None
  Features = {"stop", "memory", "image"}
  MaxContinuations = 0
  MaxPosted = 2
SPECIFICATION Spec
INVARIANTS NoCrossTalk
