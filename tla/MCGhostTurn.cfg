\* Stop before a posted continuation fires.
CONSTANTS
  Runs = {r1, r2}
  Providers = {ollama}
  None = None
  Features = {"stop", "member"}
  MaxContinuations = 1
  MaxPosted = 3
SPECIFICATION Spec
INVARIANTS CancelledNeverResumes
