\* A message is queued behind a turn that fails.
CONSTANTS
  Runs = {r1, r2}
  Providers = {ollama, openai}
  None = None
  Features = {"queue", "fail"}
  MaxContinuations = 0
  MaxPosted = 3
SPECIFICATION Spec
INVARIANTS DrainsWhenIdle
