\* Stop and resend on another provider while a grant is posted.
CONSTANTS
  Runs = {r1, r2}
  Providers = {ollama, openai}
  None = None
  Features = {"stop"}
  MaxContinuations = 0
  MaxPosted = 3
SPECIFICATION Spec
INVARIANTS SlotsMatchHolders
