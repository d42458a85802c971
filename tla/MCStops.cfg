\* Two runs, two providers; agent, plan and plain turns fail, are stopped and
\* are torn down at any moment.
CONSTANTS
  Runs = {r1, r2}
  Providers = {ollama, openai}
  None = None
  Features = {"agent", "plan", "fail", "stop", "destroy", "delete"}
  MaxContinuations = 0
  MaxPosted = 2
SPECIFICATION Spec
CHECK_DEADLOCK FALSE
INVARIANTS SlotNeverShared NoCrossTalk
