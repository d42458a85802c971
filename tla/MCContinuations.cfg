\* Two runs on one provider, every way a turn continues, a failed request and an agent included; nobody stops.
CONSTANTS
  Runs = {r1, r2}
  Providers = {ollama}
  None = None
  Features = {"queue", "tools", "cap", "verdict", "member", "retry", "continue", "confirm", "memory", "react", "image", "fail", "agent"}
  MaxContinuations = 1
  MaxPosted = 2
SPECIFICATION FairSpec
INVARIANTS SlotsMatchHolders SomethingPending
PROPERTIES TurnEnds QueuedTextLeaves
