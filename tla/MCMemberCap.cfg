\* The cap on a member's turns.
CONSTANTS
  Members = {alice, bob}
  None = None
  MaxAgentCascade = 3
  MaxTurnsPerMember = 2
  MaxEchoRetries = 1
  MaxAutoRounds = 1
  MaxDeferred = 1
  MaxTargets = 2
  RosterChanges = FALSE
SPECIFICATION Spec
INVARIANTS MemberTurnsBounded
