\* Two members who may leave, several turns each, fairness and no symmetry.
CONSTANTS
  Members = {alice, bob}
  None = None
  MaxAgentCascade = 2
  MaxTurnsPerMember = 2
  MaxEchoRetries = 1
  MaxAutoRounds = 2
  MaxDeferred = 1
  MaxTargets = 2
  RosterChanges = TRUE
SPECIFICATION FairSpec
INVARIANTS BoundedByRounds OnePlacePerQueue
PROPERTIES NoSilentEnd CascadeEnds
