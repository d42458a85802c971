\* A deleted conversation's entry is opened again.
CONSTANTS
  Convs = {c1, c2}
  Wire = {}
  Features = {"delete","stale"}
SPECIFICATION Spec
INVARIANT OneTurnPerConversation
CHECK_DEADLOCK FALSE
