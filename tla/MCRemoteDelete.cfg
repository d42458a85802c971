\* The desktop deletes a conversation a remote client has a turn in.
CONSTANTS
  Convs = {c1, c2}
  Wire = {w1}
  Features = {"delete"}
SPECIFICATION Spec
INVARIANT NoTurnInDeletedConversation
CHECK_DEADLOCK FALSE
