\* The desktop and a remote client over two conversations.
CONSTANTS
  Convs = {c1, c2}
  Wire = {w1}
  Features = {"delete", "clear"}
SPECIFICATION Spec
INVARIANTS CountIsSum OneTurnPerConversation DesktopLeavesDeleted
PROPERTIES SwitchKeepsTurns RepointResynchronises
CHECK_DEADLOCK FALSE
