\* Turns of background runs and the router's count.
CONSTANTS
  Convs = {c1, c2}
  Wire = {}
  Features = {}
SPECIFICATION Spec
INVARIANT CountIsTruth
CHECK_DEADLOCK FALSE
