\* A batch that crosses the budget.
CONSTANTS
  Caps = {2}
  MaxFailures = 2
  MaxCalls = 3
  MaxIterations = 6
  MaxWorkers = 2
SPECIFICATION Spec
INVARIANTS NotLeftOpen
