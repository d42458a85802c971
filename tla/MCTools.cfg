\* Batches of up to three calls with a budget of four or none.
CONSTANTS
  Caps = {0, 4}
  MaxFailures = 2
  MaxCalls = 3
  MaxIterations = 6
  MaxWorkers = 2
SPECIFICATION FairSpec
INVARIANTS ResultsPairUp BudgetHolds
PROPERTIES AllAnswered FailingToolsEnd
