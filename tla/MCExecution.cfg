SPECIFICATION Spec
CONSTANTS
  Steps <- MCSteps
  Models <- MCModels
  ProviderOf <- MCProviderOf
  Ranked <- MCRanked
  Estimate <- MCEstimate
  Bills <- MCBills
  Limit <- MCLimit
  MaxAttempts <- MCMaxAttempts
  MaxParallel = 2
  Budget = 2
  MaxRuns = 2
  MaxBatches = 2
  MaxFaults = 1
CHECK_DEADLOCK FALSE
INVARIANTS
  TypeOK
PROPERTIES
  BudgetHeld
  ImplementsContract
