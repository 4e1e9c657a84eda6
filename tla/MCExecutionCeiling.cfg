SPECIFICATION Spec
CONSTANTS
  Steps <- MCSteps
  Models <- MCModels
  ProviderOf <- MCProviderOf
  Ranked <- MCRanked
  Estimate <- MCEstimate
  Bills <- MCBills
  Limit <- MCLimit
  MaxAttempts <- MCMaxAttempts
  MaxParallel = 2
  Budget = 2
  MaxRuns = 1
  MaxBatches = 1
  MaxFaults = 0
CHECK_DEADLOCK FALSE
INVARIANT
  CeilingHolds
