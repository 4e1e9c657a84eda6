SPECIFICATION FairSpec
CONSTANTS
  Steps <- FewSteps
  Models <- MCModels
  ProviderOf <- MCProviderOf
  Ranked <- FewRanked
  Estimate <- MCEstimate
  Bills <- MCBills
  Limit <- FewLimit
  MaxAttempts <- FewMaxAttempts
  MaxParallel = 2
  Budget = 8
  MaxRuns = 1
  MaxBatches = 1
  MaxFaults = 1
CHECK_DEADLOCK FALSE
INVARIANTS
  NoModelLeftOut
PROPERTIES
  NoRecall
  BatchEnds
