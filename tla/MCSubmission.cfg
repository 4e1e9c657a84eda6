SPECIFICATION Spec
CONSTANTS
  Roles <- MCRoles
  SlugOf <- MCSlugOf
  MaxAgents = 4
  Agents <- MCAgents
  Emits <- MCEmits
  Provides <- MCProvides
  Price <- MCPrice
  IdOrder <- MCIdOrder
  Models <- MCModels
  Available <- MCAvailable
  NoModel = "none"
  Analyses <- MCAnalyses
  Owners <- MCOwners
  Requests <- MCRequests
  NoRequest = NoRequest
  Designs <- MCDesigns
  FallbackTeam <- MCFallbackTeam
  Threshold = 3
  MaxRequests = 2
  MaxToggles = 1
  MaxFaults = 1
CHECK_DEADLOCK FALSE
INVARIANTS
  SubmissionTypeOK
  CoveredOnce
  StagesForbidCycles
  WorkReaches
  FieldsGuaranteed
  TeamIsSound
  ThreadsOwned
PROPERTIES
  TurnedAway
