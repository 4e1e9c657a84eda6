CONSTANTS
  Providers <- MCProviders
  DemoVendor = "fake"
  Catalogue <- MCCatalogue
  EnvKeyed <- MCEnvKeyed
  Production = FALSE
  key1 = key1
  key2 = key2
  Keys <- MCKeys
  NoKey = NoKey
  EnvKey = EnvKey
  Listings <- MCListings
  Policies <- MCPolicies
  NoPolicy <- MCPlain
  Agents <- MCAgents
  Wants <- BUILTIN_AGENTS
  Models <- MCModels
  NoModel = "none"
  ModelSpec <- MCSpec
  c1 = c1
  c2 = c2
  Calls <- MCCalls
  MaxCalls = 3
  MaxFaults = 1
SYMMETRY Symmetric
SPECIFICATION Spec
INVARIANTS
  ProviderTypeOK
  RegistryCurrent
  RoutedSoundly
CHECK_DEADLOCK FALSE
