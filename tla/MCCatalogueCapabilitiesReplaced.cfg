CONSTANTS
  research = research
  writer = writer
  e1 = e1
  Scout = Scout
  scout = scout
  Writer = Writer
  Helper = Helper
  find = find
  write = write
  text = text
  number = number
  claude = claude
  summary = summary
  score = score
  c1 = c1
  c2 = c2
  Builtin <- MCBuiltin
  FreshIds <- MCFresh
  NoId = NoId
  Names <- MCNames
  Lower <- MCLower
  Capabilities = {find, write}
  Props <- MCProps
  Types = {text, number}
  NoType = NoType
  Shipped <- MCShipped
  Enrollments <- MCEnrollments
  Patches <- MCPatches
  NoChange = NoChange
  Malformed = {}
  Models = {claude}
  AnyModel = AnyModel
  Calls <- MCCalls
  MaxCalls = 3
  MaxStarts = 2
  MaxFaults = 1
SYMMETRY Symmetric
SPECIFICATION Spec
PROPERTIES
  CapabilitiesReplaced
CHECK_DEADLOCK FALSE
