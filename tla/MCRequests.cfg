CONSTANTS
  ann = ann
  bob = bob
  c1 = c1
  c2 = c2
  Subs = {ann, bob}
  Emails = {mail}
  Runners = {ann}
  Files = {report}
  Slots = {c1, c2}
  RateLimit = 1
  Window = 1
  Cap = 1
  MaxVersion = 2
  MaxCalls = 3
  MaxRunning = 1
  MaxFaults = 1
SPECIFICATION Spec
INVARIANTS
  FilesBacked
PROPERTIES
  TurnComes
CHECK_DEADLOCK FALSE
