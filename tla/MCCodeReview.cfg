SPECIFICATION FairSpec
CONSTANTS
  Nodes <- ReviewNodes
  Edges <- ReviewEdges
  AnyJoin = {"docs"}
  Gated = {"code"}
  Feedback <- ReviewFeedback
  Payloads = {"good", "bad"}
  Holds <- ReviewHolds
  Fires <- ReviewFires
  Position <- ReviewPosition
  NoNode = "no node"
  NoPayload = "no payload"
  MaxRepairs = 1
  MaxAttempts = 1
  Production = FALSE
  MaxRequests = 2
  MaxRestarts = 1
  MaxFaults = 1
INVARIANTS
  TypeOK
  ApprovalGate
  CompletedMeansSettled
  JoinRespected
  CurrentInputs
  MemoryAgrees
  NoOrphanRun
PROPERTY
  PaidOnce
  RunEnds
\* The workflow may stop for good: it completes, or nobody resumes it.
CHECK_DEADLOCK FALSE
