SPECIFICATION Spec
CONSTANTS
  Nodes <- ReleaseNodes
  Edges <- ReleaseEdges
  AnyJoin = {}
  Gated = {"deploy"}
  Feedback <- ReleaseFeedback
  Payloads = {"good", "bad"}
  Holds <- ReleaseHolds
  Fires <- ReleaseFires
  Position <- ReleasePosition
  NoNode = "no node"
  NoPayload = "no payload"
  MaxRepairs = 1
  MaxAttempts = 1
  Production = TRUE
  MaxRequests = 4
  MaxRestarts = 1
  MaxFaults = 0
INVARIANTS
  ApprovalGate
  CurrentInputs
\* The workflow may stop for good: it completes, or nobody resumes it.
CHECK_DEADLOCK FALSE
