SPECIFICATION Spec
CONSTANTS
  Nodes <- ReleaseNodes
  Edges <- ReleaseEdges
  AnyJoin = {}
  Gated = {"deploy"}
  Feedback <- ReleaseFeedback
  Payloads = {"good", "bad"}
  Holds <- ReleaseHolds
  Fires <- ReleaseFires
  Position <- ReleasePosition
  NoNode = "no node"
  NoPayload = "no payload"
  MaxRepairs = 1
  MaxAttempts = 1
  Production = FALSE
  MaxRequests = 1
  MaxRestarts = 0
  MaxFaults = 0
INVARIANT
  DecisionResumes
\* The workflow may stop for good: it completes, or nobody resumes it.
CHECK_DEADLOCK FALSE
