SPECIFICATION NetworkSpec
CONSTANTS
  Nodes <- FloorNodes
  Edges <- FloorEdges
  AnyJoin = {}
  Gated = {"test"}
  Feedback <- FloorFeedback
  Payloads = {"good", "bad"}
  Holds <- FloorHolds
  Fires <- FloorFires
  Position <- FloorPosition
  NoNode = "no node"
  NoPayload = "no payload"
  MaxRepairs = 1
  MaxAttempts = 1
  Production = FALSE
  MaxRequests = 1
  MaxRestarts = 1
  MaxFaults = 1
  Orchestrator = "orchestrator"
  Writers = {"orchestrator", "docs"}
  Written <- OutsideLetters
  Handled = {"task_request", "context_request", "information_request", "artifact_share", "status_update"}
  PageSize = 1
  MaxLetters = 1
INVARIANTS
  NetworkTypeOK
  HandoffOnRecord
  HandoffRead
  RunningIsShown
  
  NoRequestForgotten
\* The workflow may stop for good: it completes, or nobody resumes it.
CHECK_DEADLOCK FALSE
