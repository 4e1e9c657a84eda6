------------------------- MODULE WorkflowProperties -------------------------
(***************************************************************************)
(* What the workflow of module WorkflowEngine must do, and what documents  *)
(* and comments of the repository say it does.                             *)
(***************************************************************************)
EXTENDS WorkflowEngine

(* Every variable has its type.                                            *)
TypeOK ==
  /\ wf \in WorkflowStatus /\ task \in TaskStatus /\ cancelReq \in BOOLEAN
  /\ node \in [Nodes -> NodeStatus]
  /\ approval \in [Nodes -> Decision]
  /\ tries \in [Nodes -> Nat]
  /\ payload \in [Nodes -> Results]
  /\ pc \in Places /\ kind \in {"execute", "resume"} /\ spawns \in Nat
  /\ mine \in [Nodes -> NodeStatus]
  /\ seen \in [Nodes -> Decision]
  /\ dirty \in SUBSET Nodes /\ wfDirty \in BOOLEAN
  /\ state \in WorkflowRun /\ batch \in SUBSET Nodes
  /\ basis \in [Nodes -> [Nodes -> Nat]]
  /\ granted \in SUBSET Nodes
  /\ sentBack \in [Nodes -> Nat]
  /\ unrecorded \in BOOLEAN
  /\ requests \in Nat /\ restarts \in Nat /\ faults \in Nat

-----------------------------------------------------------------------------
(* Safety.                                                                 *)

Started(status) == status \in {"running", "completed", "failed"}

(* A step that needs approval is never started, and so never has a result  *)
(* or a failure, unless some person approved it: through every repair,     *)
(* retry, resume and restart, and whatever copy of the approval the engine *)
(* holds (_partition_approval).                                            *)
ApprovalGate ==
  \A n \in Gated :
    Started(node[n]) \/ n \in batch => n \in granted

(* Why it holds: a node is marked running only on a decision the engine    *)
(* has seen, and no copy of a decision, in a row or in an entity, says     *)
(* "approved" unless an operator did.                                      *)
GateInv ==
  \A n \in Gated :
    /\ Started(node[n]) \/ Started(mine[n]) \/ n \in batch => n \in granted
    /\ approval[n] = "approved" \/ seen[n] = "approved" => n \in granted

(* A workflow reported as completed has nothing left to run: each of its   *)
(* steps has a result or was skipped, whatever operators did to the rows   *)
(* while the engine finished (the loop's break on no ready nodes).         *)
CompletedMeansSettled ==
  wf = "completed" => \A n \in Nodes : node[n] \in {"completed", "skipped"}

(* Why it holds: the engine's memory, its entities and the rows its        *)
(* transaction shows agree on every settled step, an accepted control      *)
(* never reaches a settled step or a step of a batch, and a step fails     *)
(* only in the batch that ends the run.                                    *)
Faithful(n) ==
  /\ state.out[n] # NoPayload => Own(n) = "completed" /\ Entity(n) = "completed"
  /\ n \in state.skipped => Own(n) = "skipped" /\ Entity(n) = "skipped"
  /\ kind = "resume" /\ mine[n] = "skipped" => n \in state.skipped
  /\ pc # "failing" => Own(n) # "failed"

SettledInv ==
  /\ pc \notin Looping => state = NewRun
  /\ pc = "queued" /\ kind = "execute" =>
       wf = "pending" /\ dirty = {} /\ \A n \in Nodes : node[n] # "failed"
  /\ pc \in Looping => wf # "completed" /\ \A n \in Nodes : Faithful(n)
  /\ pc \in {"calling", "failing", "routing"} => wf = "running"
  /\ pc \in {"preparing", "calling"} => \A n \in batch : Entity(n) = "running"
  /\ CompletedMeansSettled

(* The result of d, if it has one, lets n run.                             *)
Lets(d, n) == node[d] = "completed" /\ payload[d] \in Holds[<<d, n>>]

(* No step has a result its join would have refused: at any time, the      *)
(* results on record justify the run of every completed step, and a repair *)
(* or retry upstream takes with it what it no longer justifies             *)
(* (_skip_reason, _route_feedback).                                        *)
JoinRespected ==
  \A n \in Nodes : node[n] = "completed" =>
    LET deps == DependenciesOf(n)
    IN  IF n \in AnyJoin /\ deps # {} THEN \E d \in deps : Lets(d, n)
                                      ELSE \A d \in deps : Lets(d, n)

(* No result is derived from a superseded answer: a completed step used    *)
(* exactly the last attempt of each dependency that has a result, and      *)
(* nothing of one that was skipped ("otherwise the workflow would report   *)
(* results derived from an answer that has been superseded",               *)
(* _route_feedback).                                                       *)
CurrentInputs ==
  \A n \in Nodes : node[n] = "completed" =>
    \A d \in DependenciesOf(n) :
      \/ node[d] = "completed" /\ basis[n][d] = tries[d]
      \/ node[d] = "skipped" /\ basis[n][d] = 0

(* What the engine schedules from agrees with the rows its transaction     *)
(* shows: the same results, skips that are on record, and attempt numbers  *)
(* that have not been used (record_execution would hit the unique          *)
(* (node, attempt) pair), after any resume.                                *)
MemoryAgrees ==
  pc \in Looping =>
    \A n \in Nodes :
      /\ state.out[n] = (IF Own(n) = "completed" THEN payload[n] ELSE NoPayload)
      /\ n \in state.skipped => Own(n) = "skipped"
      /\ state.used[n] = tries[n]

(* Why these hold: a row somebody holds a lock on has no result; a result  *)
(* in memory is the one on record, and what it was computed from is        *)
(* settled in memory too; and the steps of a batch stay runnable until     *)
(* their answers are recorded.                                             *)
InputsSettled(n) ==
  \A d \in DependenciesOf(n) : Resolved(state.out, state.skipped, d)

Recorded(n) ==
  /\ state.out[n] = (IF Own(n) = "completed" THEN payload[n] ELSE NoPayload)
  /\ state.used[n] = tries[n]
  /\ state.out[n] # NoPayload => InputsSettled(n)

RecordInv ==
  /\ pc = "queued" /\ kind = "execute" =>
       \A n \in Nodes : node[n] # "completed" /\ tries[n] = 0
  /\ pc \notin Looping => dirty = {}
  /\ \A n \in dirty : node[n] # "completed" /\ mine[n] # "completed"
  /\ \A n \in Nodes : node[n] = "completed" => payload[n] # NoPayload
  /\ pc \in Looping => \A n \in Nodes : Recorded(n)
  /\ pc \in {"preparing", "calling"} => \A n \in batch :
       /\ ~Resolved(state.out, state.skipped, n)
       /\ InputsSettled(n) /\ JoinSatisfied(n, state.out, state.skipped)
  /\ JoinRespected /\ CurrentInputs

(* A workflow that says it is running or about to has a coroutine: the     *)
(* user never watches a run nobody executes, through crashes, restarts and *)
(* submissions that had not started.  Only a crash whose recording failed  *)
(* as well, or a restart without a sweep, leaves such a run, and only      *)
(* until the next sweep or resume (_record_crash, mark_interrupted_runs).  *)
NoOrphanRun ==
  wf \in {"pending", "running"} /\ pc \in {"none", "closing"} => unrecorded

(* Completed work is paid for once: a step loses its result only when a    *)
(* verdict on record sends it, or something upstream of it, back, or when  *)
(* a failed step upstream of it is retried; no resume, crash or restart    *)
(* runs it again (resume(): "no work is paid for twice").                  *)
SentBackByVerdict(n) ==
  \E v \in Nodes : /\ Feedback[v] # NoNode
                  /\ node[v] = "completed" /\ payload[v] \in Fires[v]
                  /\ n \in Reopened(Feedback[v])

ReopenedByRetry(n) ==
  \E f \in Nodes : node[f] = "failed" /\ node'[f] = "waiting" /\ n \in DescendantsOf[f]

PaidOnce ==
  [][\A n \in Nodes : (node[n] = "completed" /\ node'[n] # "completed") =>
       node'[n] = "waiting" /\ (SentBackByVerdict(n) \/ ReopenedByRetry(n))]_vars

(* Liveness: a coroutine the runner holds ends - in a result, a failure, a *)
(* cancellation or a pause - however often verdicts send work back.        *)
RunEnds == (pc # "none") ~> (pc = "none")

-----------------------------------------------------------------------------
(* What the repository says of itself.                                     *)

(* "approve resumes" (docs/agile/product-backlog.md), and a rejection too: *)
(* "Continue so dependents can skip rather than hang" (reject_node).  A    *)
(* paused workflow with no run on its way has a step still to be decided.  *)
DecisionResumes ==
  (wf = "awaiting_approval" /\ pc = "none" /\ spawns = 0)
     => \E n \in Nodes : node[n] = "awaiting_approval"
=============================================================================
