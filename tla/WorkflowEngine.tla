--------------------------- MODULE WorkflowEngine ---------------------------
(***************************************************************************)
(* One workflow of AgentMesh, from the moment it was submitted: its rows   *)
(* in the database, the in-process runner that owns its coroutine          *)
(* (services/workflow_runner.py), the engine loop that coroutine executes  *)
(* (workflows/engine.py) and the operator's requests that change the same  *)
(* rows from sessions of their own (services/orchestration_service.py,     *)
(* api/routes/runs.py).                                                    *)
(*                                                                         *)
(* The runner keeps at most one coroutine per workflow, so there is one    *)
(* engine here.  The engine and every request have a database session      *)
(* each: a write is visible to the others at commit, and an engine that    *)
(* resumed a workflow keeps the entities it loaded and does not read them  *)
(* again (expire_on_commit=False).  mine, seen, dirty and wfDirty are that *)
(* session.  A request's check and write are one step: what two requests   *)
(* can do to each other between the two is not modelled here.              *)
(***************************************************************************)
EXTENDS PlanGraph

CONSTANTS
  MaxRepairs,   \* settings.max_repair_cycles
  MaxAttempts,  \* retry_policy.max_attempts of every agent
  Production,   \* settings.is_production: no sweep of interrupted runs
  MaxRequests,  \* bound: requests the operator makes
  MaxRestarts,  \* bound: times the process dies
  MaxFaults     \* bound: exceptions that escape the engine

ASSUME EngineAssumption ==
  /\ MaxRepairs \in Nat
  /\ MaxAttempts \in Nat \ {0}
  /\ Production \in BOOLEAN
  /\ MaxRequests \in Nat
  /\ MaxRestarts \in Nat
  /\ MaxFaults \in Nat

VARIABLES
  (* committed rows *)
  wf,          \* workflows.status
  task,        \* tasks.status
  cancelReq,   \* workflows.cancel_requested
  node,        \* workflow_nodes.status
  approval,    \* workflow_nodes.approval
  tries,       \* workflow_nodes.attempts
  payload,     \* workflow_nodes.result_payload
  (* the runner's coroutine for this workflow *)
  pc,          \* where it is; "none" when _tasks has no entry
  kind,        \* what was spawned: _execute or _resume
  spawns,      \* start_resume() calls on their way
  (* the engine's session *)
  mine,        \* node statuses as its entities hold them
  seen,        \* approvals as its entities hold them
  dirty,       \* nodes flushed and not committed: their rows are locked
  wfDirty,     \* the workflow row is flushed and not committed
  (* the engine's memory *)
  state,       \* the WorkflowRun
  batch,       \* nodes being prepared or called
  (* history *)
  basis,       \* which attempt of each dependency a node's result used
  granted,     \* nodes some operator approved
  sentBack,    \* how often a verdict sent work back to a node
  unrecorded,  \* the coroutine was lost and nothing on record says so
  (* what is left of each bound *)
  requests, restarts, faults

rows    == <<wf, task, cancelReq, node, approval, tries, payload>>
session == <<mine, seen, dirty, wfDirty>>
memory  == <<state, batch>>
deeds   == <<basis, granted, sentBack>>
history == <<basis, granted, sentBack, unrecorded>>
bounds  == <<requests, restarts, faults>>
vars    == <<rows, pc, kind, spawns, session, memory, history, bounds>>

-----------------------------------------------------------------------------
(* "ready" of NodeStatus and "planning" of TaskStatus are never assigned   *)
(* by the code and are left out.                                           *)

WorkflowStatus == {"pending", "running", "awaiting_approval",
                   "completed", "failed", "cancelled"}
Terminal == {"completed", "failed", "cancelled"}
TaskStatus == {"pending", "running", "completed", "failed", "cancelled"}
NodeStatus == {"waiting", "running", "completed", "failed", "skipped",
               "cancelled", "awaiting_approval"}
Decision == {"none", "approved", "rejected"}
Results == Payloads \cup {NoPayload}

Places == {"none", "queued", "check", "schedule", "preparing", "calling",
           "failing", "routing", "closing"}
Looping == Places \ {"none", "queued", "closing"}

WorkflowRun == [out     : [Nodes -> Results],   \* outputs that succeeded
                skipped : SUBSET Nodes,
                used    : [Nodes -> Nat],       \* attempts
                repairs : [Nodes -> Nat],
                pending : SUBSET Nodes]         \* keys of pending_feedback

NewRun == [out     |-> [n \in Nodes |-> NoPayload],
           skipped |-> {},
           used    |-> [n \in Nodes |-> 0],
           repairs |-> [n \in Nodes |-> 0],
           pending |-> {}]

Blank == [n \in Nodes |-> "waiting"]

Undecided == [n \in Nodes |-> "none"]

-----------------------------------------------------------------------------
(* The engine's session.                                                   *)

(* The row of n as the database shows it inside the engine's transaction.  *)
Own(n) == IF n \in dirty THEN mine[n] ELSE node[n]

(* The entity of n the engine's code handles.  A resumed run holds the     *)
(* workflow it loaded and so every node of it; a first run loads a node    *)
(* each time it needs it and lets it go.                                   *)
Entity(n) == IF kind = "resume" THEN mine[n] ELSE Own(n)

SeenApproval(n) == IF kind = "resume" THEN seen[n] ELSE approval[n]

Entities == [n \in Nodes |-> Entity(n)]

(* The statuses after setting every node of S to st.                       *)
Setting(S, st) == [n \in Nodes |-> IF n \in S THEN st ELSE Entity(n)]

(* Only an attribute whose value changed is written.                       *)
StageNodes(new) ==
  /\ dirty' = dirty \cup {n \in Nodes : new[n] # Entity(n)}
  /\ mine' = new
  /\ UNCHANGED <<node, seen>>

(* commit(): what was flushed, and new, become the rows.                   *)
Commit(status, new) ==
  /\ wf' = status
  /\ cancelReq' = (cancelReq /\ ~(kind = "resume" /\ wfDirty))
  /\ node' = [n \in Nodes |-> IF new[n] # Entity(n) THEN new[n] ELSE Own(n)]

(* The entities the coroutine goes on with after a commit.                 *)
KeepSession(new) ==
  /\ mine' = IF kind = "resume" THEN new ELSE Blank
  /\ dirty' = {}
  /\ wfDirty' = FALSE
  /\ UNCHANGED seen

(* cancellation_requested(): the resumed run has cleared the flag in its   *)
(* own transaction already.                                                *)
CancelVisible == cancelReq /\ ~(kind = "resume" /\ wfDirty)

(* The coroutine's session and its WorkflowRun are gone.                   *)
Forget ==
  /\ mine' = Blank
  /\ seen' = Undecided
  /\ dirty' = {}
  /\ wfDirty' = FALSE
  /\ state' = NewRun
  /\ batch' = {}

Return ==
  /\ pc' = "closing"
  /\ Forget
  /\ UNCHANGED <<kind, spawns>>

-----------------------------------------------------------------------------
(* Starting and resuming.                                                  *)

Init ==
  /\ wf = "pending" /\ task = "pending" /\ cancelReq = FALSE
  /\ node = Blank /\ approval = Undecided
  /\ tries = [n \in Nodes |-> 0]
  /\ payload = [n \in Nodes |-> NoPayload]
  /\ pc = "queued" /\ kind = "execute" /\ spawns = 0
  /\ mine = Blank /\ seen = Undecided /\ dirty = {} /\ wfDirty = FALSE
  /\ state = NewRun /\ batch = {}
  /\ basis = [n \in Nodes |-> [d \in Nodes |-> 0]]
  /\ granted = {}
  /\ sentBack = [n \in Nodes |-> 0]
  /\ unrecorded = FALSE
  /\ requests = MaxRequests /\ restarts = MaxRestarts /\ faults = MaxFaults

(* WorkflowRunner._spawn: a second coroutine for the workflow is refused.  *)
Spawn ==
  /\ spawns > 0
  /\ spawns' = spawns - 1
  /\ IF pc = "none"
       THEN pc' = "queued" /\ kind' = "resume"
       ELSE UNCHANGED <<pc, kind>>
  /\ unrecorded' = (unrecorded /\ pc # "none")
  /\ UNCHANGED <<rows, session, memory, deeds, bounds>>

(* execute(): engine.run() with a fresh WorkflowRun flushes the running    *)
(* statuses; they are committed with the first batch, skip or pause.       *)
StartExecute ==
  /\ pc = "queued" /\ kind = "execute"
  /\ pc' = "check"
  /\ wfDirty' = TRUE
  /\ UNCHANGED <<rows, kind, spawns, mine, seen, dirty, memory, history, bounds>>

(* mutant: a resume resets whatever is not skipped                         *)
UnfinishedOrDone == {"cancelled", "running", "failed", "completed"}

(* What prepare_resume() puts back to waiting.                             *)
Unfinished == {"cancelled", "running", "failed"}

(* mutant: attempts are counted from one again                             *)
RestoredFromAttemptOne ==
  [NewRun EXCEPT
    !.out = [n \in Nodes |-> IF node[n] = "completed" THEN payload[n] ELSE NoPayload],
    !.skipped = {n \in Nodes : node[n] = "skipped"}]

(* completed_state() and restore_run(): repair cycles and pending feedback *)
(* are not stored, so they start over.                                     *)
Restored ==
  [NewRun EXCEPT
    !.out = [n \in Nodes |-> IF node[n] = "completed" THEN payload[n] ELSE NoPayload],
    !.skipped = {n \in Nodes : node[n] = "skipped"},
    !.used = tries]

(* resume(), up to the loop of engine.run().                               *)
StartResume ==
  /\ pc = "queued" /\ kind = "resume"
  /\ wf # "completed"
  /\ pc' = "check"
  /\ mine' = [n \in Nodes |-> IF node[n] \in Unfinished THEN "waiting" ELSE node[n]]
  /\ dirty' = {n \in Nodes : node[n] \in Unfinished}
  /\ seen' = approval
  /\ wfDirty' = (wf # "running" \/ cancelReq)
  /\ state' = Restored
  /\ UNCHANGED <<rows, kind, spawns, batch, history, bounds>>

(* resume() of a finished workflow raises, and _resume() hands whatever    *)
(* was raised to _record_crash() with no task id, which may fail itself.   *)
ResumeFinished ==
  /\ pc = "queued" /\ kind = "resume"
  /\ wf = "completed"
  /\ wf' \in {"failed", wf}
  /\ Return
  /\ UNCHANGED <<task, cancelReq, node, approval, tries, payload, history, bounds>>

-----------------------------------------------------------------------------
(* The loop of engine.run().                                               *)

(* A cancellation is seen between batches only.                            *)
FinishCancelled ==
  /\ pc = "check" /\ CancelVisible
  /\ Commit("cancelled",
            Setting({n \in Nodes : Own(n) \in {"waiting", "running", "awaiting_approval"}},
                    "cancelled"))
  /\ task' = "cancelled"
  /\ Return
  /\ UNCHANGED <<approval, tries, payload, history, bounds>>

PassCheck ==
  /\ pc = "check" /\ ~CancelVisible
  /\ pc' = "schedule"
  /\ UNCHANGED <<rows, kind, spawns, session, memory, history, bounds>>

Ready == ReadyNodes(state.out, state.skipped)

(* _resolve_skips: ready nodes whose join does not hold.                   *)
NotNeeded == {n \in Ready : ~JoinSatisfied(n, state.out, state.skipped)}

Runnable == Ready \ NotNeeded

(* mutant: a decision, whatever it says, lets the step run                 *)
RefusedNever == {}

(* mutant: a step that was already asked about is not asked about again    *)
AskingOnce == {n \in Runnable \cap Gated : /\ SeenApproval(n) = "none"
                                          /\ Entity(n) # "awaiting_approval"}

(* _partition_approval of the runnable nodes.                              *)
Refused == {n \in Runnable \cap Gated : SeenApproval(n) = "rejected"}
Asking  == {n \in Runnable \cap Gated : SeenApproval(n) = "none"}
Allowed == (Runnable \ Refused) \ Asking

(* mutant: an unneeded step is skipped in its row, not in state.skipped    *)
LeftOutIfRefused == Refused

(* What the pass adds to state.skipped.                                    *)
LeftOut == NotNeeded \cup Refused

(* mutant: a dispatched step is marked ready                               *)
PartitionedAsReady ==
  [n \in Nodes |-> IF n \in NotNeeded \cup Refused THEN "skipped"
                   ELSE IF n \in Asking THEN "awaiting_approval"
                   ELSE IF n \in Allowed THEN "ready"
                   ELSE Entity(n)]

(* What one pass of the loop makes of the ready nodes.                     *)
Partitioned ==
  [n \in Nodes |-> IF n \in NotNeeded \cup Refused THEN "skipped"
                   ELSE IF n \in Asking THEN "awaiting_approval"
                   ELSE IF n \in Allowed THEN "running"
                   ELSE Entity(n)]

FinishCompleted ==
  /\ pc = "schedule" /\ Ready = {}
  /\ Commit("completed", Entities)
  /\ task' = "completed"
  /\ Return
  /\ UNCHANGED <<approval, tries, payload, history, bounds>>

(* Everything ready was skipped or refused: commit and look again.         *)
SettleSkips ==
  /\ pc = "schedule" /\ Ready # {}
  /\ Asking = {} /\ Allowed = {}
  /\ Commit("running", Partitioned)
  /\ KeepSession(Partitioned)
  /\ task' = "running"
  /\ state' = [state EXCEPT !.skipped = @ \cup LeftOut]
  /\ pc' = "check"
  /\ UNCHANGED <<approval, tries, payload, kind, spawns, batch, history, bounds>>

(* Every node that could run waits for a person.                           *)
PauseForApproval ==
  /\ pc = "schedule"
  /\ Asking # {} /\ Allowed = {}
  /\ Commit("awaiting_approval", Partitioned)
  /\ task' = "running"
  /\ Return
  /\ UNCHANGED <<approval, tries, payload, history, bounds>>

(* _execute_batch up to its commit, which waits for the peers the agents   *)
(* consult: the new statuses are flushed, nobody else sees them yet.       *)
Prepare ==
  /\ pc = "schedule" /\ Allowed # {}
  /\ StageNodes(Partitioned)
  /\ state' = [state EXCEPT !.skipped = @ \cup LeftOut,
                            !.pending = @ \ Allowed]
  /\ batch' = Allowed
  /\ pc' = "preparing"
  /\ UNCHANGED <<rows, kind, spawns, wfDirty, history, bounds>>

Dispatch ==
  /\ pc = "preparing"
  /\ Commit("running", Entities)
  /\ KeepSession(Entities)
  /\ task' = "running"
  /\ pc' = "calling"
  /\ UNCHANGED <<approval, tries, payload, kind, spawns, memory, history, bounds>>

(* gather() returned; every attempt of every node of the batch is recorded *)
(* and committed at once.  result[n] is the last answer, NoPayload if that *)
(* attempt failed; made[n] is how many attempts it took.                   *)
RecordBatch ==
  /\ pc = "calling"
  /\ \E result \in [batch -> Results], made \in [batch -> 1 .. MaxAttempts] :
       LET answered == {n \in batch : result[n] # NoPayload}
           last(n)  == state.used[n] + made[n]
           new      == [n \in Nodes |-> IF n \in answered THEN "completed"
                                        ELSE IF n \in batch THEN "failed"
                                        ELSE Entity(n)]
       IN  /\ Commit(wf, new)
           /\ KeepSession(new)
           /\ tries' = [n \in Nodes |-> IF n \in batch /\ last(n) > tries[n]
                                          THEN last(n) ELSE tries[n]]
           /\ payload' = [n \in Nodes |-> IF n \in answered THEN result[n]
                                           ELSE payload[n]]
           /\ state' = [state EXCEPT
                          !.out = [n \in Nodes |-> IF n \in answered THEN result[n]
                                                   ELSE @[n]],
                          !.used = [n \in Nodes |-> IF n \in batch THEN last(n)
                                                    ELSE @[n]]]
           /\ basis' = [n \in Nodes |->
                          IF n \in answered
                            THEN [d \in Nodes |->
                                   IF d \in DependenciesOf(n) /\ d \notin state.skipped
                                     THEN state.used[d] ELSE 0]
                            ELSE basis[n]]
           /\ pc' = IF answered = batch THEN "routing" ELSE "failing"
  /\ batch' = {}
  /\ UNCHANGED <<task, approval, kind, spawns, granted, sentBack, unrecorded, bounds>>

FinishFailed ==
  /\ pc = "failing"
  /\ Commit("failed", Entities)
  /\ task' = "failed"
  /\ Return
  /\ UNCHANGED <<approval, tries, payload, history, bounds>>

(* Nodes whose own result asks for a repair the budget still allows.       *)
Verdicts ==
  {v \in Nodes : /\ Feedback[v] # NoNode
                 /\ state.out[v] \in Fires[v]
                 /\ state.repairs[Feedback[v]] < MaxRepairs}

(* The first of them in plan order.                                        *)
FirstVerdict == {v \in Verdicts : \A u \in Verdicts : Position[v] <= Position[u]}

RouteNothing ==
  /\ pc = "routing" /\ Verdicts = {}
  /\ pc' = "check"
  /\ UNCHANGED <<rows, kind, spawns, session, memory, history, bounds>>

(* The WorkflowRun once work was sent back to t.                           *)
SentBack(t) ==
  [out     |-> [n \in Nodes |-> IF n \in Reopened(t) THEN NoPayload ELSE state.out[n]],
   skipped |-> state.skipped \ Reopened(t),
   used    |-> state.used,
   repairs |-> [state.repairs EXCEPT ![t] = @ + 1],
   pending |-> state.pending \cup {t}]

(* One verdict is routed per batch.                                        *)
RouteFeedback ==
  /\ pc = "routing"
  /\ \E v \in FirstVerdict :
       LET t   == Feedback[v]
           new == Setting(Reopened(t), "waiting")
       IN  /\ Commit(wf, new)
           /\ KeepSession(new)
           /\ payload' = [n \in Nodes |-> IF n \in Reopened(t) THEN NoPayload
                                           ELSE payload[n]]
           /\ state' = SentBack(t)
           /\ sentBack' = [sentBack EXCEPT ![t] = @ + 1]
  /\ pc' = "check"
  /\ UNCHANGED <<task, approval, tries, kind, spawns, batch, basis, granted, unrecorded,
                 bounds>>

(* The done-callback removes the finished coroutine from _tasks.           *)
Close ==
  /\ pc = "closing"
  /\ pc' = "none"
  /\ UNCHANGED <<rows, kind, spawns, session, memory, history, bounds>>

-----------------------------------------------------------------------------
(* What can go wrong with the process.                                     *)

(* An exception escaped the engine (a lost row, a duplicate key, an agent  *)
(* deleted since): roll back, then mark the workflow failed; _execute()    *)
(* passes the task id, _resume() does not.  If that fails too, it is only  *)
(* logged.                                                                 *)
RecordCrash ==
  /\ faults > 0 /\ pc \in Looping
  /\ faults' = faults - 1
  /\ \/ /\ wf' = "failed"
        /\ task' = IF kind = "execute" THEN "failed" ELSE task
        /\ UNCHANGED unrecorded
     \/ unrecorded' = TRUE /\ UNCHANGED <<wf, task>>
  /\ Return
  /\ UNCHANGED <<cancelReq, node, approval, tries, payload,
                 deeds, requests, restarts>>

(* mutant: submissions that had not started are forgotten                  *)
SweptRunning == {"running"}

Swept == {"running", "pending"}

(* The process dies, and starts again: outside production                  *)
(* mark_interrupted_runs() sweeps what it left, in one transaction, and    *)
(* the application starts all the same if that fails.                      *)
Restart ==
  /\ restarts > 0
  /\ restarts' = restarts - 1
  /\ \E swept \in IF Production THEN {FALSE} ELSE BOOLEAN :
       /\ wf' = IF swept /\ wf \in Swept THEN "cancelled" ELSE wf
       /\ node' = [n \in Nodes |-> IF swept /\ node[n] = "running" THEN "cancelled"
                                    ELSE node[n]]
       /\ unrecorded' = ~swept
  /\ pc' = "none" /\ spawns' = 0 /\ UNCHANGED kind
  /\ Forget
  /\ UNCHANGED <<task, cancelReq, approval, tries, payload, deeds, requests, faults>>

-----------------------------------------------------------------------------
(* The operator's requests.  A row the engine has flushed is locked: the   *)
(* request waits for the commit.                                           *)

Request ==
  /\ requests > 0
  /\ requests' = requests - 1
  /\ UNCHANGED <<task, tries, pc, kind, session, memory, restarts, faults>>

(* Node controls ask for a workflow that is not running; the route spawns  *)
(* the run that continues it.                                              *)
Control(n) ==
  /\ Request
  /\ wf # "running" /\ n \notin dirty
  /\ spawns' = spawns + 1
  /\ UNCHANGED <<wf, cancelReq, basis, sentBack, unrecorded>>

RequestCancellation ==
  /\ Request
  /\ wf \notin Terminal /\ ~wfDirty
  /\ cancelReq' = TRUE
  /\ UNCHANGED <<wf, node, approval, payload, spawns, history>>

ResumeWorkflow ==
  /\ Request
  /\ wf # "completed"
  /\ spawns' = spawns + 1
  /\ UNCHANGED <<wf, cancelReq, node, approval, payload, history>>

ApproveNode(n) ==
  /\ Control(n)
  /\ node[n] = "awaiting_approval"
  /\ node' = [node EXCEPT ![n] = "waiting"]
  /\ approval' = [approval EXCEPT ![n] = "approved"]
  /\ granted' = granted \cup {n}
  /\ UNCHANGED payload

RejectNode(n) ==
  /\ Control(n)
  /\ node[n] = "awaiting_approval"
  /\ node' = [node EXCEPT ![n] = "skipped"]
  /\ approval' = [approval EXCEPT ![n] = "rejected"]
  /\ UNCHANGED <<payload, granted>>

SkipNode(n) ==
  /\ Control(n)
  /\ node[n] \in {"waiting", "failed", "awaiting_approval"}
  /\ node' = [node EXCEPT ![n] = "skipped"]
  /\ UNCHANGED <<approval, payload, granted>>

RetryNode(n) ==
  /\ Control(n)
  /\ node[n] = "failed"
  /\ Reopened(n) \cap dirty = {}
  /\ node' = [m \in Nodes |-> IF m \in Reopened(n) THEN "waiting" ELSE node[m]]
  /\ payload' = [m \in Nodes |-> IF m \in Reopened(n) THEN NoPayload ELSE payload[m]]
  /\ UNCHANGED <<approval, granted>>

-----------------------------------------------------------------------------
Engine ==
  \/ StartExecute \/ StartResume \/ ResumeFinished
  \/ FinishCancelled \/ PassCheck
  \/ FinishCompleted \/ SettleSkips \/ PauseForApproval \/ Prepare
  \/ Dispatch \/ RecordBatch \/ FinishFailed
  \/ RouteNothing \/ RouteFeedback
  \/ Close

Environment == RecordCrash \/ Restart

Operator ==
  \/ RequestCancellation \/ ResumeWorkflow
  \/ \E n \in Nodes : ApproveNode(n) \/ RejectNode(n) \/ SkipNode(n) \/ RetryNode(n)

Next == Engine \/ Spawn \/ Environment \/ Operator

(* The event loop runs a coroutine that can go on, every model call ends   *)
(* in an answer or a timeout, and a request that was accepted finishes.    *)
Fairness == WF_vars(Engine) /\ WF_vars(Spawn)

Spec == Init /\ [][Next]_vars

FairSpec == Spec /\ Fairness
=============================================================================
