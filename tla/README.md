# AgentMesh: a verification project

AgentMesh (`backend/app`, FastAPI and SQLAlchemy on asyncio) takes a request in
natural language, selects agents for it, plans a graph of steps, and executes
the steps by calling language models, with conditions, approvals, retries,
repair loops, cancellation and resume.  This directory holds TLA+ modules of
its core, TLC configurations that model-check them on small instances, and
TLAPS proofs of theorems about them.  Paths below are relative to
`src/backend/app` unless they start with `docs/` or `backend/`.

## 1. Inventory

| Component | State | Operations | Interacts with | What is hard |
|---|---|---|---|---|
| Workflow plan (`schemas/workflow.py`) | none; a validated graph | dependencies, descendants, joins, feedback rules | read by engine and controls | acyclicity, any/all joins, what a repair must reopen |
| Workflow engine (`workflows/engine.py`) | a `WorkflowRun` in memory: outputs, skips, attempts, repairs, pending feedback | `run` and its exits; batches; verdicts | rows through one session; executor; collaboration | skips, approvals and repairs interact; memory is lost with the coroutine |
| Rows and sessions (`services/workflow_repository.py`, `models/workflow.py`, `database/session.py`) | workflows, nodes, executions, results | status changes, `prepare_resume`, `completed_state`, `request_cancellation` | every other component | `expire_on_commit=False`; flushed but uncommitted rows; unique (node, attempt) |
| Runner (`services/workflow_runner.py`, `main.py`) | `_tasks`: one coroutine per workflow | spawn, crash recording, sweep at start-up, shutdown | engine, routes | a spawn while the old coroutine is registered; crash; restart |
| Operator controls (`services/orchestration_service.py`, `api/routes/runs.py`) | none | cancel, resume, approve, reject, retry, skip | rows, runner | checks against rows that change before the write; requests before, during and after a run |
| Executor (`services/agent_executor.py`, retry loop in the engine) | attempts, ranked models, vendors given up | `execute`, fallback, budget check, timeout | provider registry | spend of concurrent members, fallback, exceptions that escape |
| Provider registry and adapters (`providers/`) | vendors with a key and their models | build, rank, hot swap | executor, settings | ranking and pins; a registry that is behind or ahead of its rows |
| Provider settings (`api/routes/providers.py`, `services/provider_*.py`, `services/routing_policy.py`) | keys, listed models, the policy, bindings | connect, test, disconnect, set policy, bind | registry, runner | each call rebuilds the registry from its own uncommitted session |
| Collaboration and mail (`services/collaboration.py`, `services/hive.py`, `messaging/`) | messages, presence, events, memories | send, inbox, acknowledge, complete, respond, consult | engine (before and after each step) | statuses overwritten out of order, drained mail lost, inboxes read a page at a time, one presence row for all runs of an agent |
| Submission (`services/orchestration_service.py`, `orchestration/capability_analysis.py`) | a task and a workflow, in one session | clarify, analyse, validate pins, find a parent, record | selection, planner, team designer, runner | agents switched while a request is served; refusals roll back |
| Planner and selection (`orchestration/`) | none | cover, force a roster, draft, reduce, assemble | submission | correctness on every office: agents of several stages, reduction in place |
| Generated agents (`orchestration/team_designer.py`) | agents in memory, a plan | normalise a proposed team, compile it | submission | a model may propose anything |
| Agent registry, enrollment, seed (`agents/`, `api/routes/agents.py`) | agent rows, capabilities, a table per agent | enroll, PATCH, bind, seed at start | planner, engine | overlapping transactions that read, merge and write back |
| Requests and accounts (`api/dependencies.py`, `api/routes/auth.py`, `files.py`, `services/abuse_limits.py`, `file_generation.py`) | accounts, tokens, counters in Redis, files and rows | sign in and out, rate and budget check, generate a file, register an artifact, delete an account | every mutating route | three stores without a common transaction, one of them lost at a restart; separate Redis commands |
| Conditions (`workflows/conditions.py`) | none | path resolution, 13 operators | engine, planner | missing paths, types |
| Single-agent runs, synthesis, prompting, metrics, views, web client | rows and text | CRUD, rendering | all | I/O; listed in `PROJECT.json` as not modelled |

What makes each correct: *plan* - the scheduler never stops with a step left
over; *engine* - results on record are justified by the joins and derived from
current answers, refused work does not run, finished work is not paid for
twice, every run ends; *rows and runner* - memory and rows agree after any
resume, no workflow claims to run without a coroutine while crashes can be recorded
and starts can sweep; *controls* - an accepted
request has its effect; *executor* - spend is bounded and recorded, attempts are
numbered once; *mail* - nothing is lost or answered twice; *submission and planner* - the
need is covered once, the plan is acyclic and hands every result on, threads
stay with their owner; *settings* - the registry is what the rows say and
routing keeps to it; *agents* - whole or absent, with a table that takes their
results, and as switched as the operator left them; *requests* - files match
their rows, and nobody is refused for ever.

The hazards - what is hard to test here, each at its line, with the properties
that watch it - are listed in `PROJECT.json`.

## 2. Modules

| Module | What it is |
|---|---|
| `PlanGraph` | the plan as CONSTANTS with the validator's guarantees as assumptions, and the questions the scheduler asks of it |
| `WorkflowEngine` | one workflow: rows, runner, engine and its session, operator requests, crash and restart |
| `WorkflowProperties` | its type invariant, safety, action and liveness properties, and what documents and comments of the repository claim |
| `MCCodeReview`, `MCRelease` | two plans for TLC |
| `AgentExecution` | the calls behind a batch: concurrent members, retries, fallback, budget, escaping exceptions, recording |
| `BatchContract` | what a batch promises to the engine's loop, the abstract specification of `AgentExecution` |
| `ExecutionProperties`, `MCExecution` | its properties and the refinement mapping; rankings, prices and limits for TLC |
| `AgentNetwork` | `WorkflowEngine` composed with what its agents say to each other: mail, presence, events, in the engine's transactions and through the API |
| `NetworkProperties`, `MCNetwork` | its properties and claims; a plan for TLC |
| `BuiltinAgents`, `VendorModels` | the nine agents, fourteen vendors and the demo vendor as delivered, reduced to what selection, planning and routing read |
| `TeamDesign` | what is made of a team a model proposes: operators, and the validator's search for a cycle |
| `Submission`, `SubmissionProperties`, `MCSubmission` | a request, from its arrival to its plan on record; its properties; the delivered office and two enrolled agents for TLC |
| `ProviderSettings`, `MCProviders` | keys, policy, bindings and the registry under overlapping settings calls; two delivered vendors |
| `AgentCatalogue`, `MCCatalogue` | agents enrolled, changed, bound and seeded by overlapping transactions |
| `OperatorRequests`, `MCRequests` | sign-in, the rate counter, the budget, files, and the deletion of accounts |
| `WorkflowProofs`, `ExecutionProofs`, `NetworkProofs`, `MailProofs`, `SubmissionProofs`, `ProviderProofs`, `CatalogueProofs`, `RequestProofs` | theorems and proofs: of the workflow, the calls of a batch, the network's composition and presence, its mail, submissions, settings, agents, and the files of accounts |

Every definition that models code is listed in `PROJECT.json` under `map`, with
the lines it stands for.

### PlanGraph

A step's payload is an opaque value.  An edge condition or feedback condition
is the set of payloads it holds for, because all the engine sees of
`conditions.evaluate` is a Boolean.  `DescendantsOf` is the least set closed
under successors; `_find_cycle`'s rejection is the assumption that no step is
its own descendant.  Feedback targets need not be upstream: the validator does
not ask for it.

### WorkflowEngine

*Places of the coroutine* (`pc`).  A place is a point where the code awaits
something that lets others in and whose outcome they can affect:

| `pc` | Where the code is |
|---|---|
| `none` | no entry in `_tasks` |
| `queued` | spawned, before its first statement |
| `check` | top of the loop, before `cancellation_requested` |
| `schedule` | after it |
| `preparing` | `_execute_batch`, statuses flushed, before its commit (agents may be consulting peers) |
| `calling` | `gather` |
| `failing`, `routing` | after the batch was committed: to `_finish_failed`, or to `_route_feedback` |
| `closing` | the coroutine returned, its done-callback has not run |

*Sessions.*  Rows are what other sessions see.  The engine's own transaction is
`dirty` (nodes flushed, not committed) and `wfDirty` (the workflow row), and
`mine`/`seen` are the statuses and approvals its entities hold.  A resumed
engine loaded the workflow with all its nodes and holds on to it, so with
`expire_on_commit=False` it works on these copies for its whole life; a first
run is handed only ids, and the identity map is weak, so it loads each node when
it needs it.  Hence `Entity` and `SeenApproval` depend on `kind`.  SQLAlchemy
writes an attribute only if its value changed (`StageNodes`, `Commit`).  A
flushed row is locked: a request that would write it waits (`n \notin dirty`,
`~wfDirty`).

*Actions* are one per handler: `StartExecute`, `StartResume`, `ResumeFinished`,
`FinishCancelled`, `PassCheck`, `SettleSkips`, `PauseForApproval`, `Prepare`,
`Dispatch`, `RecordBatch`, `FinishFailed`, `RouteFeedback`, `RouteNothing`,
`FinishCompleted`, `Close` are the engine and the runner's callback; `Spawn` is a
`start_resume` that arrives; `RecordCrash` and `Restart` are what goes wrong,
and each may go wrong itself: a crash that cannot be recorded is only logged
(`workflow_runner.py:201-202`), and so is a sweep that fails (`main.py:79-80`);
`RequestCancellation`, `ResumeWorkflow`, `ApproveNode`, `RejectNode`, `SkipNode`,
`RetryNode` are the operator.  A control's route spawns in a second step
(`spawns`), after the row was committed, as `_control_node` does.

*Abstractions.*  (1) Requests are made with `wait=false`, as the web client does,
so the runner's `_tasks` admits one engine per workflow; `wait=true` runs a
second engine inside the request and is left for `ConcurrentRuns`.  (2) A
request's check and its write are one step.  (3) A batch's calls are one step
that ends in an answer or a failure for each member; `made` says how many
attempts it took: this is `BatchContract`, which `AgentExecution` is proved to
implement.  (4) Costs, mail and events are left out, as none changes a status:
`AgentExecution` and `AgentNetwork` have them.  (5) An exception escapes the engine only while it loops, not
in the few statements before.  (6) "ready" of `NodeStatus` and "planning" of
`TaskStatus` are never assigned.

*History variables*, read by no guard: `basis` (the attempts of its dependencies
a result used), `granted` (steps an operator ever approved), `sentBack`, and
`unrecorded` (the coroutine was lost with nothing on record that says so).

*Bounds*: `MaxRequests`, `MaxRestarts`, `MaxFaults` count down; attempts and
repairs are bounded by the code.

### AgentExecution

`member[r][s]` is the coroutine of step `s` in the current batch of run `r`.  It
is kept by run because `gather` does not stop the others when one raises: they
go on, awaited by nobody, beside the next run's.

| `at` | Where the member is |
|---|---|
| `waiting` | before `async with semaphore` |
| `choosing` | in `execute`, about to check the cost of candidate `cand` |
| `calling` | in `wait_for(provider.generate(...))` |
| `backoff` | `asyncio.sleep` before a retry, with its permit |
| `done`, `raised` | returned its attempts; ended by an exception |

The engine's places are `loop`, `calling` (`gather`), `recording` (members are
written one by one in one transaction, `tx`, which `Commit` makes `db`) and
`idle`.  `Outcome` is what `execute` does with the output of one model: go on to
the next candidate, dropping the output, or end the attempt with it; `Ended` is
what `_attempt_node` does with the attempt: retry or stop.

*Abstractions.*  Any steps may form a batch; `WorkflowEngine` says which.  The
ranking of each agent is a constant: a coroutine keeps its registry for life.
Error kinds that no line tells apart are one kind.  Money is counted in whole
units.  What a call costs (`Bills`) is what the vendor reports, recorded as it
is, and may be more than `Estimate`, which takes four characters for a token; the
two multiply the same prices, so a call estimated to be free is.  A status row,
the end of a run and its reasons are `WorkflowEngine`'s; so are attempt numbers beyond their
count.  `tried` is a history variable.

*`BatchContract`* says: a dispatched batch is reported as a whole, each member
with a verdict after one to `MaxAttempts` attempts, and the run goes on if all
succeeded; or it is lost as a whole.  The mapping takes `calling` and
`recording` to `busy`, and the committed row to verdicts and attempts.

### AgentNetwork

Every action of `WorkflowEngine` that writes to the network is extended by what
it writes, in the order of the calls and with the same commit; `Quiet` is the
rest.  `own` is what the engine has flushed and not committed: `CommitThen(tx,
next)` commits `tx` and leaves `next`, what the handler flushes after its commit
(`on_feedback`, `on_approval_requested`, `on_workflow_completed`), to the next
commit - or to `CloseNet`, `CrashNet` and `RestartNet`, which drop it.

`mail` maps a message to its status.  A message is a record: when it was sent
(`at`), from whom to whom, its type, whether it asks for a response, which
message it answers (`re`), which attempt or repair its content is about
(`turn`), and how `inbox` ranks its priority (`rank`).  `Pages` is what `inbox` may
return: all there is, or `PageSize` letters (20 in the code) such that nothing
more pressing is left out.  `PrepareNode` is one round of the loop that prepares
a batch: drain a page of the inbox, consult any peers, sit down at the desk.
`Finished` is `on_node_finished` of every member: report, answer who waits, hand the result on, close the mail
drained for the attempt.  Who is answered is on one page of acknowledged or one
of delivered mail (`LooksAt`, `AnsweredSets`).  Outsiders are users of
`api/routes/network.py` and agents' requests for context and delegations: they send, broadcast,
acknowledge, complete and respond at any time, in transactions of their own;
what the engine has flushed is locked (`Free`).  An agent has one presence row,
whatever workflow it is in: `OtherRun` is another workflow or a single-agent run
that writes it.

*Abstractions.*  The planner gives each agent one step, so agents are named by
steps.  A batch's `on_node_finished` calls are one step: its members do not
depend on each other, so none sends what another answers.  THINKING is
overwritten by WORKING in the same transaction.  Every edge passes its payload
on.  A peer's answer is immediate, and which peers are asked (at most three) is
any set.  Fulfilling a context request is responding to it.  Which of equally
pressing letters come first is left open: `created_at` is when the transaction
began.  Memories, artifacts, decisions, the `message_sent` and
`artifact_created` events, and what a prompt says are left out; the last
includes the brief (`engine.py:373`, `store.py:463-548`), which only reads and shows
the latest letters whatever their status.

*History variables*: `touched` (messages an outsider set the status of), `passed`
(requests beyond the pages a step looked at when it reported), `elsewhere`
(agents whose presence another run wrote last).  *Bounds*: `Writers`, `Written`,
`Handled`, `MaxLetters`.

### Submission and TeamDesign

One request is served at a time, as requests share only committed rows and the
agents' enabled flags; `Toggle` changes a flag between any two steps.  `at` is
the place of the request's coroutine, and each loop of the code is one action
per turn: `Pick` is a turn of `_select_minimal`, `Reduce` a turn of `_reduce`.

| `at` | Code |
|---|---|
| `brief`, `analysing`, `models`, `parent` | clarification, analysis, `validate_routing_models`, `_resolve_parent` |
| `selecting`, `covering` | `SelectExact` (a forced roster) or `FindCoverage` and the greedy choice |
| `drafting`, `reducing`, `assembling` | `_build_edges`, `_reduce`, the finished `WorkflowPlan` and its validator |
| `designing`, `compiling` | a generative request: `Normalise`, `CompiledEdges` |
| `recording`, `committing`, `refusing` | rows in `tx`; `get_session` commits, or rolls back on an exception |

`Implied(a)` in `Reduce` is what `_reduce` finds by following dependencies that
may have been reduced before.  `KeyOfRole` is a dictionary keyed by role: two
members with one role get one key, and both plans are refused.  *Abstractions.*
A brief is the capabilities its words signal; a model's analysis is one of
`Analyses`; ids are compared by `IdOrder`.  *Bounds*: `MaxRequests`,
`MaxToggles`, `MaxFaults`.  An operator may redefine a delivered agent
(`update_agent`); `DeliveredOffice` says that nobody did, and two properties
are about such an office only.

### ProviderSettings and VendorModels

`call[c].at` is a settings call's place: `get` (its row is loaded), `try` (the
vendor is asked), `write` (flushed, locked until the end), `keys`, `lists`,
`order` (the three reads of `rebuild_app_registry`), `publish` (the registry and
the runner's are replaced), `commit`.  A session sees its own row as it wrote
it (`Mine`) and writes the columns it changed (`Merged`).  `Build` is
`build_provider_registry`, `Choice` the head of `rank_models`' list.  `Restart`
drops the calls and rebuilds from the environment and then the rows, which may
be unreadable.  `clean` is history: no two calls overlapped and no commit
failed since the registry was last built on its own.  Keys are opaque; a
vendor's answer is a set of models; money is in cents and latency in
milliseconds, as delivered.  *Bounds*: `MaxCalls`, `MaxFaults`.

### AgentCatalogue

Every call is one transaction at read committed, statement by statement:
`Read` (checks, and the agent as it is to be), `Write` (INSERT or UPDATE of the
changed columns), `Drop` and `Dropping` (DELETE of the capability rows: those
it saw when it began, those still there when it gets the locks), `Add`
(INSERT), `MakeTable` (`ensure_agent_table`), `Enable`, `Commit`.  `WaitsFor` is
whose locks the next statement needs: rows, the index on `lower(name)`,
capability rows; a cycle of two ends one of them (`Victim`).  `Fail` is a
statement or a commit that fails.  `Start` rolls back what was under way and
seeds the built-in agents in one transaction, all or none.  `Merged` is what
SQLAlchemy writes of a row that others changed since it was loaded.  `schemas` is
history: what runs may have loaded.  A schema is the type of each of its
properties.  *Bounds*: `MaxCalls`, `MaxStarts`, `MaxFaults`.

### OperatorRequests

A request identifies its caller (`Identify`), passes Redis command by command
(`Incr`, `Expire`, `Ttl`, `Heal`; `RedisFails` loses one, before or after it took
effect, and lets the request in), then `Budget`, then its handler, then the commit.
`disk` changes at once and rows with the commit, which may fail.  `Tick` is time:
counters run out and costs leave the budget's window.  `verdict` is what the
last request for a run met.  A file's id is drawn when it is made, so it is that of
no row, no file and no request (`Fresh`).  `PostArtifact` is `POST /artifacts`, which makes a
row of kind file for the owner it is told, without a token and without a file.
`Restart` cuts requests short and may empty the disk, which is ephemeral where
the application is deployed (`render.yaml:52-53`), while rows stay.  `posted` and `torn`
are history: the rows of `POST /artifacts`, and the files of requests that were cut
short or whose disk was lost.  Rows posted for nobody are left out: no account
owns them.  *Bounds*: `MaxCalls`, `MaxRunning`, `MaxVersion`, `MaxFaults`; starting
runs is not bounded, so that `TurnComes` speaks of behaviours that go on.

## 3. Runs

| Run | Plan and bounds | Question |
|---|---|---|
| `code_review` | audit -> code (if it found something; gated) -> test (verdict sends code back) -> docs (any-join of audit and test); 2 requests, 1 restart whose sweep may fail, 1 exception whose record may fail; `FairSpec` | the safety of the engine as a whole, and that every coroutine ends |
| `release` | code -> test (verdict) beside code -> deploy (gated); no sweep, 4 requests, 1 restart | an approval and a verdict on parallel branches; resuming rows that a dead process left running: the gate and current inputs |
| `execution` | two steps at once, 2 attempts, three models of two vendors, one above the agent's limit, each billed nothing or more than estimated; budget 2, 2 runs, 2 batches, 1 fault | the budget and the batch contract |
| `execution_ends` | three steps for two permits, 2 attempts and three affordable models for one, none for another; `FairSpec` | retries and fallback nested, and every batch ends |
| `mail` | code -> test (verdict; gated) beside code -> docs (only if good); 1 request, 1 restart, 1 exception, pages of 1 letter, 1 question, outside request or other run | what is on record as done was handed on, read, shown and answered once |

Four steps suffice for a conditional edge, a gate, a verdict that reopens more
than its target, and both joins; three for two branches.  Two payloads
distinguish a condition that holds from one that does not.  Two requests
take a run through a pause, an approval and a retry or resume after a failure,
and the four of `release` through the longer bypass attempts (approve, be sent
back, reject); one repair per step makes "budget spent" reachable.  Both plans take one attempt per
batch: `WorkflowEngine` only adds up attempts, and its theorems hold for any
`MaxAttempts`; two attempts are the business of `execution`.  `CHECK_DEADLOCK` is off
because a workflow may stop for good: it completed, or nobody resumes it.

For `execution`, a budget of 2 with prices of 1 and 2 can be met exactly,
overshot by one call or by two concurrent members, and exhausted between two
attempts; the
second run shows what a resume makes of it; the fault may be an escaping
exception, a failing write or a death.  `execution_ends` has a vendor with
two models, so that giving it up passes over one.

For `mail`, pages of one letter are full as soon as there is a second one.  One
letter is enough for each hazard: a question between two members' turns, a request that arrives before, during or after the call of its
addressee, or a status set from outside; each may fall between any two steps of
a run with a repair, a pause, a failure, a resume or a death.  Outsiders write
context requests as pressing as what a step is handed, which are answered like
every other request.

For `submission`, the requests take every branch: vague, pinned, pinned to a
model that is gone, follow-ups of one's own and of another's workflow, forced
rosters with agents of several stages, previews, generative; the designs have no
synthesizer, two, a cycle, an unknown role, two members of one role, and one too
many.  A second request meets a thread.  38 thousand states.  For `providers`,
two calls at a time are the hazard, the third starts from what they left; the
lists leave a vendor without the traits an agent needs or without any model.
367 thousand states.  For `catalogue`, two calls at a time collide on names,
rows, capabilities and tables, and a start in between brings the delivered
definitions back; 296 thousand states.  For `requests`, limits of one are
reached and left again; two accounts with one address collide; a file's id may be of a
generated file or of a posted row; the theorem has any number of both.

The properties (`WorkflowProperties`): `ApprovalGate`, `CompletedMeansSettled`,
`JoinRespected`, `CurrentInputs`, `MemoryAgrees`, `NoOrphanRun`, the action
property `PaidOnce` and the liveness property `RunEnds`, beside `TypeOK`.
Those of `ExecutionProperties`: `BudgetHeld` (only a batch dispatched below the
budget adds spend, so the overshoot is that of one batch, whatever its calls
cost),
`NoModelLeftOut`, `NoRecall`, the refinement `ImplementsContract` and `BatchEnds`.
Those of `NetworkProperties`: `HandoffOnRecord` (the result on record is the one
handed on), `HandoffRead` (a step is called with the letters of the results it is
called with, unless its page was full of mail as pressing), `RunningIsShown`
(unless another run wrote the row since), `AnsweredOnce` and `NoRequestForgotten`
(but for requests beyond the pages the step looked at); the last two leave out
messages whose status an outsider set, because no route looks at the current
one: acknowledging a closed request reopens it.
`NoOrphanRun` and `FilesBacked` name the losses the code accepts - a crash that
could not be recorded, a start without a sweep, a request cut short, a lost disk -
and say that there are no others.
Those of `SubmissionProperties`: `CoveredOnce`, `StagesForbidCycles`, `WorkReaches`
(after reduction every step is still behind what it consumes, and no input is
redundant), `FieldsGuaranteed` (conditions and verdicts look at fields their
agent always has), `TeamIsSound`, `ThreadsOwned`, and the action property
`TurnedAway` (no brief is turned away unless an operator disabled an agent).
`RegistryCurrent` and `RoutedSoundly` say what a run is routed by, once
settings calls are over; `NothingHalfEnrolled`, `ResultsFit` and `TogglesKept` what
overlapping changes of agents leave; `FilesBacked` and `TurnComes` belong to
`OperatorRequests`.
Each has a mutant of the code it catches, listed in `PROJECT.json`.

*Fairness.*  `RunEnds` assumes weak fairness of the engine (asyncio runs a
coroutine that can continue, each model call ends in an answer or in
`wait_for`'s timeout) and of the runner's spawn; `BatchEnds` of each member, for
the same reason and because back-offs are finite, and of the recording.
Operators, crashes and
restarts get none.  `TurnComes` assumes that requests are served, that time
passes and that costs of runs are recorded, and - as it is about somebody who
tries again - that whoever may start runs does so again and again (strong
fairness, because whether a request may be sent comes and goes); faults get none.

### Claims the code does not keep

Three runs expect a violation: each checks a sentence of a document, comment or
test against the code.  The traces in short:

| Run | Trace |
|---|---|
| `decision_resumes` | the engine pauses; before its done-callback runs, the operator decides; `start_resume` finds the workflow in `_tasks` and returns; nothing runs, nothing is left to decide |
| `ceiling_holds` | a call is let through because its estimate is within the agent's limit; the vendor reports more; the step is recorded with more than the limit for its one attempt |
| `capabilities_replaced` | two PATCHes of one agent's capabilities overlap; the second's DELETE does not see what the first inserts; both commit, and the agent has the capabilities of both |

Met while modelling, and without a run of its own.

*Engine and controls.*  In the engine's first transaction the committed status
is still `pending`, so a skip is accepted, and the entity the engine writes next
was computed without it (`orchestration_service.py:387`, against
`backend/tests/test_approval.py:188`).  A resume requested while the run is paused or
failing reaches the runner after another run completed the workflow, and
`_record_crash` marks it failed (`workflow_runner.py:177`).  The event that the
run completed is flushed after the last commit and dropped with the session
(`engine.py:274`, against `models/network.py:144`).  A resumed engine acts on
the approval it loaded, so a rejection committed during its first transaction is
overlooked (`engine.py:604`); a resume starts the repair count over
(`engine.py:99`), and a step sent back that fails or is interrupted gets the
feedback no more as its input (`engine.py:399`), though its brief still shows the letter
about it; a cancellation accepted while the workflow waits for approval is
read by no coroutine and cleared by the next resume (`workflow_repository.py:547`,
against `docs/agile/product-backlog.md:182`); the verdict of a step whose sibling
failed is never routed (`engine.py:215`, against
`docs/agile/retrospectives/sprint-5.md:37`).

*Execution.*  An invalid answer is billed and the next model answers; only the
second bill is recorded (`agent_executor.py:111`, against
`backend/tests/test_agent_executor.py:223`).  One member has its answer, another's
vendor sends a body that is not JSON: `gather` raises and the answer is lost
(`engine.py:427`, against the comment at 424-425).  Malformed requests and
invalid answers rotate to the next model (`agent_executor.py:383`), which
`docs/adr/0005-model-routing.md` rules out.

*Submission.*  A task nobody can serve is rolled back with the request
(`tasks.py:82-87`, `dependencies.py:50-66`), although
`orchestration_service.py:174-175` says it is recorded.  Two members of a
designed team with one role get one key, so both the plan and its fallback are
refused (`team_designer.py:283-288`, `353-361`).  An agent chosen for a report
and for something earlier works at the earlier stage, so its report misses what
comes later (`planner.py:93-95`).  The rule of `planner.py:98-100` holds of
delivered agents only.

*Settings.*  The registry is replaced before the commit: one that fails leaves
it ahead of the rows, and of two overlapping calls the later to publish may lack
the other's change.  What a test of an old key found can be written to the row
of a newly connected key.  A failed test stores an empty list, which lifts
the restriction to listed models, and the key is still routed
(`registry.py:261-264`).  `main.py:165-166` and `dependencies.py:143-147` say that
the configuration cannot change while the process lives.

*Agents.*  Where a built-in agent was renamed and its name taken, every start's
seeding fails as a whole, which is only logged (`main.py:67-71`).  A PATCH of a
capability both calls insert is answered that an agent named None is enrolled
(`agents.py:150-155`).  A PATCH writes the model preference back when returning
to Auto dropped its fields, and so loses a binding made meanwhile
(`seed.py:38-45`).  A PATCH that touches no schema is refused for a built-in whose
delivered schema changed a column's type (`tables.py:181-184`).

*Mail and presence.*  With more unread mail than a page, a step is called while
letters for it lie unread (`hive.py:90`, against its docstring at 81-84), and
requests beyond the pages stay open after its report (`hive.py:268-273`).  Two
workflows that share an agent overwrite its presence (`store.py:57-66`).

*Accounts.*  `delete_account` unlinks files before its commit, and a request
authenticated before the deletion may still write a file or a memory after it
(`auth.py:169-190`).  The budget is compared with what is recorded, not with what
is running.  `POST /artifacts` asks for no token and takes any owner
(`network.py:213-215`, against the docstring at line 3).

## 4. Proofs

| Theorem | Statement |
|---|---|
| `TypeCorrect` | `Spec => []TypeOK` |
| `GateHolds` | `Spec => []ApprovalGate` |
| `CompletedSettled` | `Spec => []CompletedMeansSettled` |
| `NoOrphan` | `Spec => []NoOrphanRun` |
| `JoinsRespected`, `InputsCurrent`, `MemoryAgreesAlways` | `Spec => []` of `JoinRespected`, `CurrentInputs`, `MemoryAgrees` |
| `PaidOnceAlways` | `Spec => PaidOnce` |
| `ExecutionTypeCorrect` | `Spec => []TypeOK` (of `AgentExecution`) |
| `ExecutionImplementsContract` | `Spec => Contract!Spec` |
| `BudgetHeldAlways` | `Spec => BudgetHeld` |
| `NoModelLeftOutHolds`, `NoRecallHolds` | `Spec => []NoModelLeftOut`, `Spec => NoRecall` |
| `NetworkRunsWorkflow` | `NetworkSpec => Spec` |
| `RunningShown` | `NetworkSpec => []RunningIsShown` |
| `NetworkTypeCorrect`, `HandoffsOnRecord`, `HandoffsRead`, `NobodyAnsweredTwice`, `RequestsClosedOut` | `NetworkSpec => []` of `NetworkTypeOK`, `HandoffOnRecord`, `HandoffRead`, `AnsweredOnce`, `NoRequestForgotten` |
| `ReadyUntilResolved` | an acyclic finite plan with no ready step has every step settled |
| `SubmissionTypeCorrect`, `CoveredOnceAlways`, `PlansAreAcyclic`, `ThreadsStayOwned` | `Spec => []` of `SubmissionTypeOK`, `CoveredOnce`, `StagesForbidCycles`, `ThreadsOwned` |
| `WorkReachesAlways`, `TeamsAreSound` | `Spec => []` of `WorkReaches`, `TeamIsSound` |
| `FieldsAreGuaranteed`, `TurnedAwayRightly` | in a `DeliveredOffice`, `Spec => []FieldsGuaranteed`, `Spec => TurnedAway` |
| `ProviderTypeCorrect`, `RegistryStaysCurrent`, `RoutedSoundlyAlways` | `Spec => []` of `ProviderTypeOK`, `RegistryCurrent`, `RoutedSoundly` |
| `NothingHalfEnrolledAlways`, `ResultsAlwaysFit` | `Spec => []NothingHalfEnrolled`, `Spec => []ResultsFit` |
| `TogglesAreKept` | `Spec => TogglesKept` |
| `FilesAreBacked` | `Spec => []FilesBacked` (of `OperatorRequests`) |

Those about workflows hold for every plan that satisfies `PlanAssumption` and
`AcyclicAssumption`, and every value of the other constants under
`EngineAssumption`; each of the others under the named assumptions of the module
it is about.

*GateHolds.*  `ApprovalGate` speaks of rows; a row is written from an entity, and
an entity says "approved" because it was loaded.  `GateInv` therefore adds the
engine's copies: no status in an entity says a gated step was started, and no
approval in a row or entity is "approved", unless an operator granted it.

*CompletedSettled.*  When the loop breaks, the engine's memory says that every
step is settled; that the rows say so too needs `SettledInv`: memory, entities
and rows agree on each settled step (`Faithful`) although entities may be stale.
It rests on three facts: an accepted control changes no settled step and no step
of the batch in flight; a failed step ends the run that failed it; and a
resumed engine finds no skipped entity that its memory does not know.  That
memory says so is `ReadyUntilResolved`, whose proof takes, among the unresolved
steps, one with the fewest nodes that are not its descendants - well-founded
because the plan is finite - and finds a dependency with fewer.

*NoOrphan* is inductive as it stands: whatever ends a coroutine leaves a status
that claims no run, sets `unrecorded`, or is the sweep.

*JoinsRespected, InputsCurrent, MemoryAgreesAlways, PaidOnceAlways.*  Statuses
that agree are not enough: results must.  `RecordInv` says of every step that the
engine's memory holds the payload on record exactly if its transaction shows the
step completed, and the number of its last attempt (`Recorded`); that a step
with a result has all its dependencies settled; and that a step of a batch in
flight has none yet and its join satisfied.  So what a member is called with is
what the row of the result will say it used, and as no dependency of a completed
step is ever unsettled without reopening the step too (`Reopened` is closed
under successors), that stays so.  `PaidOnceAlways` follows from it step by step:
only `RouteFeedback` and `RetryNode` take a result away.

*AgentExecution.*  One invariant, `IInv`, serves its theorems, for every
ranking, price, limit and bound under `ExecutionAssumption`.  `MemberOK` is what
holds of one member: the candidates behind it were called or are of vendors
given up (`Walked`), its attempts are within the policy, and it cost something
only if it was allowed something - a bill is not bounded by the estimate, but a
call that costs was estimated to, and was let through within what is left.  `MemberMoves` shows that whatever a member
does, an exception included, keeps that, changes no other member and no
allowance, and starts from a place that is not final.  `LedgerOK` relates
memory, session and row: what is left is the budget less what is on record, and
while a batch is recorded the session differs from the row by exactly the
members already written - which is what `Commit` reports under the contract.

*AgentNetwork.*  Each network action extends one action of the workflow, or
leaves the workflow alone, so what is proved of `WorkflowEngine` holds beside the
mail (`NetworkRunsWorkflow`).  `RunningIsShown` speaks of committed rows, written
by different calls that share a session; `ShownInv` adds what is flushed and not
committed: the desks of the engine's transaction (`DeskIn`) show at work every
step it shows running, except those another run has written since (`AtWork`) and
the members of a batch whose turn to be prepared is still to come, and an engine that holds stale entities never takes for waiting
what the session shows running.  `CommitShown` is the one argument all committing
actions use.

*MailProofs.*  What holds of the committed mail must hold of what the engine's
transaction shows as well, since a commit makes the one the other and a rollback
takes the view back: `MailInv` asks `BoxOK` of both.  No two questions sent at one
time would get one reply (`Distinct`); a question is `completed` once it is
answered (`AnsweredIn`), and `reply_to_waiting_peers` answers open requests
only; and a request still open to a step with a result
came after the step's report or was `passed` over (`ClosedOut`).  Beside these, every letter is later
than all before it, mail drained for an attempt is still in view when the attempt
ends, and a prepared member has read what was handed to it, or a full page of
what is as pressing (`PageLeaves`).  A request neither answered nor passed over was
not open: a page that leaves it out is full of letters no less pressing.  The lemmas speak of
any two boxes that differ by letters added or marked, so each action is shown to
do one or the other.  `RecordInv` supplies the attempt a handed-on letter carries.
`AnsweredOnce` speaks of messages that ask for a response: the engine answers no
others.

*Submission.*  `IInv` has these parts beside types.  `CoverInv`: an agent that
was chosen offers nothing any more, and what agents offered is kept from the
lookup, so switching one off does not stop the greedy loop short.  `Staged`: a
dependency is of a strictly earlier stage, and reduction only takes away;
`NoCycle` takes from a set of steps that depend on each other one of the least
stage, which exists because stages are natural numbers (well-foundedness of
`<`).  `ReachInv`: what direct edges carried is found at every turn of the
reduction, and steps already reduced are irredundant.  It is kept because
reducing one step changes nothing of what is found from any step (`SameReach`):
had a set closed under what is left missed some input, take the missing one of
the latest stage; it was dropped because other inputs lead to it, and what these
lead to is in the set or of an earlier stage (`Restored`).  `TeamInv`: a team
has the shape `Normalise` gives it and is recorded only if it compiles;
`TeamSound` then finds a way from every member to the last one, the edge to it
or the chain.  `PlanInv`: the plan is the one drawn from what is selected;
`SentBackOnce` shows that of the inputs a verdict may send back there is one
first, and `Catalogue` computes what the delivered agents provide and emit.
`ParentInv`: the parent was found to be the requester's.

*ProviderSettings.*  `LockInv`: two sessions never hold one row, and a row is
there exactly if its holder found it.  `QuietInv`, while nothing overlaps:
what the call loaded is still there, what it has read for the registry is what
its commit will make of the rows, and the registry is that of the rows until it
is replaced.  `RoutedSoundlyAlways` adds that scores are ordered and finite sets
have a least one (`FirstByScore`), so the head of the ranking is what it should be.

*AgentCatalogue.*  `Sane` says what a call holds at each stage; `Owner` what it
may rely on of committed data - an enrollment's agent is not there, another's
is, a name it has written is free, its table takes its schema; `Apart` what the
locks keep apart - writers of one row, and of one name.  `CallStep` shows that a
statement which keeps these for its own call keeps the invariant, so each
statement's proof is about one call.  At a commit, another call's check of the
table stays good because two calls that change one row's schema cannot both
have written, and whoever leaves it alone takes one already in `schemas`.

*OperatorRequests.*  `FileInv`: a file that is being made has no row, no two
requests make one, and only a deletion between its handler and its commit has
files taken from the disk whose rows are still there; `BackedStays` says what a
step may do to rows and disk, and a restart makes `torn` what it cuts short.  With three requests at a
time that needs ids to be fresh: were the id of a file being deleted drawn again,
its new row would be without a file.

Out of the prover's reach, and left to TLC: `RunEnds`, `BatchEnds` and `TurnComes`
(fairness and `ENABLED`), and what the code does not keep (the three runs that
expect a violation, which no theorem could state).  All other properties of the
runs are theorems.

## 5. Plan

Done: `PlanGraph`, `WorkflowEngine`; `AgentExecution` and `BatchContract`, which
it implements; `AgentNetwork`; `TeamDesign` and `Submission`; `ProviderSettings`;
`AgentCatalogue`; `OperatorRequests`.  To follow, in this order:

1. `WorkflowLifecycle`: the statuses a client may observe, as an abstract
   specification that `WorkflowEngine` implements (refinement, checked and
   proved).
2. `ConcurrentRuns`: `wait=true`, two engines on one workflow, and requests whose
   check goes stale before their write.
3. `Conditions`: the operators against reference definitions over bounded inputs.

Theorems to follow: the refinement of `WorkflowLifecycle`, step by step, and what
`ConcurrentRuns` keeps of the theorems of `WorkflowEngine`.

## 6. Not modelled

- `wait=true`: a second engine inside the request, and the checks of two
  requests that both pass before either writes.
- What a prompt says: the brief of a step (`store.py:463-548`), the text of
  letters and feedback, memories of agents, artifacts and decisions.
- The order among equally pressing letters of an inbox (left open), and what
  other runs do beyond the presence of the agents they share (`OtherRun`).
- The rate limiter's backend in memory: it has no step between its reads and
  writes.  Signatures of tokens, and Google's verification.
- Generative agents live in memory only: a resume after a death of the process
  cannot find them; `Submission` ends where their plan is on record.
- The adapters' HTTP and parsing, beyond the outcomes `AgentExecution` tells
  apart; prompts, output validation, synthesis, rendering of files: text in,
  text out.
- Conditions: a step's payload is opaque to `PlanGraph`.
- Single-agent runs (a straight line around one executor call) but for the
  presence they write, rows of artifacts without an owner, metrics, health, views
  and the web client.

`PROJECT.json` lists every component with its status.
