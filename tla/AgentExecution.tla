--------------------------- MODULE AgentExecution ---------------------------
(***************************************************************************)
(* The calls behind a batch of steps: WorkflowEngine._execute_batch and    *)
(* _attempt_node, AgentExecutor.execute, and the loop of WorkflowEngine.run *)
(* that records what came back.  WorkflowEngine decides which steps are     *)
(* ready; here any steps may be, which includes the ones a repair reopens.  *)
(*                                                                         *)
(* Each member of a batch is a coroutine of its own.  It awaits a permit of *)
(* the batch's semaphore, the back-off before a retry and the vendor's      *)
(* answer; between two awaits it touches only its own state.                *)
(*                                                                         *)
(* Of the rows only what an execution writes is kept: the cost, the number  *)
(* of attempts and whether the last one succeeded.                          *)
(*                                                                         *)
(* Money is counted in whole units.  A run without a budget is one whose    *)
(* Budget exceeds whatever can be spent.                                    *)
(***************************************************************************)
EXTENDS Naturals, Sequences, FiniteSets

CONSTANTS
  Steps,        \* the steps of the plan
  Models,       \* model ids of the configured vendors
  ProviderOf,   \* the vendor of each model
  Ranked,       \* rank_models for each step's agent, best first
  Estimate,     \* estimate_cost of a call of each model
  Bills,        \* what cost_for may make of the usage the vendor reports
  Limit,        \* limits.max_cost_usd of each step's agent
  MaxAttempts,  \* retry_policy.max_attempts of each step's agent
  MaxParallel,  \* settings.max_parallel_agents
  Budget,       \* task.max_cost_usd
  MaxRuns,      \* bound: times the workflow is run or resumed
  MaxBatches,   \* bound: batches dispatched
  MaxFaults     \* bound: exceptions that escape, and deaths of the process

(* rank_models names each model once; the registry gives it one vendor.     *)
(* Estimate and bill multiply the same prices, and what is estimated to be  *)
(* free is.                                                                 *)
ASSUME ExecutionAssumption ==
  /\ Ranked \in [Steps -> Seq(Models)]
  /\ \A s \in Steps : \A i, j \in DOMAIN Ranked[s] :
       Ranked[s][i] = Ranked[s][j] => i = j
  /\ Estimate \in [Models -> Nat]
  /\ Bills \in [Models -> SUBSET Nat]
  /\ \A m \in Models : Estimate[m] = 0 => Bills[m] \subseteq {0}
  /\ Limit \in [Steps -> Nat]
  /\ MaxAttempts \in [Steps -> Nat \ {0}]
  /\ MaxParallel \in Nat \ {0}
  /\ Budget \in Nat
  /\ MaxRuns \in Nat
  /\ MaxBatches \in Nat
  /\ MaxFaults \in Nat

Runs == 1 .. MaxRuns
Providers == {ProviderOf[m] : m \in Models}

VARIABLES
  pc,         \* where the engine's coroutine is
  run,        \* the number of the run it belongs to, or of the last one
  remaining,  \* remaining_budget
  batch,      \* the steps of the batch in flight
  todo,       \* its members still to be recorded
  member,     \* the coroutine of each member, by run: gather does not stop them
  tx,         \* total_cost_usd and the executions on record, in the engine's session
  db,         \* the same as committed
  batches, faults   \* what the bounds have left

loop   == <<run, remaining, batch, todo>>
bounds == <<batches, faults>>
vars   == <<pc, loop, member, tx, db, bounds>>

(* How a call of a model, or an attempt, may end.  "timeout" stands for     *)
(* rate_limited and unknown too, "invalid_request" for                      *)
(* context_length_exceeded and content_filtered: nothing tells them apart.  *)
(* "no_model" is the PROVIDER_UNAVAILABLE marked retryable=False that an    *)
(* empty ranking gives.                                                     *)
ProviderErrors == {"timeout", "provider_unavailable", "invalid_request", "authentication"}
Answers        == {"succeeded", "invalid_output"}
Retryable      == {"timeout", "provider_unavailable", "invalid_output"}
MayRotate      == {"timeout", "provider_unavailable", "invalid_request", "invalid_output"}
Kinds == ProviderErrors \cup Answers \cup {"budget_exceeded", "no_model"}

(* tried is history: the candidates called in the attempt under way.        *)
NoMember == [at |-> "none", try |-> 0, cand |-> 0, gone |-> {}, allowed |-> 0,
             cost |-> 0, last |-> "none", tried |-> {}]

(* mutant: the remainder is not kept at zero                                *)
Unclamped(a, b) == a - b

Monus(a, b) == IF a > b THEN a - b ELSE 0

Init ==
  /\ pc = "idle" /\ run = 0 /\ remaining = 0 /\ batch = {} /\ todo = {}
  /\ member = [r \in Runs |-> [s \in Steps |-> NoMember]]
  /\ db = [total |-> 0, verdict |-> [s \in Steps |-> "none"],
           attempts |-> [s \in Steps |-> 0]]
  /\ tx = db
  /\ batches = MaxBatches /\ faults = MaxFaults

-----------------------------------------------------------------------------
(* One member: its retries, and within an attempt its walk down the ranking. *)

(* mutant: a member that is done keeps its permit                            *)
InsideForGood(r) == {s \in Steps : member[r][s].at \notin {"none", "waiting"}}

Inside(r) == {s \in Steps : member[r][s].at \in {"choosing", "calling", "backoff"}}

Becomes(r, s, m) == member' = [member EXCEPT ![r][s] = m]

(* The attempt that starts now: execute() ranks the models anew. *)
Attempting(m) ==
  [m EXCEPT !.at = "choosing", !.try = @ + 1, !.cand = 1, !.gone = {}, !.tried = {}]

(* mutant: one attempt too many                                              *)
EndedOneMore(s, m, kind, cost) ==
  [m EXCEPT !.at = IF kind \in Retryable /\ m.try <= MaxAttempts[s]
                     THEN "backoff" ELSE "done",
            !.cost = @ + cost, !.last = kind]

(* The attempt ends with this output: the step is done, or it is tried again. *)
Ended(s, m, kind, cost) ==
  [m EXCEPT !.at = IF kind \in Retryable /\ m.try < MaxAttempts[s]
                     THEN "backoff" ELSE "done",
            !.cost = @ + cost, !.last = kind]

(* mutant: vendors given up are asked again                                  *)
FollowingAnyVendor(s, m) == {j \in DOMAIN Ranked[s] : j > m.cand}

(* mutant: stops at a vendor given up instead of passing over it              *)
FollowingNextOnly(s, m) ==
  {j \in DOMAIN Ranked[s] : j = m.cand + 1 /\ ProviderOf[Ranked[s][j]] \notin m.gone}

(* The candidates after this one, of vendors not given up in this attempt. *)
Following(s, m) ==
  {j \in DOMAIN Ranked[s] : j > m.cand /\ ProviderOf[Ranked[s][j]] \notin m.gone}

Affordable(s, m) ==
  /\ Estimate[Ranked[s][m.cand]] <= Limit[s]
  /\ Estimate[Ranked[s][m.cand]] <= m.allowed

(* What execute() does with the output of a candidate: the next one is asked *)
(* and the output dropped, or the attempt ends with it.                      *)
Outcome(r, s, kind, bill) ==
  LET old  == member[r][s]
      m    == [old EXCEPT !.gone = IF kind = "provider_unavailable"
                                     THEN @ \cup {ProviderOf[Ranked[s][old.cand]]} ELSE @]
      next == Following(s, m)
  IN  \/ /\ kind \in MayRotate
         /\ \E j \in next :
              /\ \A k \in next : j <= k
              /\ Becomes(r, s, [m EXCEPT !.at = "choosing", !.cand = j, !.last = kind])
      \/ /\ kind \notin MayRotate \/ next = {}
         /\ Becomes(r, s, Ended(s, m, kind, bill))

OnlyMembers == UNCHANGED <<pc, loop, tx, db, bounds>>

Enter(r, s) ==
  /\ member[r][s].at = "waiting"
  /\ Cardinality(Inside(r)) < MaxParallel
  /\ Becomes(r, s, Attempting(member[r][s]))
  /\ OnlyMembers

Retry(r, s) ==
  /\ member[r][s].at = "backoff"
  /\ Becomes(r, s, Attempting(member[r][s]))
  /\ OnlyMembers

NoModel(r, s) ==
  /\ member[r][s].at = "choosing"
  /\ Ranked[s] = <<>>
  /\ Becomes(r, s, Ended(s, member[r][s], "no_model", 0))
  /\ OnlyMembers

TooDear(r, s) ==
  /\ member[r][s].at = "choosing"
  /\ Ranked[s] # <<>>
  /\ ~Affordable(s, member[r][s])
  /\ Becomes(r, s, Ended(s, member[r][s], "budget_exceeded", 0))
  /\ OnlyMembers

Call(r, s) ==
  /\ member[r][s].at = "choosing"
  /\ Ranked[s] # <<>>
  /\ Affordable(s, member[r][s])
  /\ Becomes(r, s, [member[r][s] EXCEPT !.at = "calling", !.tried = @ \cup {member[r][s].cand}])
  /\ OnlyMembers

(* A completion, valid or not.  The cost is of the usage the vendor reports, *)
(* which the estimate made beforehand does not bound.                        *)
Answer(r, s) ==
  /\ member[r][s].at = "calling"
  /\ \E kind \in Answers, bill \in Bills[Ranked[s][member[r][s].cand]] :
       Outcome(r, s, kind, bill)
  /\ OnlyMembers

(* A ProviderError, or wait_for's timeout. *)
Fail(r, s) ==
  /\ member[r][s].at = "calling"
  /\ \E kind \in ProviderErrors : Outcome(r, s, kind, 0)
  /\ OnlyMembers

(* Anything else that generate() raises, such as the ValueError of           *)
(* response.json() on a body that is not JSON.  It leaves gather, and the     *)
(* runner records the crash; the other members go on, awaited by nobody.      *)
Raise(r, s) ==
  /\ member[r][s].at = "calling"
  /\ faults > 0
  /\ faults' = faults - 1
  /\ Becomes(r, s, [member[r][s] EXCEPT !.at = "raised"])
  /\ IF r = run /\ pc = "calling"
       THEN pc' = "idle" /\ batch' = {} /\ UNCHANGED <<run, remaining, todo>>
       ELSE UNCHANGED <<pc, loop>>
  /\ UNCHANGED <<tx, db, batches>>

-----------------------------------------------------------------------------
(* The engine's loop. *)

(* mutant: a resumed run has the whole budget again                          *)
StartWithFullBudget ==
  /\ pc = "idle"
  /\ run < MaxRuns
  /\ pc' = "loop"
  /\ run' = run + 1
  /\ remaining' = Budget
  /\ UNCHANGED <<batch, todo, member, tx, db, bounds>>

StartRun ==
  /\ pc = "idle"
  /\ run < MaxRuns
  /\ pc' = "loop"
  /\ run' = run + 1
  /\ remaining' = Monus(Budget, db.total)
  /\ UNCHANGED <<batch, todo, member, tx, db, bounds>>

Dispatch ==
  /\ pc = "loop"
  /\ batches > 0
  /\ batches' = batches - 1
  /\ \E b \in (SUBSET Steps) \ {{}} :
       /\ batch' = b
       /\ member' = [member EXCEPT ![run] =
                       [s \in Steps |-> IF s \in b
                          THEN [NoMember EXCEPT !.at = "waiting", !.allowed = remaining]
                          ELSE NoMember]]
  /\ pc' = "calling"
  /\ UNCHANGED <<run, remaining, todo, tx, db, faults>>

(* No step is ready, or the run pauses or is cancelled: WorkflowEngine says which. *)
Leave ==
  /\ pc = "loop"
  /\ pc' = "idle"
  /\ UNCHANGED <<loop, member, tx, db, bounds>>

(* gather returns. *)
Gathered ==
  /\ pc = "calling"
  /\ \A s \in batch : member[run][s].at = "done"
  /\ pc' = "recording"
  /\ todo' = batch
  /\ UNCHANGED <<run, remaining, batch, member, tx, db, bounds>>

(* record_execution of each attempt of one member, flushed and not committed. *)
Record(s) ==
  LET m == member[run][s]
  IN  /\ pc = "recording"
      /\ s \in todo
      /\ todo' = todo \ {s}
      /\ tx' = [tx EXCEPT !.total = @ + m.cost,
                          !.attempts[s] = @ + m.try,
                          !.verdict[s] = IF m.last = "succeeded" THEN "succeeded" ELSE "failed"]
      /\ remaining' = Monus(remaining, m.cost)
      /\ UNCHANGED <<pc, run, batch, member, db, bounds>>

Commit ==
  /\ pc = "recording"
  /\ todo = {}
  /\ db' = tx
  /\ pc' = IF \A s \in batch : member[run][s].last = "succeeded" THEN "loop" ELSE "idle"
  /\ batch' = {}
  /\ member' = [member EXCEPT ![run] = [s \in Steps |-> NoMember]]
  /\ UNCHANGED <<run, remaining, todo, tx, bounds>>

(* A write fails: the runner rolls the transaction back. *)
RollBack ==
  /\ pc = "recording"
  /\ faults > 0
  /\ faults' = faults - 1
  /\ pc' = "idle"
  /\ batch' = {} /\ todo' = {}
  /\ tx' = db
  /\ UNCHANGED <<run, remaining, member, db, batches>>

(* The process dies, or shutdown() cancels the run and with it its members. *)
Die ==
  /\ faults > 0
  /\ faults' = faults - 1
  /\ pc' = "idle"
  /\ batch' = {} /\ todo' = {}
  /\ member' = [r \in Runs |-> [s \in Steps |-> NoMember]]
  /\ tx' = db
  /\ UNCHANGED <<run, remaining, db, batches>>

MemberStep(r, s) ==
  \/ Enter(r, s) \/ Retry(r, s) \/ NoModel(r, s) \/ TooDear(r, s)
  \/ Call(r, s) \/ Answer(r, s) \/ Fail(r, s)

Next ==
  \/ \E r \in Runs, s \in Steps : MemberStep(r, s) \/ Raise(r, s)
  \/ StartRun \/ Dispatch \/ Leave \/ Gathered \/ Commit \/ RollBack \/ Die
  \/ \E s \in Steps : Record(s)

Spec == Init /\ [][Next]_vars

(* A coroutine that can go on does; a call of a vendor ends, by wait_for's   *)
(* timeout at the latest; a back-off is over at some time.                    *)
Fairness ==
  /\ \A r \in Runs, s \in Steps : WF_vars(MemberStep(r, s))
  /\ WF_vars(Gathered) /\ WF_vars(Commit) /\ WF_vars(\E s \in Steps : Record(s))

FairSpec == Spec /\ Fairness
=============================================================================
