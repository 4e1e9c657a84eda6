--------------------------- MODULE WorkflowProofs ---------------------------
(***************************************************************************)
(* What holds of every plan, every bound and every setting: proofs about   *)
(* module WorkflowEngine.                                                  *)
(***************************************************************************)
EXTENDS WorkflowProperties, TLAPS, FiniteSetTheorems, WellFoundedInduction

(* A repair reopens nodes of the plan.                                     *)
LEMMA ReopenedType == ASSUME NEW n \in Nodes PROVE Reopened(n) \subseteq Nodes
BY DEF Reopened, DescendantsOf

LEMMA EntityType ==
  ASSUME TypeOK, NEW n \in Nodes
  PROVE  Own(n) \in NodeStatus /\ Entity(n) \in NodeStatus
BY DEF TypeOK, Own, Entity

(* The operators of the session keep the types of what they assign.        *)
LEMMA CommitType ==
  ASSUME TypeOK, NEW status \in WorkflowStatus, NEW new \in [Nodes -> NodeStatus],
         Commit(status, new)
  PROVE  /\ wf' \in WorkflowStatus
         /\ cancelReq' \in BOOLEAN
         /\ node' \in [Nodes -> NodeStatus]
<1>1. \A n \in Nodes : Own(n) \in NodeStatus
  BY EntityType
<1>2. wf' = status /\ cancelReq' \in BOOLEAN
  BY DEF Commit, TypeOK
<1>3. node' \in [Nodes -> NodeStatus]
  BY <1>1 DEF Commit
<1> QED BY <1>2, <1>3

LEMMA BlankType == Blank \in [Nodes -> NodeStatus] /\ Undecided \in [Nodes -> Decision]
BY DEF Blank, Undecided, NodeStatus, Decision

LEMMA NewRunType == NewRun \in WorkflowRun
BY DEF NewRun, WorkflowRun, Results

LEMMA SettingType ==
  ASSUME TypeOK, NEW S, NEW st \in NodeStatus
  PROVE  Setting(S, st) \in [Nodes -> NodeStatus]
BY EntityType DEF Setting

LEMMA EntitiesType == ASSUME TypeOK PROVE Entities \in [Nodes -> NodeStatus]
BY EntityType DEF Entities

LEMMA PartitionedType == ASSUME TypeOK PROVE Partitioned \in [Nodes -> NodeStatus]
<1> \A n \in Nodes : Entity(n) \in NodeStatus
  BY EntityType
<1> QED BY DEF Partitioned, NodeStatus

LEMMA ForgetType ==
  ASSUME Forget
  PROVE  /\ mine' \in [Nodes -> NodeStatus] /\ seen' \in [Nodes -> Decision]
         /\ dirty' \in SUBSET Nodes /\ wfDirty' \in BOOLEAN
         /\ state' \in WorkflowRun /\ batch' \in SUBSET Nodes
BY BlankType, NewRunType DEF Forget

LEMMA KeepSessionType ==
  ASSUME TypeOK, NEW new \in [Nodes -> NodeStatus], KeepSession(new)
  PROVE  /\ mine' \in [Nodes -> NodeStatus] /\ seen' \in [Nodes -> Decision]
         /\ dirty' \in SUBSET Nodes /\ wfDirty' \in BOOLEAN
BY BlankType DEF KeepSession, TypeOK

-----------------------------------------------------------------------------
(* Types, one lemma per group of actions.                                  *)

LEMMA InitType == Init => TypeOK
<1> SUFFICES ASSUME Init PROVE TypeOK
  OBVIOUS
<1>1. /\ wf \in WorkflowStatus /\ task \in TaskStatus /\ cancelReq \in BOOLEAN
      /\ pc \in Places /\ kind \in {"execute", "resume"} /\ spawns \in Nat
      /\ dirty \in SUBSET Nodes /\ wfDirty \in BOOLEAN /\ batch \in SUBSET Nodes
      /\ granted \in SUBSET Nodes /\ unrecorded \in BOOLEAN
      /\ requests \in Nat /\ restarts \in Nat /\ faults \in Nat
  BY EngineAssumption DEF Init, WorkflowStatus, TaskStatus, Places
<1>2. /\ node \in [Nodes -> NodeStatus] /\ mine \in [Nodes -> NodeStatus]
      /\ approval \in [Nodes -> Decision] /\ seen \in [Nodes -> Decision]
      /\ state \in WorkflowRun
  BY NewRunType, BlankType DEF Init
<1>3. /\ tries \in [Nodes -> Nat] /\ sentBack \in [Nodes -> Nat]
      /\ payload \in [Nodes -> Results]
      /\ basis \in [Nodes -> [Nodes -> Nat]]
  BY DEF Init, Results
<1> QED BY <1>1, <1>2, <1>3 DEF TypeOK

LEMMA StartType ==
  ASSUME TypeOK, StartExecute \/ StartResume \/ ResumeFinished
  PROVE  TypeOK'
<1>1. CASE StartExecute
  BY <1>1 DEF TypeOK, StartExecute, rows, memory, history, bounds, Places
<1>2. CASE StartResume
  <2>1. Restored \in WorkflowRun
    BY NewRunType DEF Restored, TypeOK, WorkflowRun, Results
  <2>2. [n \in Nodes |-> IF node[n] \in Unfinished THEN "waiting" ELSE node[n]]
          \in [Nodes -> NodeStatus]
    BY DEF TypeOK, NodeStatus
  <2> QED
    BY <1>2, <2>1, <2>2 DEF TypeOK, StartResume, rows, history, bounds, Places
<1>3. CASE ResumeFinished
  <2>1. wf' \in WorkflowStatus /\ pc' \in Places /\ Forget
    BY <1>3 DEF ResumeFinished, Return, WorkflowStatus, Places
  <2> QED
    BY <1>3, <2>1, ForgetType DEF TypeOK, ResumeFinished, Return, history, bounds
<1> QED BY <1>1, <1>2, <1>3

LEMMA FinishType ==
  ASSUME TypeOK, FinishCancelled \/ FinishCompleted \/ PauseForApproval \/ FinishFailed
  PROVE  TypeOK'
<1> DEFINE Stopped(status, new) ==
             Commit(status, new) /\ Return /\ UNCHANGED <<approval, tries, payload, history, bounds>>
<1>1. ASSUME NEW status \in WorkflowStatus, NEW new \in [Nodes -> NodeStatus],
             Stopped(status, new), task' \in TaskStatus
      PROVE  TypeOK'
  <2>1. pc' \in Places /\ Forget
    BY <1>1 DEF Return, Places
  <2> QED
    BY <1>1, <2>1, CommitType, ForgetType DEF TypeOK, Return, history, bounds
<1>2. CASE FinishCancelled
  <2>1. \A S : Setting(S, "cancelled") \in [Nodes -> NodeStatus]
    BY SettingType DEF NodeStatus
  <2> QED
    BY <1>1, <1>2, <2>1 DEF FinishCancelled, WorkflowStatus, TaskStatus
<1>3. CASE FinishCompleted
  BY <1>1, <1>3, EntitiesType DEF FinishCompleted, WorkflowStatus, TaskStatus
<1>4. CASE PauseForApproval
  BY <1>1, <1>4, PartitionedType DEF PauseForApproval, WorkflowStatus, TaskStatus
<1>5. CASE FinishFailed
  BY <1>1, <1>5, EntitiesType DEF FinishFailed, WorkflowStatus, TaskStatus
<1> QED BY <1>2, <1>3, <1>4, <1>5

LEMMA LeftOutType == LeftOut \subseteq Nodes /\ Allowed \subseteq Nodes
BY DEF LeftOut, NotNeeded, Refused, Runnable, Ready, ReadyNodes, Allowed

LEMMA LoopType ==
  ASSUME TypeOK,
         PassCheck \/ SettleSkips \/ Prepare \/ Dispatch \/ RouteNothing \/ Close
  PROVE  TypeOK'
<1>1. CASE PassCheck \/ RouteNothing \/ Close
  BY <1>1 DEF TypeOK, PassCheck, RouteNothing, Close, rows, session, memory, history,
              bounds, Places
<1>2. CASE SettleSkips
  <2>1. state' \in WorkflowRun
    BY <1>2, LeftOutType DEF SettleSkips, TypeOK, WorkflowRun
  <2>2. Commit("running", Partitioned) /\ KeepSession(Partitioned)
    BY <1>2 DEF SettleSkips
  <2> QED
    BY <1>2, <2>1, <2>2, PartitionedType, CommitType, KeepSessionType
       DEF SettleSkips, TypeOK, history, bounds, WorkflowStatus, TaskStatus, Places
<1>3. CASE Prepare
  <2>1. state' \in WorkflowRun
    BY <1>3, LeftOutType DEF Prepare, TypeOK, WorkflowRun
  <2> QED
    BY <1>3, <2>1, PartitionedType, LeftOutType
       DEF Prepare, StageNodes, TypeOK, rows, history, bounds, Places
<1>4. CASE Dispatch
  <2>1. Commit("running", Entities) /\ KeepSession(Entities)
    BY <1>4 DEF Dispatch
  <2> QED
    BY <1>4, <2>1, EntitiesType, CommitType, KeepSessionType
       DEF Dispatch, TypeOK, memory, history, bounds, WorkflowStatus, TaskStatus, Places
<1> QED BY <1>1, <1>2, <1>3, <1>4

LEMMA RecordType == ASSUME TypeOK, RecordBatch PROVE TypeOK'
<1>1. PICK result \in [batch -> Results], made \in [batch -> 1 .. MaxAttempts] :
        RecordBatch!2!(result, made)
  BY DEF RecordBatch
<1> DEFINE answered == {n \in batch : result[n] # NoPayload}
           last(n)  == state.used[n] + made[n]
           new      == [n \in Nodes |-> IF n \in answered THEN "completed"
                                        ELSE IF n \in batch THEN "failed"
                                        ELSE Entity(n)]
<1>2. \A n \in batch : last(n) \in Nat
  BY EngineAssumption DEF TypeOK, WorkflowRun
<1>3. new \in [Nodes -> NodeStatus]
  BY EntityType DEF NodeStatus
<1>4. Commit(wf, new) /\ KeepSession(new)
  BY <1>1
<1>5. tries' \in [Nodes -> Nat] /\ payload' \in [Nodes -> Results]
  BY <1>1, <1>2 DEF TypeOK
<1>6. state' \in WorkflowRun
  BY <1>1, <1>2 DEF TypeOK, WorkflowRun
<1>7. basis' \in [Nodes -> [Nodes -> Nat]]
  BY <1>1 DEF TypeOK, WorkflowRun
<1>8. pc' \in Places
  BY <1>1 DEF Places
<1> HIDE DEF new, answered, last
<1> QED
  BY <1>3, <1>4, <1>5, <1>6, <1>7, <1>8, CommitType, KeepSessionType
     DEF RecordBatch, TypeOK, bounds

LEMMA RouteType == ASSUME TypeOK, RouteFeedback PROVE TypeOK'
<1>1. PICK v \in FirstVerdict : RouteFeedback!2!(v)
  BY DEF RouteFeedback
<1> DEFINE t   == Feedback[v]
           new == Setting(Reopened(t), "waiting")
<1>2. t \in Nodes
  BY PlanAssumption DEF Verdicts, FirstVerdict
<1>3. new \in [Nodes -> NodeStatus]
  BY SettingType DEF NodeStatus
<1>4. Commit(wf, new) /\ KeepSession(new) /\ wf \in WorkflowStatus
  BY <1>1 DEF TypeOK
<1>5. SentBack(t) \in WorkflowRun /\ payload' \in [Nodes -> Results]
  <2>1. NoPayload \in Results
    BY DEF Results
  <2> QED BY <1>1, <1>2, <2>1 DEF TypeOK, WorkflowRun, SentBack
<1>6. sentBack' \in [Nodes -> Nat]
  BY <1>1, <1>2 DEF TypeOK
<1>7. state' = SentBack(t) /\ pc' \in Places
  BY <1>1 DEF RouteFeedback, Places
<1> HIDE DEF new, t
<1> QED
  BY <1>3, <1>4, <1>5, <1>6, <1>7, CommitType, KeepSessionType
     DEF RouteFeedback, TypeOK, bounds

LEMMA EnvironmentType == ASSUME TypeOK, Environment \/ Spawn PROVE TypeOK'
<1>1. CASE Spawn
  BY <1>1 DEF Spawn, TypeOK, rows, session, memory, deeds, history, bounds, Places
<1>2. CASE RecordCrash
  <2>1. Forget /\ pc' \in Places
    BY <1>2 DEF RecordCrash, Return, Places
  <2> QED
    <3>1. wf' \in WorkflowStatus /\ task' \in TaskStatus /\ unrecorded' \in BOOLEAN
      BY <1>2 DEF RecordCrash, TypeOK, WorkflowStatus, TaskStatus
    <3> QED
      BY <1>2, <2>1, <3>1, ForgetType DEF RecordCrash, Return, TypeOK, deeds
<1>3. CASE Restart
  <2>1. Forget /\ pc' \in Places
    BY <1>3 DEF Restart, Places
  <2>2. wf' \in WorkflowStatus /\ node' \in [Nodes -> NodeStatus]
    BY <1>3 DEF Restart, TypeOK, WorkflowStatus, NodeStatus
  <2> QED
    BY <1>3, <2>1, <2>2, ForgetType DEF Restart, TypeOK, deeds, history
<1> QED BY <1>1, <1>2, <1>3 DEF Environment

LEMMA OperatorType == ASSUME TypeOK, Operator PROVE TypeOK'
<1>1. CASE RequestCancellation
  BY <1>1 DEF RequestCancellation, Request, TypeOK, session, memory, history
<1>3. CASE ResumeWorkflow
  BY <1>3 DEF ResumeWorkflow, Request, TypeOK, session, memory, history
<1>2. ASSUME NEW n \in Nodes, ApproveNode(n) \/ RejectNode(n) \/ SkipNode(n) \/ RetryNode(n)
      PROVE  TypeOK'
  <2>1. node' \in [Nodes -> NodeStatus]
    BY <1>2, ReopenedType
       DEF ApproveNode, RejectNode, SkipNode, RetryNode, TypeOK, NodeStatus
  <2>2. approval' \in [Nodes -> Decision] /\ granted' \in SUBSET Nodes
    BY <1>2 DEF ApproveNode, RejectNode, SkipNode, RetryNode, TypeOK, Decision
  <2>3. payload' \in [Nodes -> Results]
    BY <1>2 DEF ApproveNode, RejectNode, SkipNode, RetryNode, TypeOK, Results
  <2>4. Control(n)
    BY <1>2 DEF ApproveNode, RejectNode, SkipNode, RetryNode
  <2> QED
    BY <2>1, <2>2, <2>3, <2>4 DEF Control, Request, TypeOK, session, memory
<1> QED BY <1>1, <1>2, <1>3 DEF Operator

LEMMA TypeStep == ASSUME TypeOK, [Next]_vars PROVE TypeOK'
<1>1. CASE Engine
  BY <1>1, StartType, FinishType, LoopType, RecordType, RouteType DEF Engine
<1>2. CASE Spawn \/ Environment
  BY <1>2, EnvironmentType
<1>3. CASE Operator
  BY <1>3, OperatorType
<1>4. CASE UNCHANGED vars
  BY <1>4 DEF vars, rows, session, memory, history, bounds, TypeOK
<1> QED BY <1>1, <1>2, <1>3, <1>4 DEF Next

(* Every variable keeps its type, for every plan and every bound.          *)
THEOREM TypeCorrect == Spec => []TypeOK
BY InitType, TypeStep, PTL DEF Spec

-----------------------------------------------------------------------------
(* The approval gate.                                                      *)

LEMMA GateEntity ==
  ASSUME GateInv, NEW n \in Gated
  PROVE  /\ Started(Own(n)) => n \in granted
         /\ Started(Entity(n)) => n \in granted
BY DEF GateInv, Own, Entity

(* What the engine lets run was approved.                                  *)
LEMMA GateAllowed ==
  ASSUME TypeOK, GateInv, NEW n \in Gated, n \in Allowed
  PROVE  n \in granted
<1>1. n \in Nodes /\ SeenApproval(n) \notin {"none", "rejected"}
  BY PlanAssumption DEF Allowed, Refused, Asking, Runnable
<1>2. SeenApproval(n) = "approved"
  BY <1>1 DEF SeenApproval, TypeOK, Decision
<1> QED BY <1>2 DEF GateInv, SeenApproval

LEMMA GatePartitioned ==
  ASSUME TypeOK, GateInv, NEW n \in Gated, Started(Partitioned[n])
  PROVE  n \in granted
<1>1. n \in Nodes
  BY PlanAssumption
<1>2. n \in Allowed \/ Started(Entity(n))
  BY <1>1 DEF Partitioned, Started
<1> QED BY <1>2, GateAllowed, GateEntity

(* A commit keeps the gate if what it writes does.                         *)
LEMMA GateCommit ==
  ASSUME TypeOK, GateInv, NEW status, NEW new \in [Nodes -> NodeStatus],
         \A n \in Gated : Started(new[n]) => n \in granted,
         Commit(status, new)
  PROVE  \A n \in Gated : Started(node'[n]) => n \in granted
BY PlanAssumption, GateEntity DEF Commit

LEMMA GateForget ==
  ASSUME Forget
  PROVE  batch' = {} /\ \A n \in Nodes : ~Started(mine'[n]) /\ seen'[n] # "approved"
BY DEF Forget, Blank, Undecided, Started

LEMMA GateKeep ==
  ASSUME NEW new, KeepSession(new), \A n \in Gated : Started(new[n]) => n \in granted
  PROVE  /\ \A n \in Gated : Started(mine'[n]) => n \in granted
         /\ seen' = seen
BY PlanAssumption DEF KeepSession, Blank, Started

LEMMA GateSetting ==
  ASSUME GateInv, NEW S, NEW st, ~Started(st)
  PROVE  \A n \in Gated : Started(Setting(S, st)[n]) => n \in granted
BY PlanAssumption, GateEntity DEF Setting

LEMMA GateEntities ==
  ASSUME GateInv
  PROVE  \A n \in Gated : Started(Entities[n]) => n \in granted
BY PlanAssumption, GateEntity DEF Entities

LEMMA GateInit == Init => GateInv
BY PlanAssumption DEF Init, GateInv, Blank, Undecided, Started

(* The coroutine ends with a commit, and forgets.                          *)
LEMMA GateFinish ==
  ASSUME TypeOK, GateInv,
         FinishCancelled \/ FinishCompleted \/ PauseForApproval \/ FinishFailed
  PROVE  GateInv'
<1>1. ASSUME NEW status, NEW new \in [Nodes -> NodeStatus],
             \A n \in Gated : Started(new[n]) => n \in granted,
             Commit(status, new), Return, UNCHANGED <<approval, granted>>
      PROVE  GateInv'
  BY <1>1, PlanAssumption, GateCommit, GateForget DEF GateInv, Return
<1>2. ~Started("cancelled") /\ ~Started("waiting")
  BY DEF Started
<1>3. CASE FinishCancelled
  <2>1. \A S : Setting(S, "cancelled") \in [Nodes -> NodeStatus]
    BY SettingType DEF NodeStatus
  <2> QED BY <1>1, <1>2, <1>3, <2>1, GateSetting DEF FinishCancelled, history
<1>4. CASE FinishCompleted
  BY <1>1, <1>4, EntitiesType, GateEntities DEF FinishCompleted, history
<1>5. CASE PauseForApproval
  BY <1>1, <1>5, PartitionedType, GatePartitioned DEF PauseForApproval, history
<1>6. CASE FinishFailed
  BY <1>1, <1>6, EntitiesType, GateEntities DEF FinishFailed, history
<1> QED BY <1>3, <1>4, <1>5, <1>6

LEMMA GateLoop ==
  ASSUME TypeOK, GateInv,
         PassCheck \/ SettleSkips \/ Prepare \/ Dispatch \/ RouteNothing \/ Close
  PROVE  GateInv'
<1>1. CASE PassCheck \/ RouteNothing \/ Close
  BY <1>1 DEF GateInv, PassCheck, RouteNothing, Close, rows, session, memory, history
<1>2. CASE SettleSkips
  BY <1>2, PlanAssumption, PartitionedType, GatePartitioned, GateCommit, GateKeep
     DEF GateInv, SettleSkips, history
<1>3. CASE Prepare
  BY <1>3, PlanAssumption, GatePartitioned, GateAllowed
     DEF GateInv, Prepare, StageNodes, rows, history
<1>4. CASE Dispatch
  BY <1>4, PlanAssumption, EntitiesType, GateEntities, GateCommit, GateKeep
     DEF GateInv, Dispatch, memory, history
<1> QED BY <1>1, <1>2, <1>3, <1>4

LEMMA GateStart ==
  ASSUME TypeOK, GateInv, StartExecute \/ StartResume \/ ResumeFinished
  PROVE  GateInv'
<1>1. CASE StartExecute
  BY <1>1 DEF GateInv, StartExecute, rows, memory, history
<1>2. CASE StartResume
  BY <1>2, PlanAssumption DEF GateInv, StartResume, rows, history, Started
<1>3. CASE ResumeFinished
  BY <1>3, PlanAssumption, GateForget DEF GateInv, ResumeFinished, Return, history
<1> QED BY <1>1, <1>2, <1>3

LEMMA GateRecord == ASSUME TypeOK, GateInv, RecordBatch PROVE GateInv'
<1>1. PICK result \in [batch -> Results], made \in [batch -> 1 .. MaxAttempts] :
        RecordBatch!2!(result, made)
  BY DEF RecordBatch
<1> DEFINE answered == {n \in batch : result[n] # NoPayload}
           new      == [n \in Nodes |-> IF n \in answered THEN "completed"
                                        ELSE IF n \in batch THEN "failed"
                                        ELSE Entity(n)]
<1>2. new \in [Nodes -> NodeStatus]
  BY EntityType DEF NodeStatus
<1>3. \A n \in Gated : Started(new[n]) => n \in granted
  BY PlanAssumption, GateEntity DEF GateInv
<1>4. Commit(wf, new) /\ KeepSession(new)
  BY <1>1
<1> HIDE DEF new, answered
<1> QED
  BY <1>2, <1>3, <1>4, PlanAssumption, GateCommit, GateKeep DEF GateInv, RecordBatch

LEMMA GateRoute == ASSUME TypeOK, GateInv, RouteFeedback PROVE GateInv'
<1>1. PICK v \in FirstVerdict : RouteFeedback!2!(v)
  BY DEF RouteFeedback
<1> DEFINE new == Setting(Reopened(Feedback[v]), "waiting")
<1>2. new \in [Nodes -> NodeStatus] /\ \A n \in Gated : Started(new[n]) => n \in granted
  BY SettingType, GateSetting DEF NodeStatus, Started
<1>3. Commit(wf, new) /\ KeepSession(new)
  BY <1>1
<1> HIDE DEF new
<1> QED
  BY <1>2, <1>3, PlanAssumption, GateCommit, GateKeep DEF GateInv, RouteFeedback

LEMMA GateOthers == ASSUME TypeOK, GateInv, Spawn \/ Environment \/ Operator PROVE GateInv'
<1>1. CASE Spawn
  BY <1>1 DEF GateInv, Spawn, rows, session, memory, deeds, history
<1>2. CASE RecordCrash
  BY <1>2, PlanAssumption, GateForget DEF GateInv, RecordCrash, Return, deeds, history
<1>3. CASE Restart
  <2>1. \A n \in Gated : Started(node'[n]) => Started(node[n])
    BY <1>3, PlanAssumption DEF Restart, Started
  <2> QED
    BY <1>3, <2>1, PlanAssumption, GateForget DEF GateInv, Restart, deeds, history
<1>4. CASE RequestCancellation \/ ResumeWorkflow
  BY <1>4 DEF GateInv, RequestCancellation, ResumeWorkflow, Request, session, memory, history
<1>5. ASSUME NEW n \in Nodes, ApproveNode(n) \/ RejectNode(n) \/ SkipNode(n) \/ RetryNode(n)
      PROVE  GateInv'
  <2>1. UNCHANGED <<mine, seen, batch>> /\ granted \subseteq granted'
    BY <1>5 DEF ApproveNode, RejectNode, SkipNode, RetryNode, Control, Request, session, memory
  <2>2. \A m \in Gated : Started(node'[m]) => Started(node[m])
    BY <1>5, PlanAssumption
       DEF ApproveNode, RejectNode, SkipNode, RetryNode, Started, TypeOK
  <2>3. \A m \in Gated : approval'[m] = "approved" => approval[m] = "approved" \/ m \in granted'
    BY <1>5, PlanAssumption DEF ApproveNode, RejectNode, SkipNode, RetryNode, TypeOK
  <2> QED BY <2>1, <2>2, <2>3 DEF GateInv
<1> QED BY <1>1, <1>2, <1>3, <1>4, <1>5 DEF Environment, Operator

(* No step that needs approval is ever started before some operator        *)
(* approved it: whatever the plan, however often work is sent back,        *)
(* retried or resumed, and whatever crashes (_partition_approval).         *)
THEOREM GateHolds == Spec => []ApprovalGate
<1>1. Init => GateInv
  BY GateInit
<1>2. TypeOK /\ GateInv /\ [Next]_vars => GateInv'
  <2> SUFFICES ASSUME TypeOK, GateInv, [Next]_vars PROVE GateInv'
    OBVIOUS
  <2>1. CASE Engine
    BY <2>1, GateStart, GateFinish, GateLoop, GateRecord, GateRoute DEF Engine
  <2>2. CASE Spawn \/ Environment \/ Operator
    BY <2>2, GateOthers
  <2>3. CASE UNCHANGED vars
    BY <2>3 DEF vars, rows, session, memory, history, GateInv
  <2> QED BY <2>1, <2>2, <2>3 DEF Next
<1>3. GateInv => ApprovalGate
  BY DEF GateInv, ApprovalGate
<1> QED BY <1>1, <1>2, <1>3, TypeCorrect, PTL DEF Spec

-----------------------------------------------------------------------------
(* What every validated plan has in common.                                *)

LEMMA EdgeOfDependency ==
  ASSUME NEW n \in Nodes, NEW d \in DependenciesOf(n)
  PROVE  d \in Nodes /\ <<d, n>> \in Edges
<1>1. PICK e \in Edges : e[1] = d /\ e[2] = n
  BY DEF DependenciesOf, Incoming
<1>2. e \in Nodes \X Nodes
  BY PlanAssumption
<1> QED BY <1>1, <1>2

(* What a node reaches contains what its successors reach.                 *)
LEMMA DescendantsStep ==
  ASSUME NEW d \in Nodes, NEW n \in Nodes, <<d, n>> \in Edges
  PROVE  n \in DescendantsOf[d] /\ DescendantsOf[n] \subseteq DescendantsOf[d]
<1>1. ASSUME NEW S \in SUBSET Nodes, ClosedAfter(d, S)
      PROVE  n \in S /\ ClosedAfter(n, S)
  BY <1>1 DEF ClosedAfter
<1> QED BY <1>1 DEF DescendantsOf

(* A set of nodes each of which depends on another of the set is empty:    *)
(* following dependencies cannot go on for ever in a finite plan without a *)
(* cycle.                                                                  *)
LEMMA NoEndlessDependency ==
  ASSUME NEW U \in SUBSET Nodes, \A n \in U : DependenciesOf(n) \cap U # {}
  PROVE  U = {}
<1> DEFINE Rest(n) == Nodes \ DescendantsOf[n]
           T       == {Rest(n) : n \in U}
<1> SUFFICES ASSUME U # {} PROVE FALSE
  OBVIOUS
<1>1. T \subseteq FiniteSubsetsOf(Nodes) /\ T # {}
  <2>1. \A n \in U : Rest(n) \in SUBSET Nodes
    OBVIOUS
  <2>2. \A n \in U : IsFiniteSet(Rest(n))
    BY <2>1, PlanAssumption, FS_Subset
  <2> QED BY <2>1, <2>2 DEF FiniteSubsetsOf
<1>2. PICK x \in T : \A y \in T : ~ (<<y, x>> \in StrictSubsetOrdering(Nodes))
  BY <1>1, FS_StrictSubsetOrderingWellFounded, WFMin, Zenon
<1>3. PICK n \in U : x = Rest(n)
  OBVIOUS
<1>4. PICK d \in U : <<d, n>> \in Edges
  BY EdgeOfDependency
<1>5. /\ Rest(d) \subseteq Rest(n)
      /\ n \in Rest(n) /\ n \notin Rest(d)
  BY <1>4, DescendantsStep, AcyclicAssumption
<1>6. <<Rest(d), Rest(n)>> \in StrictSubsetOrdering(Nodes)
  BY <1>5 DEF StrictSubsetOrdering
<1> QED BY <1>2, <1>3, <1>6

(* The scheduler never stops early: while a node is unresolved, some node  *)
(* is ready, so an empty ready set means that nothing is left to run       *)
(* (_ready_nodes, and the break of the loop in engine.run).                *)
THEOREM ReadyUntilResolved ==
  ASSUME NEW out, NEW skipped, ReadyNodes(out, skipped) = {}
  PROVE  \A n \in Nodes : Resolved(out, skipped, n)
<1> DEFINE U == {n \in Nodes : ~Resolved(out, skipped, n)}
<1>1. \A n \in U : DependenciesOf(n) \cap U # {}
  BY PlanAssumption DEF ReadyNodes, DependenciesOf, Incoming
<1>2. U = {}
  BY <1>1, NoEndlessDependency
<1> QED BY <1>2

-----------------------------------------------------------------------------
(* A completed workflow has nothing left to run, and a workflow that says  *)
(* it runs has a coroutine.                                                *)

(* What setting the statuses new does to the rows the engine's transaction *)
(* shows and to its entities, committed or only flushed.                   *)
Moved(new) ==
  \A n \in Nodes :
    /\ Own(n)' = IF new[n] # Entity(n) THEN new[n] ELSE Own(n)
    /\ Entity(n)' = IF kind = "resume" THEN new[n] ELSE Own(n)'
    /\ kind = "resume" => mine'[n] = new[n]

LEMMA CommitMoves ==
  ASSUME NEW status, NEW new \in [Nodes -> NodeStatus], Commit(status, new),
         KeepSession(new), kind' = kind
  PROVE  Moved(new)
BY DEF Commit, KeepSession, Moved, Own, Entity

LEMMA StageMoves ==
  ASSUME NEW new \in [Nodes -> NodeStatus], StageNodes(new), kind' = kind
  PROVE  Moved(new)
BY DEF StageNodes, Moved, Own, Entity

LEMMA EntityOfExecute ==
  ASSUME kind # "resume", NEW n \in Nodes
  PROVE  Entity(n) = Own(n)
BY DEF Entity

LEMMA SettledInit == Init => SettledInv
BY DEF Init, SettledInv, Looping, Places, Blank, CompletedMeansSettled

LEMMA SettledStart ==
  ASSUME TypeOK, SettledInv, StartExecute \/ StartResume \/ ResumeFinished
  PROVE  SettledInv'
<1>1. CASE StartExecute
  <2>1. state = NewRun /\ wf = "pending" /\ dirty = {} /\ \A n \in Nodes : node[n] # "failed"
    BY <1>1 DEF StartExecute, SettledInv, Looping
  <2>2. UNCHANGED <<state, wf, dirty, node, mine, kind>> /\ pc' = "check" /\ kind = "execute"
    BY <1>1 DEF StartExecute, rows, memory
  <2>3. \A n \in Nodes : Faithful(n)'
    BY <2>1, <2>2 DEF Faithful, NewRun, Own
  <2>4. CompletedMeansSettled'
    BY <2>1, <2>2 DEF CompletedMeansSettled
  <2>5. pc' = "check" /\ wf' # "completed" /\ state' = NewRun
    BY <2>1, <2>2
  <2> QED
    BY <2>3, <2>4, <2>5 DEF SettledInv, CompletedMeansSettled
<1>2. CASE StartResume
  <2>1. \A n \in Nodes : Faithful(n)'
    BY <1>2 DEF StartResume, Restored, NewRun, Faithful, Own, Entity, rows, Unfinished, TypeOK
  <2>2. pc' = "check" /\ wf' = wf /\ wf # "completed"
    BY <1>2 DEF StartResume, rows
  <2> QED BY <2>1, <2>2 DEF SettledInv, CompletedMeansSettled, Looping, Places
<1>3. CASE ResumeFinished
  BY <1>3 DEF ResumeFinished, Return, Forget, SettledInv, Looping, CompletedMeansSettled
<1> QED BY <1>1, <1>2, <1>3

(* When nothing is ready, every step's row is settled.                     *)
LEMMA SettledWhenNothingReady ==
  ASSUME SettledInv, pc \in Looping, Ready = {}
  PROVE  \A n \in Nodes : Own(n) \in {"completed", "skipped"}
<1>1. \A n \in Nodes : Resolved(state.out, state.skipped, n)
  BY ReadyUntilResolved DEF Ready
<1> QED BY <1>1 DEF SettledInv, Faithful, Resolved

LEMMA SettledFinish ==
  ASSUME TypeOK, SettledInv,
         FinishCancelled \/ FinishCompleted \/ PauseForApproval \/ FinishFailed
  PROVE  SettledInv'
<1>1. pc' = "closing" /\ state' = NewRun
  BY DEF FinishCancelled, FinishCompleted, PauseForApproval, FinishFailed, Return, Forget
<1>2. CompletedMeansSettled'
  <2>1. CASE FinishCompleted
    <3>1. \A n \in Nodes : node'[n] = Own(n)
      BY <2>1 DEF FinishCompleted, Commit, Entities
    <3>2. pc \in Looping /\ Ready = {}
      BY <2>1 DEF FinishCompleted, Looping, Places
    <3> QED BY <3>1, <3>2, SettledWhenNothingReady DEF CompletedMeansSettled
  <2>2. CASE FinishCancelled \/ PauseForApproval \/ FinishFailed
    BY <2>2 DEF FinishCancelled, PauseForApproval, FinishFailed, Commit, CompletedMeansSettled
  <2> QED BY <2>1, <2>2
<1> QED BY <1>1, <1>2 DEF SettledInv, Looping

LEMMA SettledIdle ==
  ASSUME TypeOK, SettledInv, PassCheck \/ RouteNothing \/ Close
  PROVE  SettledInv'
<1>1. UNCHANGED <<wf, node, kind, mine, dirty, state, batch>>
  BY DEF PassCheck, RouteNothing, Close, rows, session, memory
<1>2. \/ pc = "check" /\ pc' = "schedule"
      \/ pc = "routing" /\ pc' = "check"
      \/ pc = "closing" /\ pc' = "none"
  BY DEF PassCheck, RouteNothing, Close
<1>3. \A n \in Nodes : pc \in Looping /\ Faithful(n) => (pc' # "none" => Faithful(n)')
  BY <1>1, <1>2 DEF Faithful, Own, Entity
<1> QED BY <1>1, <1>2, <1>3 DEF SettledInv, Looping, Places, CompletedMeansSettled

(* What a pass of the scheduler leaves of the nodes.                       *)
LEMMA PartitionedFaithful ==
  ASSUME TypeOK, SettledInv, pc = "schedule", Moved(Partitioned), UNCHANGED kind,
         state'.out = state.out, state'.skipped = state.skipped \cup LeftOut,
         pc' # "failing"
  PROVE  \A n \in Nodes : Faithful(n)'
<1> SUFFICES ASSUME NEW n \in Nodes PROVE Faithful(n)'
  OBVIOUS
<1>1. Faithful(n)
  BY DEF SettledInv, Looping, Places
<1>2. /\ Own(n)' = IF Partitioned[n] # Entity(n) THEN Partitioned[n] ELSE Own(n)
      /\ Entity(n)' = IF kind = "resume" THEN Partitioned[n] ELSE Own(n)'
      /\ kind = "resume" => mine'[n] = Partitioned[n]
  BY DEF Moved
<1>3. kind = "resume" => Entity(n) = mine[n]
  BY DEF Entity
<1>4. kind # "resume" => Entity(n) = Own(n)
  BY DEF Entity
<1>5. CASE n \in LeftOut
  <2>1. ~Resolved(state.out, state.skipped, n) /\ Partitioned[n] = "skipped"
    BY <1>5 DEF LeftOut, NotNeeded, Refused, Runnable, Ready, ReadyNodes, Partitioned
  <2> QED BY <1>1, <1>2, <1>3, <1>4, <1>5, <2>1 DEF Faithful, Resolved
<1>6. CASE n \in Asking \cup Allowed
  <2>1. ~Resolved(state.out, state.skipped, n) /\ n \notin LeftOut
        /\ Partitioned[n] \in {"awaiting_approval", "running"}
    BY <1>6 DEF LeftOut, NotNeeded, Refused, Asking, Allowed, Runnable, Ready, ReadyNodes,
                Partitioned
  <2> QED BY <1>1, <1>2, <1>3, <1>4, <1>6, <2>1 DEF Faithful, Resolved
<1>7. CASE n \notin LeftOut \cup Asking \cup Allowed
  <2>1. Partitioned[n] = Entity(n)
    BY <1>7 DEF Partitioned, LeftOut
  <2> QED BY <1>1, <1>2, <1>3, <1>4, <1>7, <2>1 DEF Faithful
<1> QED BY <1>5, <1>6, <1>7

LEMMA SettledLoop ==
  ASSUME TypeOK, SettledInv, SettleSkips \/ Prepare \/ Dispatch
  PROVE  SettledInv'
<1>1. CASE SettleSkips
  <2>1. Moved(Partitioned)
    BY <1>1, PartitionedType, CommitMoves DEF SettleSkips
  <2>2. /\ state'.out = state.out /\ state'.skipped = state.skipped \cup LeftOut
        /\ pc = "schedule" /\ pc' = "check" /\ kind' = kind /\ wf' = "running"
    BY <1>1 DEF SettleSkips, Commit, TypeOK, WorkflowRun
  <2>3. \A n \in Nodes : Faithful(n)'
    BY <2>1, <2>2, PartitionedFaithful
  <2> QED BY <2>2, <2>3 DEF SettledInv, CompletedMeansSettled, Looping, Places
<1>2. CASE Prepare
  <2>1. Moved(Partitioned)
    BY <1>2, PartitionedType, StageMoves DEF Prepare
  <2>2. /\ state'.out = state.out /\ state'.skipped = state.skipped \cup LeftOut
        /\ pc = "schedule" /\ pc' = "preparing" /\ kind' = kind /\ wf' = wf
        /\ batch' = Allowed
    BY <1>2 DEF Prepare, rows, TypeOK, WorkflowRun
  <2>3. \A n \in Nodes : Faithful(n)'
    BY <2>1, <2>2, PartitionedFaithful
  <2>4. \A n \in batch' : Entity(n)' = "running"
    <3>1. \A n \in Allowed : n \in Nodes /\ Partitioned[n] = "running"
      BY DEF Allowed, Refused, Asking, Runnable, Ready, ReadyNodes, NotNeeded, Partitioned
    <3> QED BY <2>1, <2>2, <3>1, EntityOfExecute DEF Moved
  <2>5. wf # "completed"
    BY <2>2 DEF SettledInv, Looping, Places
  <2> QED BY <2>2, <2>3, <2>4, <2>5 DEF SettledInv, CompletedMeansSettled, Looping, Places
<1>3. CASE Dispatch
  <2>1. Moved(Entities)
    BY <1>3, EntitiesType, CommitMoves DEF Dispatch
  <2>2. /\ state' = state /\ batch' = batch
        /\ pc = "preparing" /\ pc' = "calling" /\ kind' = kind /\ wf' = "running"
    BY <1>3 DEF Dispatch, Commit, memory
  <2>3. \A n \in Nodes : Own(n)' = Own(n) /\ Entity(n)' = Entity(n)
                          /\ (kind = "resume" => mine'[n] = mine[n])
    BY <2>1, EntityOfExecute DEF Moved, Entities, Entity
  <2>4. \A n \in Nodes : Faithful(n)'
    BY <2>2, <2>3 DEF SettledInv, Looping, Places, Faithful
  <2>5. \A n \in batch' : Entity(n)' = "running"
    BY <2>2, <2>3 DEF SettledInv, TypeOK
  <2> QED BY <2>2, <2>4, <2>5 DEF SettledInv, CompletedMeansSettled, Looping, Places
<1> QED BY <1>1, <1>2, <1>3

LEMMA SettledRecord == ASSUME TypeOK, SettledInv, RecordBatch PROVE SettledInv'
<1>1. PICK result \in [batch -> Results], made \in [batch -> 1 .. MaxAttempts] :
        RecordBatch!2!(result, made)
  BY DEF RecordBatch
<1> DEFINE answered == {n \in batch : result[n] # NoPayload}
           new      == [n \in Nodes |-> IF n \in answered THEN "completed"
                                        ELSE IF n \in batch THEN "failed"
                                        ELSE Entity(n)]
<1>2. new \in [Nodes -> NodeStatus] /\ kind' = kind
  BY EntityType DEF NodeStatus, RecordBatch
<1>3. Moved(new)
  <2>1. Commit(wf, new) /\ KeepSession(new)
    BY <1>1
  <2> HIDE DEF new
  <2> QED BY <1>2, <2>1, CommitMoves
<1>4. /\ pc = "calling" /\ wf' = wf
      /\ pc' = IF answered = batch THEN "routing" ELSE "failing"
      /\ state'.skipped = state.skipped
      /\ \A n \in Nodes : state'.out[n] = IF n \in answered THEN result[n] ELSE state.out[n]
  BY <1>1 DEF RecordBatch, Commit, TypeOK, WorkflowRun
<1>5. wf = "running" /\ \A n \in batch : Entity(n) = "running"
  BY <1>4 DEF SettledInv
<1>6. ASSUME NEW n \in Nodes PROVE Faithful(n)'
  <2>1. Faithful(n)
    BY <1>4 DEF SettledInv, Looping, Places
  <2>2. /\ Own(n)' = IF new[n] # Entity(n) THEN new[n] ELSE Own(n)
        /\ Entity(n)' = IF kind = "resume" THEN new[n] ELSE Own(n)'
        /\ kind = "resume" => mine'[n] = new[n] /\ Entity(n) = mine[n]
        /\ kind # "resume" => Entity(n) = Own(n)
    BY <1>3 DEF Moved, Entity
  <2>3. CASE n \in answered
    <3>1. new[n] = "completed" /\ Entity(n) = "running"
      BY <1>5, <2>3
    <3> QED BY <1>2, <1>4, <2>1, <2>2, <2>3, <3>1 DEF Faithful
  <2>4. CASE n \in batch \ answered
    <3>1. new[n] = "failed" /\ Entity(n) = "running" /\ pc' = "failing"
      BY <1>4, <1>5, <2>4
    <3> QED BY <1>2, <1>4, <2>1, <2>2, <2>4, <3>1 DEF Faithful
  <2>5. CASE n \notin batch
    <3>1. new[n] = Entity(n) /\ n \notin answered
      BY <2>5
    <3> QED BY <1>2, <1>4, <2>1, <2>2, <3>1 DEF Faithful
  <2> QED BY <2>3, <2>4, <2>5
<1> HIDE DEF new, answered
<1> QED
  BY <1>4, <1>5, <1>6 DEF SettledInv, CompletedMeansSettled, Looping, Places

LEMMA SettledRoute == ASSUME TypeOK, SettledInv, RouteFeedback PROVE SettledInv'
<1>1. PICK v \in FirstVerdict : RouteFeedback!2!(v)
  BY DEF RouteFeedback
<1> DEFINE t   == Feedback[v]
           new == Setting(Reopened(t), "waiting")
<1>2. new \in [Nodes -> NodeStatus] /\ kind' = kind
  BY SettingType DEF NodeStatus, RouteFeedback
<1>3. Moved(new)
  <2>1. Commit(wf, new) /\ KeepSession(new)
    BY <1>1
  <2> HIDE DEF new
  <2> QED BY <1>2, <2>1, CommitMoves
<1>4. /\ pc = "routing" /\ pc' = "check" /\ wf' = wf
      /\ state'.skipped = state.skipped \ Reopened(t)
      /\ \A n \in Nodes : state'.out[n] = IF n \in Reopened(t) THEN NoPayload
                                          ELSE state.out[n]
  BY <1>1 DEF RouteFeedback, Commit, SentBack
<1>5. wf = "running"
  BY <1>4 DEF SettledInv
<1>6. ASSUME NEW n \in Nodes PROVE Faithful(n)'
  <2>1. Faithful(n)
    BY <1>4 DEF SettledInv, Looping, Places
  <2>2. /\ Own(n)' = IF new[n] # Entity(n) THEN new[n] ELSE Own(n)
        /\ Entity(n)' = IF kind = "resume" THEN new[n] ELSE Own(n)'
        /\ kind = "resume" => mine'[n] = new[n] /\ Entity(n) = mine[n]
        /\ kind # "resume" => Entity(n) = Own(n)
    BY <1>3 DEF Moved, Entity
  <2>3. new[n] = IF n \in Reopened(t) THEN "waiting" ELSE Entity(n)
    BY DEF Setting
  <2> HIDE DEF new, t
  <2> QED BY <1>2, <1>4, <2>1, <2>2, <2>3 DEF Faithful
<1> HIDE DEF new, t
<1> QED
  BY <1>4, <1>5, <1>6 DEF SettledInv, CompletedMeansSettled, Looping, Places

LEMMA SettledEnvironment ==
  ASSUME TypeOK, SettledInv, Spawn \/ Environment
  PROVE  SettledInv'
<1>1. CASE Spawn
  <2>1. UNCHANGED <<wf, node, mine, dirty, state, batch>>
    BY <1>1 DEF Spawn, rows, session, memory
  <2>2. \/ UNCHANGED <<pc, kind>>
        \/ pc = "none" /\ pc' = "queued" /\ kind' = "resume"
    BY <1>1 DEF Spawn
  <2>3. UNCHANGED <<pc, kind>> => \A n \in Nodes : Faithful(n)' = Faithful(n)
    BY <2>1 DEF Faithful, Own, Entity
  <2>4. UNCHANGED kind => \A n \in Nodes : Entity(n)' = Entity(n)
    BY <2>1 DEF Own, Entity
  <2> QED
    BY <2>1, <2>2, <2>3, <2>4 DEF SettledInv, CompletedMeansSettled, Looping, Places, TypeOK
<1>2. CASE RecordCrash
  BY <1>2 DEF RecordCrash, Return, Forget, SettledInv, Looping, CompletedMeansSettled
<1>3. CASE Restart
  <2>1. pc' = "none" /\ state' = NewRun
    BY <1>3 DEF Restart, Forget
  <2>2. CompletedMeansSettled'
    BY <1>3 DEF Restart, SettledInv, CompletedMeansSettled
  <2> QED BY <2>1, <2>2 DEF SettledInv, Looping
<1> QED BY <1>1, <1>2, <1>3 DEF Environment

(* A control changes the row of no settled step of a live run.             *)
LEMMA SettledOperator == ASSUME TypeOK, SettledInv, Operator PROVE SettledInv'
<1>1. UNCHANGED <<wf, pc, kind, mine, dirty, state, batch>>
  BY DEF Operator, RequestCancellation, ResumeWorkflow, ApproveNode, RejectNode, SkipNode,
         RetryNode, Control, Request, session, memory
<1>2. CASE UNCHANGED node
  <2>1. \A n \in Nodes : Faithful(n)' = Faithful(n) /\ Entity(n)' = Entity(n)
    BY <1>1, <1>2 DEF Faithful, Own, Entity
  <2> QED
    BY <1>1, <1>2, <2>1 DEF SettledInv, CompletedMeansSettled, TypeOK
<1>3. CASE ~UNCHANGED node
  <2>1. PICK n \in Nodes : ApproveNode(n) \/ RejectNode(n) \/ SkipNode(n) \/ RetryNode(n)
    BY <1>3 DEF Operator, RequestCancellation, ResumeWorkflow
  <2>2. wf # "running" /\ n \notin dirty
        /\ node[n] \in {"waiting", "failed", "awaiting_approval"}
    BY <2>1 DEF ApproveNode, RejectNode, SkipNode, RetryNode, Control
  <2>3. \A m \in Nodes : node'[m] # "failed" \/ node'[m] = node[m]
    BY <2>1 DEF ApproveNode, RejectNode, SkipNode, RetryNode, TypeOK
  <2>4. CASE pc \in Looping
    <3>1. pc \notin {"calling", "failing", "routing"}
      BY <2>2 DEF SettledInv
    <3>2. Own(n) # "failed" /\ Own(n) = node[n]
      BY <2>2, <2>4, <3>1 DEF SettledInv, Faithful, Own
    <3>3. ~RetryNode(n)
      BY <3>2 DEF RetryNode
    <3>4. \A m \in Nodes : m # n => node'[m] = node[m]
      BY <2>1, <3>3 DEF ApproveNode, RejectNode, SkipNode, TypeOK
    <3>5. \A m \in Nodes : m # n => Own(m)' = Own(m) /\ Entity(m)' = Entity(m)
      BY <1>1, <3>4 DEF Own, Entity
    <3>6. Own(n) \in {"waiting", "awaiting_approval"} /\ Own(n)' # "failed"
      BY <1>1, <2>2, <2>3, <3>2 DEF Own
    <3>7. \A m \in Nodes : Faithful(m)'
      BY <1>1, <2>4, <3>1, <3>5, <3>6 DEF SettledInv, Faithful
    <3>8. pc = "preparing" => \A m \in batch : Entity(m)' = "running"
      <4> SUFFICES ASSUME pc = "preparing", NEW m \in batch PROVE Entity(m)' = "running"
        OBVIOUS
      <4>1. Entity(m) = "running" /\ m \in Nodes
        BY DEF SettledInv, TypeOK
      <4>2. CASE kind = "resume"
        BY <1>1, <4>1, <4>2 DEF Entity
      <4>3. CASE kind # "resume"
        BY <3>5, <3>6, <4>1, <4>3, EntityOfExecute
      <4> QED BY <4>2, <4>3
    <3>9. wf # "completed"
      BY <2>4 DEF SettledInv
    <3>10. pc' \in Looping /\ pc' \notin {"calling", "failing", "routing"}
      BY <1>1, <2>4, <3>1
    <3> QED
      BY <1>1, <3>7, <3>8, <3>9, <3>10 DEF SettledInv, CompletedMeansSettled, Looping
  <2>5. CASE pc \notin Looping
    <3>1. CompletedMeansSettled'
      BY <1>1, <2>2 DEF SettledInv, CompletedMeansSettled
    <3>2. pc \notin {"calling", "failing", "routing", "preparing"}
      BY <2>5 DEF Looping, Places
    <3> QED
      BY <1>1, <2>3, <2>5, <3>1, <3>2 DEF SettledInv
  <2> QED BY <2>4, <2>5
<1> QED BY <1>2, <1>3

LEMMA SettledStep == ASSUME TypeOK, SettledInv, [Next]_vars PROVE SettledInv'
<1>1. CASE Engine
  BY <1>1, SettledStart, SettledFinish, SettledIdle, SettledLoop, SettledRecord,
     SettledRoute DEF Engine
<1>2. CASE Spawn \/ Environment
  BY <1>2, SettledEnvironment
<1>3. CASE Operator
  BY <1>3, SettledOperator
<1>4. CASE UNCHANGED vars
  <2>1. \A n \in Nodes : Faithful(n)' = Faithful(n) /\ Entity(n)' = Entity(n)
    BY <1>4 DEF vars, rows, session, memory, Faithful, Own, Entity
  <2> QED
    BY <1>4, <2>1 DEF vars, rows, session, memory, SettledInv, CompletedMeansSettled, TypeOK
<1> QED BY <1>1, <1>2, <1>3, <1>4 DEF Next

LEMMA SettledInvariant == Spec => []SettledInv
BY SettledInit, SettledStep, TypeCorrect, PTL DEF Spec

(* A workflow reported as completed has nothing left to run, whatever the  *)
(* plan and whatever operators, crashes and restarts did on the way: the   *)
(* break of the loop in engine.run and the rows it leaves.                 *)
THEOREM CompletedSettled == Spec => []CompletedMeansSettled
<1>1. SettledInv => CompletedMeansSettled
  BY DEF SettledInv
<1> QED BY <1>1, SettledInvariant, PTL

(* A workflow that says it runs, or is about to, has a coroutine, unless a *)
(* crash could not be recorded or a restart was not followed by a sweep,   *)
(* and no coroutine has been started since: every other way out of the     *)
(* engine leaves a status that claims no run (_record_crash,               *)
(* mark_interrupted_runs).  The property is inductive.                     *)
THEOREM NoOrphan == Spec => []NoOrphanRun
<1>1. Init => NoOrphanRun
  BY DEF Init, NoOrphanRun
<1>2. NoOrphanRun /\ [Next]_vars => NoOrphanRun'
  <2> SUFFICES ASSUME NoOrphanRun, [Next]_vars PROVE NoOrphanRun'
    OBVIOUS
  <2>1. CASE StartExecute \/ StartResume \/ PassCheck \/ Prepare \/ RouteNothing
    BY <2>1 DEF StartExecute, StartResume, PassCheck, Prepare, RouteNothing, history, NoOrphanRun
  <2>2. CASE SettleSkips \/ Dispatch \/ RecordBatch \/ RouteFeedback
    BY <2>2 DEF SettleSkips, Dispatch, RecordBatch, RouteFeedback, NoOrphanRun
  <2>3. CASE \/ FinishCancelled \/ FinishCompleted \/ PauseForApproval \/ FinishFailed
             \/ ResumeFinished \/ RecordCrash
    BY <2>3 DEF FinishCancelled, FinishCompleted, PauseForApproval, FinishFailed, Commit,
                ResumeFinished, RecordCrash, Return, Looping, history, NoOrphanRun
  <2>4. CASE Close \/ Spawn \/ Operator
    BY <2>4 DEF Close, Spawn, Operator, RequestCancellation, ResumeWorkflow, ApproveNode,
                RejectNode, SkipNode, RetryNode, Control, Request, rows, history,
                deeds, NoOrphanRun
  <2>5. CASE Restart
    BY <2>5 DEF Restart, Swept, NoOrphanRun
  <2>6. CASE UNCHANGED vars
    BY <2>6 DEF vars, rows, history, NoOrphanRun
  <2> QED
    BY <2>1, <2>2, <2>3, <2>4, <2>5, <2>6 DEF Next, Engine, Environment
<1> QED BY <1>1, <1>2, PTL DEF Spec

-----------------------------------------------------------------------------
(* What is on record is justified: by the joins, by answers nobody has     *)
(* superseded, and by what the engine remembers; and it is paid for once.  *)

(* What follows a step of R by an edge is in R.                            *)

Closed(R) == \A e \in Edges : e[1] \in R => e[2] \in R

LEMMA ReopenedClosed == ASSUME NEW t \in Nodes PROVE Closed(Reopened(t))
<1> SUFFICES ASSUME NEW e \in Edges, e[1] \in Reopened(t)
             PROVE  e[2] \in Reopened(t)
  BY DEF Closed
<1>1. e[1] \in Nodes /\ e[2] \in Nodes /\ e = <<e[1], e[2]>>
  BY PlanAssumption
<1>2. CASE e[1] = t
  BY <1>1, <1>2, DescendantsStep DEF Reopened
<1>3. CASE e[1] \in DescendantsOf[t]
  BY <1>1, <1>3 DEF DescendantsOf, ClosedAfter, Reopened
<1> QED BY <1>2, <1>3 DEF Reopened

(* What is outside a closed set depends on nothing in it.                  *)
LEMMA OutsideClosed ==
  ASSUME NEW R, Closed(R), NEW n \in Nodes, n \notin R, NEW d \in DependenciesOf(n)
  PROVE  d \in Nodes /\ d \notin R
<1>1. d \in Nodes /\ <<d, n>> \in Edges
  BY EdgeOfDependency
<1> QED BY <1>1 DEF Closed

(* Rows that lose no result but those of a closed set, and change nothing  *)
(* of what was skipped for a result, still justify the results they hold.  *)
LEMMA RowsKept ==
  ASSUME JoinRespected, CurrentInputs, NEW R, Closed(R), UNCHANGED <<tries, basis>>,
         \A n \in Nodes : IF n \in R THEN node'[n] # "completed"
                          ELSE /\ payload'[n] = payload[n]
                               /\ (node'[n] = "completed") = (node[n] = "completed"),
         \A n \in Nodes : \A d \in DependenciesOf(n) :
           node[n] = "completed" /\ n \notin R /\ node[d] = "skipped" => node'[d] = "skipped"
  PROVE  JoinRespected' /\ CurrentInputs'
<1> SUFFICES ASSUME NEW n \in Nodes, node'[n] = "completed"
             PROVE  /\ IF n \in AnyJoin /\ DependenciesOf(n) # {}
                         THEN \E d \in DependenciesOf(n) : Lets(d, n)'
                         ELSE \A d \in DependenciesOf(n) : Lets(d, n)'
                    /\ \A d \in DependenciesOf(n) :
                         \/ node'[d] = "completed" /\ basis'[n][d] = tries'[d]
                         \/ node'[d] = "skipped" /\ basis'[n][d] = 0
  BY DEF JoinRespected, CurrentInputs
<1>1. n \notin R /\ node[n] = "completed"
  OBVIOUS
<1>2. \A d \in DependenciesOf(n) : d \in Nodes /\ d \notin R
  BY <1>1, OutsideClosed
<1>3. \A d \in DependenciesOf(n) : Lets(d, n)' = Lets(d, n)
  BY <1>2 DEF Lets
<1>4. IF n \in AnyJoin /\ DependenciesOf(n) # {}
        THEN \E d \in DependenciesOf(n) : Lets(d, n)
        ELSE \A d \in DependenciesOf(n) : Lets(d, n)
  BY <1>1 DEF JoinRespected
<1>5. \A d \in DependenciesOf(n) :
        \/ node'[d] = "completed" /\ basis'[n][d] = tries'[d]
        \/ node'[d] = "skipped" /\ basis'[n][d] = 0
  BY <1>1, <1>2 DEF CurrentInputs
<1> QED BY <1>3, <1>4, <1>5

(* In a live run a result is on record exactly if it is in memory and in   *)
(* the entity, and what it used is settled in memory.                      *)
LEMMA ResultInMemory ==
  ASSUME SettledInv, RecordInv, pc \in Looping, NEW n \in Nodes
  PROVE  /\ (node[n] = "completed") = (Own(n) = "completed")
         /\ (state.out[n] # NoPayload) = (Own(n) = "completed")
         /\ Own(n) = "completed" => Entity(n) = "completed" /\ n \notin dirty
                                    /\ state.out[n] = payload[n]
         /\ n \in state.skipped => Own(n) = "skipped" /\ Entity(n) = "skipped"
<1>1. Recorded(n) /\ Faithful(n)
  BY DEF RecordInv, SettledInv
<1>2. n \in dirty => node[n] # "completed" /\ mine[n] # "completed"
  BY DEF RecordInv
<1>3. (node[n] = "completed") = (Own(n) = "completed")
  BY <1>2 DEF Own
<1>4. node[n] = "completed" => payload[n] # NoPayload
  BY DEF RecordInv
<1>5. (state.out[n] # NoPayload) = (Own(n) = "completed")
  BY <1>1, <1>3, <1>4 DEF Recorded
<1>6. Own(n) = "completed" => Entity(n) = "completed" /\ n \notin dirty
  BY <1>1, <1>2, <1>3, <1>5 DEF Faithful
<1>7. Own(n) = "completed" => state.out[n] = payload[n]
  BY <1>1 DEF Recorded
<1> QED BY <1>1, <1>3, <1>5, <1>6, <1>7 DEF Faithful

LEMMA SkippedInMemory ==
  ASSUME SettledInv, RecordInv, pc \in Looping,
         NEW n \in Nodes, node[n] = "completed", NEW d \in DependenciesOf(n),
         node[d] = "skipped"
  PROVE  d \in state.skipped
<1>1. d \in Nodes
  BY EdgeOfDependency
<1>2. Resolved(state.out, state.skipped, d)
  BY ResultInMemory DEF RecordInv, Recorded, InputsSettled
<1> QED BY <1>1, <1>2, ResultInMemory DEF Resolved

(* A set of statuses that changes no settled step outside R, completes     *)
(* nothing, and leaves nothing completed in R.                             *)
Leaves(R, new) ==
  \A n \in Nodes :
    IF n \in R THEN new[n] # "completed"
    ELSE /\ Resolved(state.out, state.skipped, n) => new[n] = Entity(n)
         /\ new[n] = "completed" => Entity(n) = "completed"

LEMMA RowsCommitted ==
  ASSUME SettledInv, RecordInv, pc \in Looping, NEW new, NEW R, Closed(R), Leaves(R, new),
         \A n \in Nodes : node'[n] = IF new[n] # Entity(n) THEN new[n] ELSE Own(n),
         UNCHANGED <<tries, basis>>, \A n \in Nodes \ R : payload'[n] = payload[n]
  PROVE  /\ JoinRespected' /\ CurrentInputs'
         /\ \A n \in Nodes : node'[n] = "completed" => payload'[n] # NoPayload
<1>1. ASSUME NEW n \in R, n \in Nodes PROVE node'[n] # "completed"
  BY <1>1, ResultInMemory DEF Leaves
<1>2. ASSUME NEW n \in Nodes, n \notin R
      PROVE  (node'[n] = "completed") = (node[n] = "completed")
  <2>1. CASE node[n] = "completed"
    <3>1. Own(n) = "completed" /\ new[n] = Entity(n)
      BY <1>2, <2>1, ResultInMemory DEF Leaves, Resolved
    <3> QED BY <2>1, <3>1
  <2>2. CASE node[n] # "completed"
    <3>1. Own(n) # "completed"
      BY <2>2, ResultInMemory
    <3>2. new[n] # Entity(n) => new[n] # "completed"
      BY <1>2 DEF Leaves
    <3> QED BY <2>2, <3>1, <3>2
  <2> QED BY <2>1, <2>2
<1>3. ASSUME NEW n \in Nodes, NEW d \in DependenciesOf(n),
             node[n] = "completed", n \notin R, node[d] = "skipped"
      PROVE  node'[d] = "skipped"
  <2>1. d \in Nodes /\ d \notin R /\ d \in state.skipped
    BY <1>3, OutsideClosed, SkippedInMemory
  <2>2. Own(d) = "skipped" /\ new[d] = Entity(d)
    BY <2>1, ResultInMemory DEF Leaves, Resolved
  <2> QED BY <2>1, <2>2
<1>4. JoinRespected /\ CurrentInputs
  BY DEF RecordInv
<1>5. JoinRespected' /\ CurrentInputs'
  BY <1>1, <1>2, <1>3, <1>4, RowsKept
<1>6. \A n \in Nodes : node'[n] = "completed" => payload'[n] # NoPayload
  BY <1>1, <1>2 DEF RecordInv
<1> QED BY <1>5, <1>6

(* The memory after the statuses new are flushed or committed.             *)
LEMMA MemoryKept ==
  ASSUME SettledInv, RecordInv, pc \in Looping, NEW new, NEW R, Closed(R), Leaves(R, new),
         Moved(new), UNCHANGED tries, \A n \in Nodes \ R : payload'[n] = payload[n],
         \A n \in Nodes : state'.out[n] = IF n \in R THEN NoPayload ELSE state.out[n],
         \A n \in Nodes \ R : n \in state.skipped => n \in state'.skipped,
         state'.used = state.used
  PROVE  \A n \in Nodes : Recorded(n)'
<1> SUFFICES ASSUME NEW n \in Nodes PROVE Recorded(n)'
  OBVIOUS
<1>1. Recorded(n)
  BY DEF RecordInv
<1>2. Own(n)' = IF new[n] # Entity(n) THEN new[n] ELSE Own(n)
  BY DEF Moved
<1>3. (Own(n)' = "completed") = (n \notin R /\ Own(n) = "completed")
  <2>1. CASE n \in R
    BY <1>2, <2>1, ResultInMemory DEF Leaves
  <2>2. CASE n \notin R /\ Own(n) = "completed"
    BY <1>2, <2>2, ResultInMemory DEF Leaves, Resolved
  <2>3. CASE n \notin R /\ Own(n) # "completed"
    BY <1>2, <2>3 DEF Leaves
  <2> QED BY <2>1, <2>2, <2>3
<1>4. state'.out[n] # NoPayload => InputsSettled(n)'
  <2> SUFFICES ASSUME state'.out[n] # NoPayload, NEW d \in DependenciesOf(n)
               PROVE  Resolved(state'.out, state'.skipped, d)
    BY DEF InputsSettled
  <2>1. n \notin R /\ state.out[n] # NoPayload
    OBVIOUS
  <2>2. d \in Nodes /\ d \notin R
    BY <2>1, OutsideClosed
  <2>3. Resolved(state.out, state.skipped, d)
    BY <1>1, <2>1 DEF Recorded, InputsSettled
  <2> QED BY <2>2, <2>3 DEF Resolved
<1> QED BY <1>1, <1>3, <1>4 DEF Recorded


(* The pass of the scheduler is one: it moves steps that are ready.         *)
LEMMA PartitionLeaves == Leaves({}, Partitioned)
<1> SUFFICES ASSUME NEW n \in Nodes
             PROVE  /\ Resolved(state.out, state.skipped, n) => Partitioned[n] = Entity(n)
                    /\ Partitioned[n] = "completed" => Entity(n) = "completed"
  BY DEF Leaves
<1>1. n \in NotNeeded \cup Refused \cup Asking \cup Allowed
        => ~Resolved(state.out, state.skipped, n)
  BY DEF NotNeeded, Refused, Asking, Allowed, Runnable, Ready, ReadyNodes
<1> QED BY <1>1 DEF Partitioned

LEMMA RecordInit == Init => RecordInv
BY DEF Init, RecordInv, Looping, Blank, JoinRespected, CurrentInputs

LEMMA RecordStart ==
  ASSUME TypeOK, SettledInv, RecordInv, StartExecute \/ StartResume \/ ResumeFinished
  PROVE  RecordInv'
<1>1. CASE StartExecute
  <2>1. UNCHANGED <<node, payload, tries, basis, state, dirty, mine, kind>>
        /\ pc = "queued" /\ kind = "execute" /\ pc' = "check"
    BY <1>1 DEF StartExecute, rows, memory, history
  <2>2. state = NewRun /\ dirty = {}
    BY <2>1 DEF SettledInv, Looping
  <2>3. \A n \in Nodes : Own(n)' = node[n] /\ node[n] # "completed" /\ tries[n] = 0
    BY <2>1, <2>2 DEF Own, RecordInv
  <2>4. \A n \in Nodes : state'.out[n] = NoPayload /\ state'.used[n] = 0
    BY <2>1, <2>2 DEF NewRun
  <2>5. \A n \in Nodes : Recorded(n)'
    BY <2>1, <2>3, <2>4 DEF Recorded
  <2>6. JoinRespected' /\ CurrentInputs'
    BY <2>1, <2>3 DEF JoinRespected, CurrentInputs
  <2> QED BY <2>1, <2>2, <2>3, <2>5, <2>6 DEF RecordInv, Looping, Places
<1>2. CASE StartResume
  <2>1. /\ UNCHANGED <<node, payload, tries, basis>> /\ state' = Restored /\ pc' = "check"
        /\ dirty' = {n \in Nodes : node[n] \in Unfinished}
        /\ mine' = [n \in Nodes |-> IF node[n] \in Unfinished THEN "waiting" ELSE node[n]]
    BY <1>2 DEF StartResume, rows, history
  <2>2. \A n \in Nodes : /\ (Own(n)' = "completed") = (node[n] = "completed")
                         /\ n \in dirty' => node[n] # "completed" /\ mine'[n] # "completed"
    BY <2>1 DEF Own, Unfinished
  <2>3. /\ \A n \in Nodes : state'.out[n] = IF node[n] = "completed" THEN payload[n]
                                            ELSE NoPayload
        /\ state'.skipped = {n \in Nodes : node[n] = "skipped"}
        /\ state'.used = tries
    BY <2>1 DEF Restored, NewRun
  <2>4. \A n \in Nodes : node[n] = "completed" => payload[n] # NoPayload
    BY DEF RecordInv
  <2>5. ASSUME NEW n \in Nodes PROVE Recorded(n)'
    <3>1. ASSUME state'.out[n] # NoPayload, NEW d \in DependenciesOf(n)
          PROVE  Resolved(state'.out, state'.skipped, d)
      <4>1. node[n] = "completed" /\ d \in Nodes
        BY <2>3, <3>1, EdgeOfDependency
      <4>2. node[d] \in {"completed", "skipped"}
        BY <4>1 DEF RecordInv, CurrentInputs
      <4> QED BY <2>3, <2>4, <4>1, <4>2 DEF Resolved
    <3> QED BY <2>1, <2>2, <2>3, <3>1 DEF Recorded, InputsSettled
  <2>6. JoinRespected' /\ CurrentInputs'
    BY <2>1 DEF RecordInv, JoinRespected, CurrentInputs, Lets
  <2> QED BY <2>1, <2>2, <2>4, <2>5, <2>6 DEF RecordInv, Looping, Places
<1>3. CASE ResumeFinished
  <2>1. UNCHANGED <<node, payload, tries, basis>> /\ pc' = "closing" /\ dirty' = {}
    BY <1>3 DEF ResumeFinished, Return, Forget, history
  <2>2. JoinRespected' /\ CurrentInputs'
    BY <2>1 DEF RecordInv, JoinRespected, CurrentInputs, Lets
  <2> QED BY <2>1, <2>2 DEF RecordInv, Looping, Places
<1> QED BY <1>1, <1>2, <1>3


(* A run that ends.                                                        *)
LEMMA RecordFinish ==
  ASSUME TypeOK, SettledInv, RecordInv,
         FinishCancelled \/ FinishCompleted \/ PauseForApproval \/ FinishFailed
  PROVE  RecordInv'
<1>1. /\ pc \in Looping /\ pc' = "closing" /\ dirty' = {}
      /\ UNCHANGED <<payload, tries, basis>>
  BY DEF FinishCancelled, FinishCompleted, PauseForApproval, FinishFailed, Return, Forget,
         history, Looping, Places
<1>2. PICK new : /\ \A n \in Nodes : node'[n] = IF new[n] # Entity(n) THEN new[n] ELSE Own(n)
                 /\ Leaves({}, new)
  <2>1. CASE FinishCancelled
    <3> DEFINE new == Setting({n \in Nodes : Own(n) \in {"waiting", "running", "awaiting_approval"}},
                              "cancelled")
    <3>1. \A n \in Nodes : node'[n] = IF new[n] # Entity(n) THEN new[n] ELSE Own(n)
      BY <2>1 DEF FinishCancelled, Commit
    <3>2. \A n \in Nodes : Resolved(state.out, state.skipped, n)
                             => Own(n) \notin {"waiting", "running", "awaiting_approval"}
      BY <1>1, ResultInMemory DEF Resolved
    <3>3. Leaves({}, new)
      BY <3>2 DEF Leaves, Setting
    <3> QED BY <3>1, <3>3
  <2>2. CASE FinishCompleted \/ FinishFailed
    <3>1. Leaves({}, Entities)
      BY DEF Leaves, Entities
    <3>2. \A n \in Nodes : node'[n] = IF Entities[n] # Entity(n) THEN Entities[n] ELSE Own(n)
      BY <2>2 DEF FinishCompleted, FinishFailed, Commit
    <3> QED BY <3>1, <3>2
  <2>3. CASE PauseForApproval
    <3>1. \A n \in Nodes : node'[n] = IF Partitioned[n] # Entity(n) THEN Partitioned[n] ELSE Own(n)
      BY <2>3 DEF PauseForApproval, Commit
    <3> QED BY <3>1, PartitionLeaves
  <2> QED BY <2>1, <2>2, <2>3
<1>3. Closed({})
  BY DEF Closed
<1>4. /\ JoinRespected' /\ CurrentInputs'
      /\ \A n \in Nodes : node'[n] = "completed" => payload'[n] # NoPayload
  BY <1>1, <1>2, <1>3, RowsCommitted
<1> QED BY <1>1, <1>4 DEF RecordInv, Looping, Places

(* Steps that touch neither rows nor memory.                               *)
LEMMA RecordIdle ==
  ASSUME TypeOK, SettledInv, RecordInv, PassCheck \/ RouteNothing \/ Close
  PROVE  RecordInv'
<1>1. UNCHANGED <<node, payload, tries, basis, mine, dirty, state, batch>>
  BY DEF PassCheck, RouteNothing, Close, rows, session, memory, history
<1>2. \/ pc = "check" /\ pc' = "schedule"
      \/ pc = "routing" /\ pc' = "check"
      \/ pc = "closing" /\ pc' = "none"
  BY DEF PassCheck, RouteNothing, Close
<1>3. \A n \in Nodes : Recorded(n)' = Recorded(n)
  BY <1>1 DEF Recorded, InputsSettled, Own
<1>4. JoinRespected' /\ CurrentInputs'
  BY <1>1 DEF RecordInv, JoinRespected, CurrentInputs, Lets
<1> QED BY <1>1, <1>2, <1>3, <1>4 DEF RecordInv, Looping, Places


(* What a pass leaves runnable stays so when the others are skipped.       *)
LEMMA AllowedRunnable ==
  ASSUME state'.out = state.out, state'.skipped = state.skipped \cup LeftOut,
         NEW n \in Allowed
  PROVE  /\ n \in Nodes /\ ~Resolved(state'.out, state'.skipped, n)
         /\ InputsSettled(n)' /\ JoinSatisfied(n, state'.out, state'.skipped)
<1>1. /\ n \in Nodes /\ n \notin LeftOut /\ ~Resolved(state.out, state.skipped, n)
      /\ InputsSettled(n) /\ JoinSatisfied(n, state.out, state.skipped)
  BY DEF Allowed, LeftOut, Runnable, NotNeeded, Ready, ReadyNodes, InputsSettled
<1>2. \A d \in LeftOut : ~Resolved(state.out, state.skipped, d)
  BY DEF LeftOut, NotNeeded, Refused, Runnable, Ready, ReadyNodes
<1>3. \A d \in DependenciesOf(n) : d \notin LeftOut
  BY <1>1, <1>2 DEF InputsSettled
<1>4. \A e \in Incoming(n) : EdgeSatisfied(e, state'.out, state'.skipped)
                               = EdgeSatisfied(e, state.out, state.skipped)
  BY <1>3 DEF EdgeSatisfied, DependenciesOf
<1>5. JoinSatisfied(n, state'.out, state'.skipped)
  BY <1>1, <1>4 DEF JoinSatisfied
<1> QED BY <1>1, <1>5 DEF Resolved, InputsSettled

LEMMA RecordLoop ==
  ASSUME TypeOK, SettledInv, RecordInv, SettleSkips \/ Prepare \/ Dispatch
  PROVE  RecordInv'
<1>0. Closed({})
  BY DEF Closed
<1>1. CASE SettleSkips
  <2>1. /\ pc \in Looping /\ pc' = "check" /\ kind' = kind /\ dirty' = {}
        /\ UNCHANGED <<payload, tries, basis>>
        /\ \A n \in Nodes : node'[n] = IF Partitioned[n] # Entity(n) THEN Partitioned[n]
                                       ELSE Own(n)
    BY <1>1 DEF SettleSkips, Commit, KeepSession, history, Looping, Places
  <2>2. /\ state'.out = state.out /\ state'.used = state.used
        /\ state'.skipped = state.skipped \cup LeftOut
    BY <1>1 DEF SettleSkips, TypeOK, WorkflowRun
  <2>3. Moved(Partitioned)
    BY <1>1, PartitionedType, CommitMoves DEF SettleSkips
  <2>4. \A n \in Nodes : Recorded(n)'
    BY <1>0, <2>1, <2>2, <2>3, PartitionLeaves, MemoryKept
  <2>5. /\ JoinRespected' /\ CurrentInputs'
        /\ \A n \in Nodes : node'[n] = "completed" => payload'[n] # NoPayload
    BY <1>0, <2>1, PartitionLeaves, RowsCommitted
  <2> QED BY <2>1, <2>4, <2>5 DEF RecordInv, Looping, Places
<1>2. CASE Prepare
  <2>1. /\ pc \in Looping /\ pc' = "preparing" /\ kind' = kind /\ batch' = Allowed
        /\ UNCHANGED <<node, payload, tries, basis>>
        /\ mine' = Partitioned
        /\ dirty' = dirty \cup {n \in Nodes : Partitioned[n] # Entity(n)}
    BY <1>2 DEF Prepare, StageNodes, rows, history, Looping, Places
  <2>2. /\ state'.out = state.out /\ state'.used = state.used
        /\ state'.skipped = state.skipped \cup LeftOut
    BY <1>2 DEF Prepare, TypeOK, WorkflowRun
  <2>3. Moved(Partitioned)
    BY <1>2, PartitionedType, StageMoves DEF Prepare
  <2>4. \A n \in Nodes : Recorded(n)'
    BY <1>0, <2>1, <2>2, <2>3, PartitionLeaves, MemoryKept
  <2>5. ASSUME NEW n \in dirty' PROVE node'[n] # "completed" /\ mine'[n] # "completed"
    <3>1. n \in Nodes
      BY <2>1 DEF TypeOK
    <3>2. CASE n \in dirty
      <4>1. node[n] # "completed" /\ mine[n] # "completed" /\ Own(n) = mine[n]
        BY <3>2 DEF RecordInv, Own
      <4>2. Entity(n) # "completed"
        BY <4>1 DEF Entity
      <4> QED BY <2>1, <3>1, <4>1, <4>2, PartitionLeaves DEF Leaves
    <3>3. CASE Partitioned[n] # Entity(n)
      <4>1. ~Resolved(state.out, state.skipped, n) /\ Partitioned[n] # "completed"
        BY <3>1, <3>3, PartitionLeaves DEF Leaves, Partitioned
      <4> QED BY <2>1, <3>1, <4>1, ResultInMemory DEF Resolved
    <3> QED BY <2>1, <3>2, <3>3
  <2>6. JoinRespected' /\ CurrentInputs'
    BY <2>1 DEF RecordInv, JoinRespected, CurrentInputs, Lets
  <2>7. \A n \in batch' : /\ ~Resolved(state'.out, state'.skipped, n)
                          /\ InputsSettled(n)' /\ JoinSatisfied(n, state'.out, state'.skipped)
    BY <2>1, <2>2, AllowedRunnable
  <2> QED BY <2>1, <2>4, <2>5, <2>6, <2>7 DEF RecordInv, Looping, Places
<1>3. CASE Dispatch
  <2>1. /\ pc = "preparing" /\ pc' = "calling" /\ kind' = kind /\ dirty' = {}
        /\ UNCHANGED <<payload, tries, basis, state, batch>>
        /\ \A n \in Nodes : node'[n] = IF Entities[n] # Entity(n) THEN Entities[n] ELSE Own(n)
    BY <1>3 DEF Dispatch, Commit, KeepSession, memory, history
  <2>2. Leaves({}, Entities)
    BY DEF Leaves, Entities
  <2>3. Moved(Entities)
    BY <1>3, EntitiesType, CommitMoves DEF Dispatch
  <2>4. pc \in Looping
    BY <2>1 DEF Looping, Places
  <2>5. \A n \in Nodes : Recorded(n)'
    BY <1>0, <2>1, <2>2, <2>3, <2>4, MemoryKept
  <2>6. /\ JoinRespected' /\ CurrentInputs'
        /\ \A n \in Nodes : node'[n] = "completed" => payload'[n] # NoPayload
    BY <1>0, <2>1, <2>2, <2>4, RowsCommitted
  <2>7. \A n \in batch : InputsSettled(n)' = InputsSettled(n)
    BY <2>1 DEF InputsSettled
  <2> QED BY <2>1, <2>5, <2>6, <2>7 DEF RecordInv, Looping, Places
<1> QED BY <1>1, <1>2, <1>3

(* Steps sent back: they and all that follows them lose their results.     *)
LEMMA RecordRoute == ASSUME TypeOK, SettledInv, RecordInv, RouteFeedback PROVE RecordInv'
<1>1. PICK v \in FirstVerdict : RouteFeedback!2!(v)
  BY DEF RouteFeedback
<1> DEFINE t   == Feedback[v]
           new == Setting(Reopened(t), "waiting")
<1>2. t \in Nodes
  BY PlanAssumption DEF FirstVerdict, Verdicts
<1>3. /\ pc \in Looping /\ pc' = "check" /\ kind' = kind /\ dirty' = {}
      /\ UNCHANGED <<tries, basis>>
      /\ \A n \in Nodes : node'[n] = IF new[n] # Entity(n) THEN new[n] ELSE Own(n)
      /\ \A n \in Nodes \ Reopened(t) : payload'[n] = payload[n]
  BY <1>1 DEF RouteFeedback, Commit, KeepSession, Looping, Places
<1>4. /\ state'.skipped = state.skipped \ Reopened(t) /\ state'.used = state.used
      /\ \A n \in Nodes : state'.out[n] = IF n \in Reopened(t) THEN NoPayload
                                          ELSE state.out[n]
  BY <1>1 DEF SentBack
<1>5. Closed(Reopened(t))
  BY <1>2, ReopenedClosed
<1>6. Leaves(Reopened(t), new)
  BY DEF Leaves, Setting
<1>7. Moved(new)
  <2>1. Commit(wf, new) /\ KeepSession(new)
    BY <1>1
  <2>2. new \in [Nodes -> NodeStatus]
    BY SettingType DEF NodeStatus
  <2> HIDE DEF new
  <2> QED BY <1>3, <2>1, <2>2, CommitMoves
<1> HIDE DEF new, t
<1>8. \A n \in Nodes : Recorded(n)'
  BY <1>3, <1>4, <1>5, <1>6, <1>7, MemoryKept
<1>9. /\ JoinRespected' /\ CurrentInputs'
      /\ \A n \in Nodes : node'[n] = "completed" => payload'[n] # NoPayload
  BY <1>3, <1>5, <1>6, RowsCommitted
<1> QED BY <1>3, <1>8, <1>9 DEF RecordInv, Looping, Places


(* A join that holds finds its dependencies among those that satisfy it.   *)
LEMMA JoinOfDependencies ==
  ASSUME NEW n \in Nodes, JoinSatisfied(n, state.out, state.skipped), NEW G,
         \A e \in Incoming(n) : EdgeSatisfied(e, state.out, state.skipped) => e[1] \in G
  PROVE  IF n \in AnyJoin /\ DependenciesOf(n) # {} THEN \E d \in DependenciesOf(n) : d \in G
                                                    ELSE \A d \in DependenciesOf(n) : d \in G
BY DEF JoinSatisfied, DependenciesOf

(* The answers of a batch are recorded: each member that answered was      *)
(* runnable when the batch was formed, and nothing it depends on is in it. *)
LEMMA RecordAnswers == ASSUME TypeOK, SettledInv, RecordInv, RecordBatch PROVE RecordInv'
<1>1. PICK result \in [batch -> Results], made \in [batch -> 1 .. MaxAttempts] :
        RecordBatch!2!(result, made)
  BY DEF RecordBatch
<1> DEFINE answered == {n \in batch : result[n] # NoPayload}
           new      == [n \in Nodes |-> IF n \in answered THEN "completed"
                                        ELSE IF n \in batch THEN "failed"
                                        ELSE Entity(n)]
<1>2. /\ pc = "calling" /\ pc \in Looping /\ pc' \in {"routing", "failing"} /\ kind' = kind
      /\ dirty' = {} /\ batch \in SUBSET Nodes
      /\ \A n \in Nodes : node'[n] = IF new[n] # Entity(n) THEN new[n] ELSE Own(n)
  BY <1>1 DEF RecordBatch, Commit, KeepSession, Looping, Places, TypeOK
<1>3. /\ state'.skipped = state.skipped
      /\ \A n \in Nodes : state'.out[n] = IF n \in answered THEN result[n] ELSE state.out[n]
      /\ \A n \in Nodes : payload'[n] = IF n \in answered THEN result[n] ELSE payload[n]
      /\ \A n \in Nodes : state'.used[n] = IF n \in batch THEN state.used[n] + made[n]
                                           ELSE state.used[n]
  BY <1>1 DEF TypeOK, WorkflowRun
<1>4. \A n \in Nodes : tries'[n] = IF n \in batch /\ state.used[n] + made[n] > tries[n]
                                   THEN state.used[n] + made[n] ELSE tries[n]
  BY <1>1
<1>5. /\ \A n \in Nodes : n \notin answered => basis'[n] = basis[n]
      /\ \A n \in answered : \A d \in Nodes :
           basis'[n][d] = IF d \in DependenciesOf(n) /\ d \notin state.skipped
                          THEN state.used[d] ELSE 0
  BY <1>1, <1>2
<1>6. \A n \in batch : /\ Entity(n) = "running" /\ ~Resolved(state.out, state.skipped, n)
                       /\ InputsSettled(n) /\ JoinSatisfied(n, state.out, state.skipped)
  BY <1>2 DEF SettledInv, RecordInv
<1>7. \A n \in Nodes : node'[n] = IF n \in answered THEN "completed"
                                  ELSE IF n \in batch THEN "failed" ELSE Own(n)
  BY <1>2, <1>6
<1>8. ASSUME NEW n \in Nodes, n \in batch PROVE tries'[n] = state'.used[n]
  <2>1. state.used[n] = tries[n] /\ tries[n] \in Nat
    BY <1>2 DEF RecordInv, Recorded, TypeOK
  <2>2. made[n] \in Nat /\ made[n] > 0
    BY <1>8, EngineAssumption
  <2> HIDE DEF answered, new
  <2> QED BY <1>3, <1>4, <1>8, <2>1, <2>2
<1>9. \A n \in Nodes : n \notin batch => tries'[n] = tries[n] /\ payload'[n] = payload[n]
                         /\ state'.out[n] = state.out[n] /\ state'.used[n] = state.used[n]
                         /\ basis'[n] = basis[n] /\ node'[n] = Own(n)
  BY <1>3, <1>4, <1>5, <1>7
<1>10. \A n \in answered : n \in Nodes /\ n \in batch /\ result[n] # NoPayload
  BY <1>2
<1> HIDE DEF answered, new
<1>11. \A n \in Nodes : Own(n)' = node'[n]
  BY <1>2 DEF Own
<1>12. \A n \in Nodes : n \in batch => Own(n) # "completed" /\ state.out[n] = NoPayload
  BY <1>2, <1>6, ResultInMemory DEF Resolved
<1>13. ASSUME NEW n \in Nodes, node'[n] = "completed"
       PROVE  InputsSettled(n) /\ (n \notin answered => n \notin batch /\ node[n] = "completed")
  <2>1. CASE n \in answered
    BY <1>6, <1>10, <2>1
  <2>2. CASE n \notin answered
    <3>1. n \notin batch /\ Own(n) = "completed"
      BY <1>7, <1>13, <2>2
    <3> QED BY <1>2, <2>2, <3>1, ResultInMemory DEF RecordInv, Recorded
  <2> QED BY <2>1, <2>2
<1>14. ASSUME NEW n \in Nodes, InputsSettled(n), NEW d \in DependenciesOf(n)
       PROVE  d \in Nodes /\ d \notin batch /\ Resolved(state.out, state.skipped, d)
  BY <1>6, <1>14, EdgeOfDependency DEF InputsSettled
<1>15. \A n \in Nodes : Recorded(n)'
  <2> SUFFICES ASSUME NEW n \in Nodes PROVE Recorded(n)'
    OBVIOUS
  <2>1. state'.out[n] = IF Own(n)' = "completed" THEN payload'[n] ELSE NoPayload
    <3>1. state.out[n] = IF Own(n) = "completed" THEN payload[n] ELSE NoPayload
      BY <1>2 DEF RecordInv, Recorded
    <3> QED BY <1>3, <1>7, <1>9, <1>11, <1>12, <3>1
  <2>2. state'.used[n] = tries'[n]
    BY <1>2, <1>8, <1>9 DEF RecordInv, Recorded
  <2>3. state'.out[n] # NoPayload => InputsSettled(n)'
    <3> SUFFICES ASSUME state'.out[n] # NoPayload, NEW d \in DependenciesOf(n)
                 PROVE  Resolved(state'.out, state'.skipped, d)
      BY DEF InputsSettled
    <3>1. node'[n] = "completed"
      BY <1>11, <2>1
    <3>2. d \in Nodes /\ d \notin batch /\ Resolved(state.out, state.skipped, d)
      BY <1>13, <1>14, <3>1
    <3> QED BY <1>3, <1>9, <3>2 DEF Resolved
  <2> QED BY <2>1, <2>2, <2>3 DEF Recorded
<1>16. JoinRespected'
  <2> SUFFICES ASSUME NEW n \in Nodes, node'[n] = "completed"
               PROVE  IF n \in AnyJoin /\ DependenciesOf(n) # {}
                        THEN \E d \in DependenciesOf(n) : Lets(d, n)'
                        ELSE \A d \in DependenciesOf(n) : Lets(d, n)'
    BY DEF JoinRespected
  <2>1. InputsSettled(n)
    BY <1>13
  <2>2. \A d \in DependenciesOf(n) :
          /\ d \in Nodes /\ node'[d] = Own(d) /\ payload'[d] = payload[d]
    BY <1>9, <1>14, <2>1
  <2>3. CASE n \in answered
    <3> DEFINE G == {d \in DependenciesOf(n) : Lets(d, n)'}
    <3>1. JoinSatisfied(n, state.out, state.skipped)
      BY <1>6, <1>10, <2>3
    <3>2. ASSUME NEW e \in Incoming(n), EdgeSatisfied(e, state.out, state.skipped)
          PROVE  e[1] \in G
      <4>1. e = <<e[1], n>> /\ e[1] \in DependenciesOf(n) /\ e[1] \in Nodes
        BY PlanAssumption DEF Incoming, DependenciesOf
      <4>2. state.out[e[1]] # NoPayload /\ state.out[e[1]] \in Holds[<<e[1], n>>]
        BY <3>2, <4>1 DEF EdgeSatisfied
      <4>3. Own(e[1]) = "completed" /\ payload[e[1]] = state.out[e[1]]
        BY <1>2, <4>1, <4>2, ResultInMemory
      <4> QED BY <2>2, <4>1, <4>2, <4>3 DEF Lets
    <3>3. IF n \in AnyJoin /\ DependenciesOf(n) # {} THEN \E d \in DependenciesOf(n) : d \in G
                                                     ELSE \A d \in DependenciesOf(n) : d \in G
      BY <3>1, <3>2, JoinOfDependencies
    <3> QED BY <3>3
  <2>4. CASE n \notin answered
    <3>1. node[n] = "completed"
      BY <1>13, <2>4
    <3>2. \A d \in DependenciesOf(n) : Lets(d, n) => Lets(d, n)'
      BY <1>2, <2>2, ResultInMemory DEF Lets
    <3> QED BY <3>1, <3>2 DEF RecordInv, JoinRespected
  <2> QED BY <2>3, <2>4
<1>17. CurrentInputs'
  <2> SUFFICES ASSUME NEW n \in Nodes, node'[n] = "completed", NEW d \in DependenciesOf(n)
               PROVE  \/ node'[d] = "completed" /\ basis'[n][d] = tries'[d]
                      \/ node'[d] = "skipped" /\ basis'[n][d] = 0
    BY DEF CurrentInputs
  <2>1. /\ d \in Nodes /\ d \notin batch /\ Resolved(state.out, state.skipped, d)
        /\ node'[d] = Own(d) /\ tries'[d] = tries[d]
    BY <1>9, <1>13, <1>14
  <2>2. CASE n \in answered
    <3>1. CASE d \in state.skipped
      BY <1>2, <1>5, <2>1, <2>2, <3>1, ResultInMemory
    <3>2. CASE d \notin state.skipped
      <4>1. Own(d) = "completed"
        BY <1>2, <2>1, <3>2, ResultInMemory DEF Resolved
      <4>2. state.used[d] = tries[d]
        BY <1>2, <2>1 DEF RecordInv, Recorded
      <4> QED BY <1>5, <2>1, <2>2, <3>2, <4>1, <4>2
    <3> QED BY <3>1, <3>2
  <2>3. CASE n \notin answered
    <3>1. node[n] = "completed" /\ basis'[n] = basis[n]
      BY <1>9, <1>13, <2>3
    <3>2. CASE node[d] = "completed" /\ basis[n][d] = tries[d]
      BY <1>2, <2>1, <3>1, <3>2, ResultInMemory
    <3>3. CASE node[d] = "skipped" /\ basis[n][d] = 0
      <4>1. Own(d) = "skipped"
        BY <1>2, <2>1, <3>1, <3>3, SkippedInMemory, ResultInMemory
      <4> QED BY <2>1, <3>1, <3>3, <4>1
    <3> QED BY <3>1, <3>2, <3>3 DEF RecordInv, CurrentInputs
  <2> QED BY <2>2, <2>3
<1>18. \A n \in Nodes : node'[n] = "completed" => payload'[n] # NoPayload
  BY <1>3, <1>9, <1>10, <1>13 DEF RecordInv
<1> QED BY <1>2, <1>15, <1>16, <1>17, <1>18 DEF RecordInv, Looping, Places


(* The rows justify their results still when none of them changes.         *)
LEMMA RowsUnchanged ==
  ASSUME RecordInv, UNCHANGED <<node, payload, tries, basis>>
  PROVE  /\ JoinRespected' /\ CurrentInputs'
         /\ \A n \in Nodes : node'[n] = "completed" => payload'[n] # NoPayload
BY DEF RecordInv, JoinRespected, CurrentInputs, Lets

LEMMA RecordEnvironment ==
  ASSUME TypeOK, SettledInv, RecordInv, Spawn \/ Environment
  PROVE  RecordInv'
<1>1. CASE Spawn
  <2>1. UNCHANGED <<node, payload, tries, basis, mine, dirty, state, batch>>
    BY <1>1 DEF Spawn, rows, session, memory, deeds, history
  <2>2. \/ UNCHANGED <<pc, kind>>
        \/ pc = "none" /\ pc' = "queued" /\ kind' = "resume"
    BY <1>1 DEF Spawn
  <2>3. \A n \in Nodes : Recorded(n)' = Recorded(n)
    BY <2>1 DEF Recorded, InputsSettled, Own
  <2>4. \A n \in Nodes : InputsSettled(n)' = InputsSettled(n)
    BY <2>1 DEF InputsSettled
  <2> QED
    BY <2>1, <2>2, <2>3, <2>4, RowsUnchanged DEF RecordInv, Looping, Places, TypeOK
<1>2. CASE RecordCrash
  <2>1. UNCHANGED <<node, payload, tries, basis>> /\ pc' = "closing" /\ dirty' = {}
    BY <1>2 DEF RecordCrash, Return, Forget, deeds, history
  <2> QED BY <2>1, RowsUnchanged DEF RecordInv, Looping, Places
<1>3. CASE Restart
  <2>1. UNCHANGED <<payload, tries, basis>> /\ pc' = "none" /\ dirty' = {}
    BY <1>3 DEF Restart, Forget, deeds, history
  <2>2. \A n \in Nodes : \/ node'[n] = node[n]
                         \/ node[n] = "running" /\ node'[n] = "cancelled"
    BY <1>3 DEF Restart
  <2>3. JoinRespected' /\ CurrentInputs'
    <3>1. Closed({}) /\ JoinRespected /\ CurrentInputs
      BY DEF Closed, RecordInv
    <3>2. \A n \in Nodes : /\ payload'[n] = payload[n]
                           /\ (node'[n] = "completed") = (node[n] = "completed")
                           /\ node[n] = "skipped" => node'[n] = "skipped"
      BY <2>1, <2>2
    <3> QED BY <2>1, <3>1, <3>2, RowsKept, EdgeOfDependency
  <2> QED BY <2>1, <2>2, <2>3 DEF RecordInv, Looping, Places
<1> QED BY <1>1, <1>2, <1>3 DEF Environment

(* A control completes nothing, takes a result only from what a retried    *)
(* step reopens, and never while a run is live.                            *)
LEMMA RecordOperator == ASSUME TypeOK, SettledInv, RecordInv, Operator PROVE RecordInv'
<1>1. UNCHANGED <<wf, pc, kind, mine, dirty, state, batch, tries, basis>>
  BY DEF Operator, RequestCancellation, ResumeWorkflow, ApproveNode, RejectNode, SkipNode,
         RetryNode, Control, Request, session, memory, history
<1>2. \A n \in Nodes : InputsSettled(n)' = InputsSettled(n)
  BY <1>1 DEF InputsSettled
<1>3. JoinRespected /\ CurrentInputs
  BY DEF RecordInv
<1>4. CASE RequestCancellation \/ ResumeWorkflow
  <2>1. UNCHANGED <<node, payload>>
    BY <1>4 DEF RequestCancellation, ResumeWorkflow
  <2>2. \A n \in Nodes : Recorded(n)' = Recorded(n)
    BY <1>1, <1>2, <2>1 DEF Recorded, Own
  <2> QED BY <1>1, <1>2, <2>1, <2>2, RowsUnchanged DEF RecordInv, TypeOK
<1>5. ASSUME NEW n \in Nodes, ApproveNode(n) \/ RejectNode(n) \/ SkipNode(n)
      PROVE  RecordInv'
  <2>1. /\ UNCHANGED payload
        /\ node[n] \in {"waiting", "failed", "awaiting_approval"}
        /\ node'[n] \in {"waiting", "skipped"}
        /\ \A m \in Nodes : m # n => node'[m] = node[m]
    BY <1>5 DEF ApproveNode, RejectNode, SkipNode, TypeOK
  <2>2. \A m \in Nodes : /\ (node'[m] = "completed") = (node[m] = "completed")
                         /\ node[m] = "skipped" => node'[m] = "skipped"
    BY <2>1
  <2>3. \A m \in Nodes : Recorded(m) => Recorded(m)'
    <3>1. \A m \in Nodes : (Own(m)' = "completed") = (Own(m) = "completed")
      BY <1>1, <2>2 DEF Own
    <3> QED BY <1>1, <1>2, <2>1, <3>1 DEF Recorded
  <2>4. JoinRespected' /\ CurrentInputs'
    <3>1. Closed({})
      BY DEF Closed
    <3> QED BY <1>1, <1>3, <2>1, <2>2, <3>1, RowsKept, EdgeOfDependency
  <2> QED BY <1>1, <1>2, <2>1, <2>2, <2>3, <2>4 DEF RecordInv, TypeOK
<1>6. ASSUME NEW n \in Nodes, RetryNode(n) PROVE RecordInv'
  <2>1. /\ node[n] = "failed" /\ n \notin dirty /\ wf # "running"
        /\ \A m \in Nodes : node'[m] = IF m \in Reopened(n) THEN "waiting" ELSE node[m]
        /\ \A m \in Nodes : m \notin Reopened(n) => payload'[m] = payload[m]
    BY <1>6 DEF RetryNode, Control
  <2>2. pc \notin Looping
    BY <2>1 DEF SettledInv, Faithful, Own
  <2>3. JoinRespected' /\ CurrentInputs'
    <3>1. Closed(Reopened(n))
      BY ReopenedClosed
    <3>2. \A m \in Nodes : \A d \in DependenciesOf(m) :
            node[m] = "completed" /\ m \notin Reopened(n) /\ node[d] = "skipped"
              => node'[d] = "skipped"
      BY <2>1, <3>1, OutsideClosed
    <3> QED BY <1>1, <1>3, <2>1, <3>1, <3>2, RowsKept
  <2>4. \A m \in Nodes : node'[m] = "completed" => node[m] = "completed" /\ payload'[m] = payload[m]
    BY <2>1
  <2> QED BY <1>1, <2>2, <2>3, <2>4 DEF RecordInv, Looping, Places
<1> QED BY <1>4, <1>5, <1>6 DEF Operator

LEMMA RecordStep == ASSUME TypeOK, SettledInv, RecordInv, [Next]_vars PROVE RecordInv'
<1>1. CASE Engine
  BY <1>1, RecordStart, RecordFinish, RecordIdle, RecordLoop, RecordAnswers, RecordRoute
     DEF Engine
<1>2. CASE Spawn \/ Environment
  BY <1>2, RecordEnvironment
<1>3. CASE Operator
  BY <1>3, RecordOperator
<1>4. CASE UNCHANGED vars
  <2>1. UNCHANGED <<node, payload, tries, basis, pc, kind, mine, dirty, state, batch>>
    BY <1>4 DEF vars, rows, session, memory, history
  <2>2. \A n \in Nodes : Recorded(n)' = Recorded(n) /\ InputsSettled(n)' = InputsSettled(n)
    BY <2>1 DEF Recorded, InputsSettled, Own
  <2> QED BY <2>1, <2>2, RowsUnchanged DEF RecordInv, TypeOK
<1> QED BY <1>1, <1>2, <1>3, <1>4 DEF Next

LEMMA RecordInvariant == Spec => []RecordInv
BY RecordInit, RecordStep, SettledInvariant, TypeCorrect, PTL DEF Spec

(* No result on record is one its join would refuse, for any plan,         *)
(* conditions and answers, and through every repair, retry and resume      *)
(* (_skip_reason, _route_feedback, retry_node).                            *)
THEOREM JoinsRespected == Spec => []JoinRespected
<1>1. RecordInv => JoinRespected
  BY DEF RecordInv
<1> QED BY <1>1, RecordInvariant, PTL

(* No result on record was computed from an answer that has been           *)
(* superseded: _route_feedback and retry_node reopen all that follows.     *)
THEOREM InputsCurrent == Spec => []CurrentInputs
<1>1. RecordInv => CurrentInputs
  BY DEF RecordInv
<1> QED BY <1>1, RecordInvariant, PTL

(* What the engine schedules from is what the rows of its transaction say, *)
(* however it was restored (restore_run, completed_state).                 *)
THEOREM MemoryAgreesAlways == Spec => []MemoryAgrees
<1>1. SettledInv /\ RecordInv => MemoryAgrees
  BY DEF SettledInv, RecordInv, MemoryAgrees, Faithful, Recorded
<1> QED BY <1>1, SettledInvariant, RecordInvariant, PTL

-----------------------------------------------------------------------------
(* Completed work is paid for once.                                        *)

LEMMA ResultKept ==
  ASSUME SettledInv, RecordInv, pc \in Looping, NEW new, NEW R, Leaves(R, new),
         NEW n \in Nodes, n \notin R, node[n] = "completed",
         node'[n] = IF new[n] # Entity(n) THEN new[n] ELSE Own(n)
  PROVE  node'[n] = "completed"
BY ResultInMemory DEF Leaves, Resolved

LEMMA EngineKeepsResults ==
  ASSUME TypeOK, SettledInv, RecordInv, Engine, ~RouteFeedback,
         NEW n \in Nodes, node[n] = "completed"
  PROVE  node'[n] = "completed"
<1>1. CASE \/ StartExecute \/ StartResume \/ ResumeFinished \/ PassCheck \/ Prepare
           \/ RouteNothing \/ Close
  BY <1>1 DEF StartExecute, StartResume, ResumeFinished, PassCheck, Prepare, StageNodes,
              RouteNothing, Close, rows
<1>2. CASE SettleSkips \/ PauseForApproval
  <2>1. /\ pc \in Looping
        /\ node'[n] = IF Partitioned[n] # Entity(n) THEN Partitioned[n] ELSE Own(n)
    BY <1>2 DEF SettleSkips, PauseForApproval, Commit, Looping, Places
  <2> QED BY <2>1, PartitionLeaves, ResultKept
<1>3. CASE FinishCompleted \/ FinishFailed \/ Dispatch
  <2>1. pc \in Looping /\ node'[n] = Own(n)
    BY <1>3 DEF FinishCompleted, FinishFailed, Dispatch, Commit, Entities, Looping, Places
  <2> QED BY <2>1, ResultInMemory
<1>4. CASE FinishCancelled
  <2>1. /\ pc \in Looping
        /\ Own(n) \notin {"waiting", "running", "awaiting_approval"} => node'[n] = Own(n)
    BY <1>4 DEF FinishCancelled, Commit, Setting, Looping, Places
  <2> QED BY <2>1, ResultInMemory
<1>5. CASE RecordBatch
  <2>1. PICK result \in [batch -> Results], made \in [batch -> 1 .. MaxAttempts] :
          RecordBatch!2!(result, made)
    BY <1>5 DEF RecordBatch
  <2>2. pc = "calling" /\ pc \in Looping
    BY <1>5 DEF RecordBatch, Looping, Places
  <2>3. Own(n) = "completed" /\ Entity(n) = "completed"
    BY <2>2, ResultInMemory
  <2>4. n \notin batch
    BY <2>2, <2>3 DEF SettledInv
  <2> QED BY <2>1, <2>3, <2>4 DEF Commit
<1> QED BY <1>1, <1>2, <1>3, <1>4, <1>5 DEF Engine

(* A verdict that sends work back is on record.                            *)
LEMMA VerdictOnRecord ==
  ASSUME SettledInv, RecordInv, pc \in Looping, NEW v \in FirstVerdict
  PROVE  /\ v \in Nodes /\ Feedback[v] \in Nodes
         /\ node[v] = "completed" /\ payload[v] \in Fires[v]
<1>1. v \in Nodes /\ Feedback[v] \in Nodes /\ state.out[v] \in Fires[v]
  BY PlanAssumption DEF FirstVerdict, Verdicts
<1>2. state.out[v] # NoPayload
  BY <1>1, PlanAssumption
<1> QED BY <1>1, <1>2, ResultInMemory

(* No resume, crash, restart or cancellation has a step done again whose   *)
(* result is on record: only a verdict on record and an operator's retry   *)
(* of a failed step upstream do ("no work is paid for twice", resume()).   *)
THEOREM PaidOnceAlways == Spec => PaidOnce
<1> DEFINE A == \A n \in Nodes : (node[n] = "completed" /\ node'[n] # "completed") =>
                  node'[n] = "waiting" /\ (SentBackByVerdict(n) \/ ReopenedByRetry(n))
<1>1. TypeOK /\ SettledInv /\ RecordInv /\ [Next]_vars => [A]_vars
  <2> SUFFICES ASSUME TypeOK, SettledInv, RecordInv, Next,
                      NEW n \in Nodes, node[n] = "completed", node'[n] # "completed"
               PROVE  node'[n] = "waiting" /\ (SentBackByVerdict(n) \/ ReopenedByRetry(n))
    OBVIOUS
  <2>1. CASE RouteFeedback
    <3>1. PICK v \in FirstVerdict : RouteFeedback!2!(v)
      BY <2>1 DEF RouteFeedback
    <3> DEFINE R == Reopened(Feedback[v])
               new == Setting(R, "waiting")
    <3>2. pc \in Looping
      BY <2>1 DEF RouteFeedback, Looping, Places
    <3>3. node'[n] = IF new[n] # Entity(n) THEN new[n] ELSE Own(n)
      BY <3>1 DEF Commit
    <3>4. Leaves(R, new)
      BY DEF Leaves, Setting
    <3>5. n \in R
      BY <3>2, <3>3, <3>4, ResultKept
    <3>6. Own(n) = "completed"
      BY <3>2, ResultInMemory
    <3>7. new[n] = "waiting"
      BY <3>5 DEF Setting
    <3>8. node'[n] = "waiting"
      BY <3>3, <3>6, <3>7
    <3>9. SentBackByVerdict(n)
      BY <3>2, <3>5, VerdictOnRecord, PlanAssumption DEF SentBackByVerdict
    <3> QED BY <3>8, <3>9
  <2>2. CASE Engine /\ ~RouteFeedback
    BY <2>2, EngineKeepsResults
  <2>3. CASE Spawn \/ RecordCrash \/ Restart
    BY <2>3 DEF Spawn, RecordCrash, Restart, rows
  <2>4. CASE RequestCancellation \/ ResumeWorkflow
    BY <2>4 DEF RequestCancellation, ResumeWorkflow
  <2>5. ASSUME NEW m \in Nodes, ApproveNode(m) \/ RejectNode(m) \/ SkipNode(m) PROVE FALSE
    BY <2>5 DEF ApproveNode, RejectNode, SkipNode, TypeOK
  <2>6. ASSUME NEW f \in Nodes, RetryNode(f)
        PROVE  node'[n] = "waiting" /\ ReopenedByRetry(n)
    <3>1. /\ node[f] = "failed"
          /\ \A m \in Nodes : node'[m] = IF m \in Reopened(f) THEN "waiting" ELSE node[m]
      BY <2>6 DEF RetryNode
    <3>2. n \in DescendantsOf[f] /\ node'[n] = "waiting" /\ node'[f] = "waiting"
      BY <3>1 DEF Reopened
    <3> QED BY <3>1, <3>2 DEF ReopenedByRetry
  <2> QED BY <2>1, <2>2, <2>3, <2>4, <2>5, <2>6 DEF Next, Environment, Operator
<1> QED BY <1>1, SettledInvariant, RecordInvariant, TypeCorrect, PTL DEF Spec, PaidOnce
=============================================================================
