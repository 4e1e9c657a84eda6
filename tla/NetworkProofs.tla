--------------------------- MODULE NetworkProofs ----------------------------
(***************************************************************************)
(* What holds of every plan and every exchange of mail: proofs about       *)
(* module AgentNetwork.                                                    *)
(***************************************************************************)
EXTENDS NetworkProperties, WorkflowProofs

(* The network only watches the workflow.                                  *)
LEMMA NetworkStep == ASSUME [NetworkNext]_netVars PROVE [Next]_vars
<1>1. CASE NetworkNext
  BY <1>1
     DEF NetworkNext, Quiet, SettleSkipsNet, PauseForApprovalNet, PrepareNet, PrepareNode,
         DispatchNet, RecordBatchNet, RouteFeedbackNet, FinishFailedNet, FinishCompletedNet,
         CloseNet, CrashNet, RestartNet, Outsider, SendMessage, Broadcast,
         AcknowledgeMessage, CompleteMessage, RespondToMessage, Outside, OtherRun,
         Next, Engine, Environment
<1>2. CASE UNCHANGED netVars
  BY <1>2 DEF netVars
<1> QED BY <1>1, <1>2

(* The workflow beside the network is the workflow of WorkflowEngine.      *)
THEOREM NetworkRunsWorkflow == NetworkSpec => Spec
<1>1. NetworkInit => Init
  BY DEF NetworkInit
<1>2. [NetworkNext]_netVars => [Next]_vars
  BY NetworkStep
<1> QED BY <1>1, <1>2, PTL DEF NetworkSpec, Spec

-----------------------------------------------------------------------------
(* What the writes of a transaction do to the desks.                       *)

LEMMA SendTx ==
  ASSUME NEW tx, IsTx(tx), NEW S
  PROVE  IsTx(Send(tx, S)) /\ Send(tx, S).presence = tx.presence
BY DEF IsTx, Send

LEMMA SetStatusTx ==
  ASSUME NEW tx, IsTx(tx), NEW M, NEW status
  PROVE  IsTx(SetStatus(tx, M, status)) /\ SetStatus(tx, M, status).presence = tx.presence
BY DEF IsTx, SetStatus

LEMMA RespondTx ==
  ASSUME NEW tx, IsTx(tx), NEW M
  PROVE  IsTx(Respond(tx, M)) /\ Respond(tx, M).presence = tx.presence
BY SendTx, SetStatusTx DEF Respond

LEMMA LogTx ==
  ASSUME NEW tx, IsTx(tx), NEW type, NEW N
  PROVE  IsTx(Log(tx, type, N)) /\ Log(tx, type, N).presence = tx.presence
BY DEF IsTx, Log

LEMMA NoTxTx == IsTx(NoTx) /\ DOMAIN NoTx.presence = {}
BY DEF IsTx, NoTx

LEMMA ShowTx ==
  ASSUME NEW tx, IsTx(tx), NEW N, NEW status
  PROVE  /\ IsTx(Show(tx, N, status))
         /\ DOMAIN Show(tx, N, status).presence = N \cup DOMAIN tx.presence
         /\ \A n : DeskIn(Show(tx, N, status), n)
                     = IF n \in N THEN status ELSE DeskIn(tx, n)
         /\ \A n : n \notin N => AtWork(Show(tx, N, status), n) = AtWork(tx, n)
<1>1. Show(tx, N, status).presence = Over([n \in N |-> status], tx.presence)
  BY DEF Show, IsTx
<1>2. Over([n \in N |-> status], tx.presence)
        = [n \in N \cup DOMAIN tx.presence |-> IF n \in N THEN status ELSE tx.presence[n]]
  BY DEF Over, IsTx
<1>3. IsTx(Show(tx, N, status))
  BY <1>1, <1>2 DEF Show, IsTx
<1>4. \A n : DeskIn(Show(tx, N, status), n) = IF n \in N THEN status ELSE DeskIn(tx, n)
  BY <1>1, <1>2 DEF DeskIn
<1> QED BY <1>1, <1>2, <1>3, <1>4 DEF AtWork

LEMMA SameWork ==
  ASSUME NEW tx, NEW tx2, tx2.presence = tx.presence
  PROVE  \A n : AtWork(tx2, n) = AtWork(tx, n)
BY DEF AtWork, DeskIn

-----------------------------------------------------------------------------
(* Desks follow statuses.                                                  *)

LEMMA CommitPresence ==
  ASSUME ShownInv, NEW tx, IsTx(tx), DOMAIN tx.presence \subseteq Nodes,
         NEW next, CommitThen(tx, next)
  PROVE  /\ presence' = [n \in Nodes |-> presence'[n]]
         /\ \A n \in Nodes : presence'[n] = DeskIn(tx, n)
         /\ \A n \in Nodes : AtWork(tx, n) => presence'[n] = "working" \/ n \in elsewhere'
<1>1. presence' = [n \in DOMAIN tx.presence \cup DOMAIN presence |->
                    IF n \in DOMAIN tx.presence THEN tx.presence[n] ELSE presence[n]]
  BY DEF CommitThen, Over
<1>2. DOMAIN presence = Nodes
  BY DEF ShownInv
<1>3. elsewhere' = elsewhere \ DOMAIN tx.presence
  BY DEF CommitThen
<1>4. \A n \in Nodes : presence'[n] = DeskIn(tx, n)
  BY <1>1, <1>2 DEF DeskIn
<1> QED BY <1>1, <1>2, <1>3, <1>4 DEF AtWork

(* A commit of the statuses new keeps the invariant if it starts no step   *)
(* and the transaction tx, committed with it, shows at work what it leaves *)
(* running.                                                                *)
LEMMA CommitShown ==
  ASSUME TypeOK, ShownInv, pc \in Looping,
         NEW status, NEW new \in [Nodes -> NodeStatus], Commit(status, new),
         (KeepSession(new) /\ kind' = kind) \/ (Forget /\ pc' = "closing"),
         NEW tx, IsTx(tx), DOMAIN tx.presence \subseteq Nodes,
         NEW next, IsTx(next), DOMAIN next.presence \subseteq Nodes,
         CommitThen(tx, next),
         pc' # "preparing",
         pc' # "calling" => prepared' = {},
         \A n \in Nodes : new[n] = "running" /\ Own(n) = "running" => AtWork(tx, n),
         \A n \in Nodes : new[n] = "running" => Entity(n) = "running",
         \A n \in DOMAIN next.presence : new[n] # "running"
  PROVE  ShownInv'
<1>1. /\ presence' = [n \in Nodes |-> presence'[n]]
      /\ \A n \in Nodes : AtWork(tx, n) => presence'[n] = "working" \/ n \in elsewhere'
  BY CommitPresence
<1>2. own' = next
  BY DEF CommitThen
<1>3. IsTx(own)' /\ DOMAIN own'.presence \subseteq Nodes
  BY <1>2 DEF IsTx
<1>4. \A n \in Nodes : node'[n] = IF new[n] # Entity(n) THEN new[n] ELSE Own(n)
  BY DEF Commit
<1>5. \A n \in Nodes : Own(n) = "running" => Entity(n) = "running"
  BY DEF ShownInv
<1>6. \A n \in Nodes : node'[n] = "running" => new[n] = "running" /\ Own(n) = "running"
  BY <1>4, <1>5
<1>7. RunningIsShown'
  BY <1>1, <1>6 DEF RunningIsShown
<1>8. dirty' = {}
  BY DEF KeepSession, Forget
<1>9. \A n \in Nodes : Own(n)' = node'[n]
  BY <1>8 DEF Own
<1>10. pc' \in Looping => \A n \in Nodes : Own(n)' = "running" => Entity(n)' = "running"
  <2> SUFFICES ASSUME pc' \in Looping, NEW n \in Nodes, Own(n)' = "running"
               PROVE  Entity(n)' = "running"
    OBVIOUS
  <2>1. KeepSession(new) /\ kind' = kind
    BY DEF Looping
  <2>2. new[n] = "running"
    BY <1>6, <1>9
  <2> QED BY <2>1, <2>2 DEF KeepSession, Entity
<1>11. \A n \in Nodes : Own(n)' = "running" => AtWork(own, n)'
  <2> SUFFICES ASSUME NEW n \in Nodes, Own(n)' = "running" PROVE AtWork(own, n)'
    OBVIOUS
  <2>1. presence'[n] = "working" \/ n \in elsewhere'
    BY <1>7, <1>9 DEF RunningIsShown
  <2>2. n \notin DOMAIN own'.presence
    BY <1>2, <1>6, <1>9
  <2> QED BY <2>1, <2>2 DEF AtWork, DeskIn
<1>12. pc' \notin {"preparing", "calling"} => prepared' = {}
  OBVIOUS
<1> QED BY <1>1, <1>3, <1>7, <1>8, <1>10, <1>11, <1>12 DEF ShownInv

(* What _resolve_skips says of the steps it leaves out.                    *)
LEMMA SkipsTx ==
  ASSUME TypeOK, ShownInv
  PROVE  /\ IsTx(SkipsTold)
         /\ DOMAIN SkipsTold.presence \subseteq Nodes
         /\ \A n : n \notin NotNeeded => AtWork(SkipsTold, n) = AtWork(own, n)
<1> DEFINE desk == Show(own, NotNeeded, "idle")
<1>1. IsTx(own) /\ DOMAIN own.presence \subseteq Nodes /\ NotNeeded \subseteq Nodes
  BY DEF ShownInv, NotNeeded, Ready, ReadyNodes
<1>2. /\ IsTx(desk)
      /\ DOMAIN desk.presence = NotNeeded \cup DOMAIN own.presence
      /\ \A n : n \notin NotNeeded => AtWork(desk, n) = AtWork(own, n)
  BY <1>1, ShowTx
<1>3. IsTx(SkipsTold) /\ SkipsTold.presence = desk.presence
  BY <1>2, SendTx DEF SkipsTold
<1> QED BY <1>1, <1>2, <1>3, SameWork

(* A pass that dispatches nothing starts nothing.                          *)
LEMMA PartitionedRuns ==
  ASSUME TypeOK, NEW n \in Nodes, n \notin Allowed, Partitioned[n] = "running"
  PROVE  Entity(n) = "running" /\ n \notin NotNeeded /\ n \notin Asking
BY DEF Partitioned

LEMMA ShownPass ==
  ASSUME TypeOK, ShownInv, SettleSkipsNet \/ PauseForApprovalNet
  PROVE  ShownInv'
<1>1. pc = "schedule" /\ pc \in Looping /\ Allowed = {}
  BY DEF SettleSkipsNet, PauseForApprovalNet, SettleSkips, PauseForApproval, Looping, Places
<1>2. Partitioned \in [Nodes -> NodeStatus]
  BY PartitionedType
<1>3. \A n \in Nodes : Partitioned[n] = "running" =>
        Entity(n) = "running" /\ n \notin NotNeeded /\ n \notin Asking
  BY <1>1, PartitionedRuns
<1>4. \A n \in Nodes : Partitioned[n] = "running" /\ Own(n) = "running" => AtWork(SkipsTold, n)
  BY <1>1, <1>3, SkipsTx DEF ShownInv
<1>5. IsTx(SkipsTold) /\ DOMAIN SkipsTold.presence \subseteq Nodes
  BY SkipsTx
<1>6. CASE SettleSkipsNet
  <2>1. Commit("running", Partitioned) /\ KeepSession(Partitioned) /\ kind' = kind
    BY <1>6 DEF SettleSkipsNet, SettleSkips
  <2>2. pc' = "check" /\ prepared' = {}
    BY <1>1, <1>6 DEF SettleSkipsNet, SettleSkips, ShownInv
  <2>3. CommitThen(SkipsTold, NoTx)
    BY <1>6 DEF SettleSkipsNet
  <2> QED BY <1>1, <1>2, <1>3, <1>4, <1>5, <2>1, <2>2, <2>3, NoTxTx, CommitShown
<1>7. CASE PauseForApprovalNet
  <2> DEFINE next == Log(Show(NoTx, Asking, "waiting"), "human_approval_requested", Asking)
  <2>1. Commit("awaiting_approval", Partitioned) /\ Forget /\ pc' = "closing" /\ prepared' = {}
    BY <1>7 DEF PauseForApprovalNet, PauseForApproval, Return, ForgetBatch
  <2>2. CommitThen(SkipsTold, next)
    BY <1>7 DEF PauseForApprovalNet
  <2>3. IsTx(next) /\ DOMAIN next.presence = Asking
    <3>1. IsTx(NoTx) /\ DOMAIN NoTx.presence = {}
      BY NoTxTx
    <3>2. /\ IsTx(Show(NoTx, Asking, "waiting"))
          /\ DOMAIN Show(NoTx, Asking, "waiting").presence = Asking \cup DOMAIN NoTx.presence
      BY <3>1, ShowTx
    <3> QED BY <3>1, <3>2, LogTx
  <2>4. Asking \subseteq Nodes
    BY DEF Asking, Runnable, Ready, ReadyNodes
  <2>5. \A n \in DOMAIN next.presence : Partitioned[n] # "running"
    BY <1>3, <2>3, <2>4
  <2> HIDE DEF next
  <2> QED BY <1>1, <1>2, <1>3, <1>4, <1>5, <2>1, <2>2, <2>3, <2>4, <2>5, CommitShown
<1> QED BY <1>6, <1>7

LEMMA ShownPrepare == ASSUME TypeOK, ShownInv, PrepareNet PROVE ShownInv'
<1>1. /\ pc = "schedule" /\ pc' = "preparing" /\ pc \in Looping /\ batch' = Allowed
      /\ StageNodes(Partitioned)
      /\ UNCHANGED <<kind, node, presence, elsewhere, prepared>>
      /\ own' = SkipsTold
  BY DEF PrepareNet, Prepare, Stage, rows, Looping, Places
<1>2. prepared' = {}
  BY <1>1 DEF ShownInv
<1>3. \A n \in Nodes : Own(n)' = IF Partitioned[n] # Entity(n) \/ n \in dirty
                                   THEN Partitioned[n] ELSE node[n]
  BY <1>1 DEF StageNodes, Own
<1>4. \A n \in Nodes : Own(n) = "running" => Entity(n) = "running"
  BY <1>1 DEF ShownInv
<1>5. \A n \in Nodes : Own(n)' = "running" => Partitioned[n] = "running"
  BY <1>3, <1>4 DEF Own
<1>6. \A n \in Nodes : Own(n)' = "running" => Entity(n)' = "running"
  BY <1>1, <1>5 DEF StageNodes, Entity, Own
<1>7. ASSUME NEW n \in Nodes, Own(n)' = "running", n \notin Allowed
      PROVE  AtWork(own, n)'
  <2>1. Entity(n) = "running" /\ n \notin NotNeeded /\ Partitioned[n] = "running"
    BY <1>5, <1>7, PartitionedRuns
  <2>2. Own(n) = "running"
    BY <1>3, <1>7, <2>1 DEF Entity, Own
  <2>3. AtWork(own, n)
    BY <1>1, <2>2 DEF ShownInv
  <2>4. AtWork(SkipsTold, n)
    BY <2>1, <2>3, SkipsTx
  <2> QED BY <1>1, <2>4 DEF AtWork, DeskIn
<1>8. RunningIsShown'
  BY <1>1 DEF ShownInv, RunningIsShown
<1>9. IsTx(own)' /\ DOMAIN own'.presence \subseteq Nodes
  BY <1>1, SkipsTx DEF IsTx
<1> QED BY <1>1, <1>2, <1>6, <1>7, <1>8, <1>9 DEF ShownInv, Looping, Places

LEMMA ConsultTx ==
  ASSUME NEW tx, IsTx(tx), NEW n, NEW asked
  PROVE  IsTx(Consult(tx, n, asked)) /\ Consult(tx, n, asked).presence = tx.presence
<1> DEFINE sent == Send(tx, {Letter(n, p, "information_request", 0) : p \in asked})
<1>1. IsTx(sent) /\ sent.presence = tx.presence
  BY SendTx
<1>2. Consult(tx, n, asked) = Respond(sent, DOMAIN sent.mail \ DOMAIN tx.mail)
  BY DEF Consult
<1> HIDE DEF sent
<1> QED BY <1>1, <1>2, RespondTx

LEMMA ShownPrepareNode ==
  ASSUME TypeOK, ShownInv, NEW n \in Nodes, PrepareNode(n)
  PROVE  ShownInv'
<1>1. PICK page \in Pages(Unread(n)), asked \in SUBSET (Nodes \ {n}) :
        own' = Log(Show(Consult(SetStatus(own, page, "acknowledged"), n, asked),
                        {n}, Desk(n)),
                   "agent_started", {n})
  BY DEF PrepareNode, Stage
<1> DEFINE read == SetStatus(own, page, "acknowledged")
           talk == Consult(read, n, asked)
           here == Show(talk, {n}, Desk(n))
<1>2. IsTx(read) /\ read.presence = own.presence
  BY SetStatusTx DEF ShownInv
<1>3. IsTx(talk) /\ talk.presence = own.presence
  BY <1>2, ConsultTx
<1>4. /\ IsTx(here) /\ DOMAIN here.presence = {n} \cup DOMAIN talk.presence
      /\ \A m : DeskIn(here, m) = IF m \in {n} THEN Desk(n) ELSE DeskIn(talk, m)
      /\ \A m : m \notin {n} => AtWork(here, m) = AtWork(talk, m)
  BY <1>3, ShowTx
<1>5. IsTx(own') /\ own'.presence = here.presence
  BY <1>1, <1>4, LogTx
<1>6. /\ pc = "preparing" /\ UNCHANGED <<vars, presence, elsewhere>>
      /\ prepared' = prepared \cup {n}
  BY DEF PrepareNode, Stage
<1> HIDE DEF read, talk, here
<1>7. UNCHANGED <<pc, kind, batch, node, mine, dirty>>
  BY <1>6 DEF vars, rows, session, memory
<1>8. \A m \in Nodes : Own(m)' = Own(m) /\ Entity(m)' = Entity(m)
  BY <1>7 DEF Own, Entity
<1>9. \A m \in Nodes : AtWork(own, m)' = (m = n \/ AtWork(own, m))
  <2> SUFFICES ASSUME NEW m \in Nodes PROVE AtWork(own, m)' = (m = n \/ AtWork(own, m))
    OBVIOUS
  <2>1. AtWork(own, m)' = AtWork(here, m)
    BY <1>5, <1>6 DEF AtWork, DeskIn
  <2>2. m = n => AtWork(here, m)
    BY <1>4 DEF AtWork, Desk
  <2>3. m # n => AtWork(here, m) = AtWork(own, m)
    BY <1>3, <1>4, SameWork
  <2>4. AtWork(here, m) \in BOOLEAN /\ AtWork(own, m) \in BOOLEAN
    BY DEF AtWork
  <2> QED BY <2>1, <2>2, <2>3, <2>4
<1>10. IsTx(own)' /\ DOMAIN own'.presence \subseteq Nodes
  BY <1>3, <1>4, <1>5 DEF IsTx, ShownInv
<1>11. RunningIsShown'
  BY <1>6, <1>7 DEF ShownInv, RunningIsShown
<1> QED BY <1>6, <1>7, <1>8, <1>9, <1>10, <1>11 DEF ShownInv

(* A commit of the entities as they are.                                   *)
LEMMA EntitiesRun ==
  ASSUME ShownInv, pc \in Looping, pc = "preparing" => batch \subseteq prepared
  PROVE  /\ \A n \in Nodes : Entities[n] = "running" /\ Own(n) = "running" => AtWork(own, n)
         /\ \A n \in Nodes : Entities[n] = "running" => Entity(n) = "running"
BY DEF ShownInv, Entities

LEMMA ShownDispatch == ASSUME TypeOK, ShownInv, DispatchNet PROVE ShownInv'
<1>1. /\ pc = "preparing" /\ pc \in Looping /\ prepared = batch
      /\ Commit("running", Entities) /\ KeepSession(Entities) /\ kind' = kind
      /\ pc' = "calling" /\ UNCHANGED <<prepared, batch>>
      /\ CommitThen(own, NoTx)
  BY DEF DispatchNet, Dispatch, memory, Looping, Places
<1>2. Entities \in [Nodes -> NodeStatus]
  BY EntitiesType
<1>3. IsTx(own) /\ DOMAIN own.presence \subseteq Nodes
  BY DEF ShownInv
<1> QED BY <1>1, <1>2, <1>3, NoTxTx, EntitiesRun, CommitShown

LEMMA ShownFinish ==
  ASSUME TypeOK, ShownInv, FinishFailedNet \/ FinishCompletedNet
  PROVE  ShownInv'
<1>1. IsTx(own) /\ DOMAIN own.presence \subseteq Nodes
  BY DEF ShownInv
<1>2. pc \in Looping /\ pc # "preparing"
  BY DEF FinishFailedNet, FinishCompletedNet, FinishFailed, FinishCancelled, FinishCompleted,
         Looping, Places
<1>3. Forget /\ pc' = "closing" /\ prepared' = {}
  BY DEF FinishFailedNet, FinishCompletedNet, FinishFailed, FinishCancelled, FinishCompleted,
         Return, ForgetBatch
<1>4. \A n \in Nodes : Own(n) = "running" => AtWork(own, n)
  BY <1>2 DEF ShownInv
<1>5. CASE FinishCompletedNet
  <2> DEFINE next == Log(NoTx, "workflow_completed", {Orchestrator})
  <2>1. CommitThen(own, next) /\ Commit("completed", Entities)
    BY <1>5 DEF FinishCompletedNet, FinishCompleted
  <2>2. IsTx(next) /\ DOMAIN next.presence = {}
    BY NoTxTx, LogTx
  <2> HIDE DEF next
  <2> QED BY <1>1, <1>2, <1>3, <2>1, <2>2, EntitiesType, EntitiesRun, CommitShown
<1>6. CASE FinishFailedNet /\ FinishFailed
  <2>1. CommitThen(own, NoTx) /\ Commit("failed", Entities)
    BY <1>6 DEF FinishFailedNet, FinishFailed
  <2> QED BY <1>1, <1>2, <1>3, <2>1, NoTxTx, EntitiesType, EntitiesRun, CommitShown
<1>7. CASE FinishFailedNet /\ FinishCancelled
  <2> DEFINE left == {n \in Nodes : Own(n) \in {"waiting", "running", "awaiting_approval"}}
             new  == Setting(left, "cancelled")
  <2>1. CommitThen(own, NoTx) /\ Commit("cancelled", new)
    BY <1>7 DEF FinishFailedNet, FinishCancelled
  <2>2. new \in [Nodes -> NodeStatus]
    BY SettingType DEF NodeStatus
  <2>3. \A n \in Nodes : new[n] = "running" => Entity(n) = "running"
    BY DEF Setting
  <2> HIDE DEF new, left
  <2> QED BY <1>1, <1>2, <1>3, <1>4, <2>1, <2>2, <2>3, NoTxTx, CommitShown
<1> QED BY <1>5, <1>6, <1>7 DEF FinishFailedNet

LEMMA FinishedTx ==
  ASSUME ShownInv, NEW done \in SUBSET Nodes, NEW failed \in SUBSET Nodes, NEW turn, NEW A
  PROVE  LET tx == Finished(Reported(done, failed, turn), A, done, failed, turn)
         IN  /\ IsTx(tx) /\ DOMAIN tx.presence \subseteq Nodes
             /\ \A n : n \notin done \cup failed => AtWork(tx, n) = AtWork(own, n)
<1> DEFINE said == Reported(done, failed, turn)
           sent == Send(Respond(said, A), Handoffs(done, turn))
           read == SetStatus(sent, UNION {drained[n] : n \in done}, "completed")
           home == Show(read, done, "idle")
           desk == Show(home, failed, "failed")
<1>1. IsTx(said) /\ said.presence = own.presence
  BY SendTx DEF ShownInv, Reported
<1>2. Finished(said, A, done, failed, turn)
        = Log(Log(desk, "agent_completed", done), "agent_failed", failed)
  BY DEF Finished
<1> HIDE DEF said
<1>3. IsTx(Respond(said, A)) /\ Respond(said, A).presence = own.presence
  BY <1>1, RespondTx
<1>4. IsTx(sent) /\ sent.presence = own.presence
  BY <1>3, SendTx
<1> HIDE DEF sent
<1>5. IsTx(read) /\ read.presence = own.presence
  BY <1>4, SetStatusTx
<1> HIDE DEF read
<1>6. /\ IsTx(home) /\ DOMAIN home.presence = done \cup DOMAIN own.presence
      /\ \A n : n \notin done => AtWork(home, n) = AtWork(own, n)
  BY <1>5, ShowTx, SameWork
<1> HIDE DEF home
<1>7. /\ IsTx(desk) /\ DOMAIN desk.presence = failed \cup DOMAIN home.presence
      /\ \A n : n \notin failed => AtWork(desk, n) = AtWork(home, n)
  BY <1>6, ShowTx
<1> HIDE DEF desk
<1> DEFINE tx == Finished(said, A, done, failed, turn)
<1>8. IsTx(tx) /\ tx.presence = desk.presence
  BY <1>2, <1>7, LogTx
<1> HIDE DEF tx
<1>9. DOMAIN own.presence \subseteq Nodes
  BY DEF ShownInv
<1>10. \A n : n \notin done \cup failed => AtWork(tx, n) = AtWork(own, n)
  BY <1>6, <1>7, <1>8, SameWork
<1>11. IsTx(tx) /\ DOMAIN tx.presence \subseteq Nodes
  BY <1>6, <1>7, <1>8, <1>9
<1> QED BY <1>10, <1>11 DEF said, tx

LEMMA ShownRecord == ASSUME TypeOK, ShownInv, RecordBatchNet PROVE ShownInv'
<1>1. PICK result \in [batch -> Results], made \in [batch -> 1 .. MaxAttempts] :
        RecordBatch!2!(result, made)
  BY DEF RecordBatchNet, RecordBatch
<1> DEFINE answered == {n \in batch : result[n] # NoPayload}
           new      == [n \in Nodes |-> IF n \in answered THEN "completed"
                                        ELSE IF n \in batch THEN "failed"
                                        ELSE Entity(n)]
           done     == {n \in batch : node'[n] = "completed"}
           failed   == batch \ done
           turn     == state'.used
           said     == Reported(done, failed, turn)
<1>2. Commit(wf, new) /\ KeepSession(new) /\ pc' \in {"routing", "failing"}
  BY <1>1
<1>3. kind' = kind /\ pc = "calling" /\ pc \in Looping /\ prepared' = {}
  BY DEF RecordBatchNet, RecordBatch, ForgetBatch, Looping, Places
<1>4. PICK A : CommitThen(Finished(said, A, done, failed, turn), NoTx)
  BY DEF RecordBatchNet
<1> DEFINE tx == Finished(said, A, done, failed, turn)
<1>5. new \in [Nodes -> NodeStatus]
  BY EntityType DEF NodeStatus
<1>6. \A n \in Nodes : new[n] = "running" => Entity(n) = "running" /\ n \notin batch
  OBVIOUS
<1>7. batch \subseteq Nodes
  BY DEF TypeOK
<1>8. /\ IsTx(tx) /\ DOMAIN tx.presence \subseteq Nodes
      /\ \A n : n \notin batch => AtWork(tx, n) = AtWork(own, n)
  <2>1. /\ done \in SUBSET Nodes /\ failed \in SUBSET Nodes
        /\ done \cup failed = batch
    BY <1>7
  <2> HIDE DEF done, failed, turn
  <2> QED BY <2>1, FinishedTx
<1> HIDE DEF new, tx, done, failed, answered, said, turn
<1>9. \A n \in Nodes : new[n] = "running" /\ Own(n) = "running" => AtWork(tx, n)
  BY <1>3, <1>6, <1>8 DEF ShownInv
<1>10. CommitThen(tx, NoTx)
  BY <1>4 DEF tx
<1> QED BY <1>2, <1>3, <1>5, <1>6, <1>8, <1>9, <1>10, NoTxTx, CommitShown

LEMMA ShownRoute == ASSUME TypeOK, ShownInv, RouteFeedbackNet PROVE ShownInv'
<1>1. \A u, v \in FirstVerdict : u = v
  <2>1. \A u, v \in FirstVerdict : Position[u] = Position[v]
    BY PlanAssumption DEF FirstVerdict, Verdicts
  <2> QED BY <2>1, PlanAssumption DEF FirstVerdict, Verdicts
<1>2. PICK v \in FirstVerdict : RouteFeedback!2!(v)
  BY DEF RouteFeedbackNet, RouteFeedback
<1> DEFINE t    == Feedback[v]
           new  == Setting(Reopened(t), "waiting")
           next == Show(Send(NoTx, {Letter(v, t, "information_request", sentBack'[t])}),
                        {t}, "waiting")
<1>3. t \in Nodes
  BY PlanAssumption DEF Verdicts, FirstVerdict
<1>4. Commit(wf, new) /\ KeepSession(new)
  BY <1>2
<1>5. CommitThen(own, next)
  BY <1>1 DEF RouteFeedbackNet
<1>6. /\ kind' = kind /\ pc = "routing" /\ pc \in Looping /\ pc' = "check"
      /\ prepared' = prepared
  BY DEF RouteFeedbackNet, RouteFeedback, Looping, Places
<1>7. new \in [Nodes -> NodeStatus]
  BY SettingType DEF NodeStatus
<1>8. \A n \in Nodes : new[n] = "running" => Entity(n) = "running" /\ n # t
  BY DEF Setting, Reopened
<1>9. IsTx(next) /\ DOMAIN next.presence = {t}
  <2> DEFINE sent == Send(NoTx, {Letter(v, t, "information_request", sentBack'[t])})
  <2>1. IsTx(sent) /\ DOMAIN sent.presence = {}
    BY NoTxTx, SendTx
  <2> HIDE DEF sent
  <2>2. /\ IsTx(Show(sent, {t}, "waiting"))
        /\ DOMAIN Show(sent, {t}, "waiting").presence = {t} \cup DOMAIN sent.presence
    BY <2>1, ShowTx
  <2> QED BY <2>1, <2>2 DEF sent
<1>10. IsTx(own) /\ DOMAIN own.presence \subseteq Nodes
  BY DEF ShownInv
<1>11. \A n \in Nodes : Own(n) = "running" => AtWork(own, n)
  BY <1>6 DEF ShownInv
<1>12. prepared' = {}
  BY <1>6 DEF ShownInv
<1> HIDE DEF new, next, t
<1> QED
  BY <1>3, <1>4, <1>5, <1>6, <1>7, <1>8, <1>9, <1>10, <1>11, <1>12, CommitShown

(* The coroutine ends or dies, and with it what it had not committed.      *)
LEMMA ShownGone ==
  ASSUME TypeOK, ShownInv, CloseNet \/ CrashNet \/ RestartNet
  PROVE  ShownInv'
<1>1. CASE CloseNet
  <2>1. /\ pc' = "none" /\ own' = NoTx
        /\ UNCHANGED <<presence, elsewhere, prepared, node, dirty>>
        /\ prepared = {} /\ dirty = {}
    BY <1>1 DEF CloseNet, Close, Stage, rows, session, ShownInv, Looping
  <2>2. \A n \in Nodes : Own(n)' = node[n]
    BY <2>1 DEF Own
  <2> QED BY <2>1, <2>2, NoTxTx
         DEF ShownInv, RunningIsShown, AtWork, DeskIn, Looping, IsTx
<1>2. CASE CrashNet
  <2>1. /\ pc' = "closing" /\ own' = NoTx /\ UNCHANGED <<presence, elsewhere, node>>
        /\ prepared' = {} /\ dirty' = {}
    BY <1>2 DEF CrashNet, RecordCrash, ResumeFinished, Return, Forget, Stage, ForgetBatch
  <2>2. \A n \in Nodes : Own(n)' = node[n]
    BY <2>1 DEF Own
  <2> QED BY <2>1, <2>2, NoTxTx
         DEF ShownInv, RunningIsShown, AtWork, DeskIn, Looping, IsTx
<1>3. CASE RestartNet
  <2>1. /\ pc' = "none" /\ own' = NoTx /\ prepared' = {} /\ dirty' = {}
        /\ presence' = IF unrecorded' THEN presence ELSE [n \in Nodes |-> "idle"]
        /\ elsewhere' = IF unrecorded' THEN elsewhere ELSE {}
    BY <1>3 DEF RestartNet, Restart, Forget, ForgetBatch
  <2>2. \A n \in Nodes : node'[n] = "running" => unrecorded' /\ node[n] = "running"
    BY <1>3 DEF RestartNet, Restart, TypeOK
  <2>3. \A n \in Nodes : Own(n)' = node'[n]
    BY <2>1 DEF Own
  <2> QED BY <2>1, <2>2, <2>3, NoTxTx
         DEF ShownInv, RunningIsShown, AtWork, DeskIn, Looping, IsTx
<1> QED BY <1>1, <1>2, <1>3

(* No control marks a step as running, or writes what the engine flushed.  *)
LEMMA OperatorRuns ==
  ASSUME TypeOK, Operator, NEW n \in Nodes
  PROVE  /\ node'[n] = "running" => node[n] = "running"
         /\ Own(n)' = "running" => Own(n) = "running"
         /\ UNCHANGED <<pc, kind, mine, dirty, batch>>
<1>1. UNCHANGED <<pc, kind, mine, dirty, batch>>
  BY DEF Operator, RequestCancellation, ResumeWorkflow, ApproveNode, RejectNode, SkipNode,
         RetryNode, Control, Request, session, memory
<1>2. node'[n] = "running" => node[n] = "running"
  BY DEF Operator, RequestCancellation, ResumeWorkflow, ApproveNode, RejectNode, SkipNode,
         RetryNode, TypeOK
<1> QED BY <1>1, <1>2 DEF Own

LEMMA ShownQuiet == ASSUME TypeOK, ShownInv, Quiet PROVE ShownInv'
<1>1. UNCHANGED <<own, presence, elsewhere, prepared>>
  BY DEF Quiet, network
<1>2. CASE StartExecute
  <2>1. /\ pc = "queued" /\ pc' = "check" /\ kind' = "execute"
        /\ UNCHANGED <<node, dirty, mine>>
    BY <1>2 DEF StartExecute, rows
  <2>2. \A n \in Nodes : Own(n)' = Own(n) /\ Entity(n)' = Own(n)'
    BY <2>1 DEF Own, Entity
  <2> QED BY <1>1, <2>1, <2>2 DEF ShownInv, RunningIsShown, AtWork, DeskIn, IsTx, Looping, Places
<1>3. CASE StartResume
  <2>1. /\ pc = "queued" /\ pc' = "check" /\ UNCHANGED node
        /\ mine' = [n \in Nodes |-> IF node[n] \in Unfinished THEN "waiting" ELSE node[n]]
        /\ dirty' = {n \in Nodes : node[n] \in Unfinished}
    BY <1>3 DEF StartResume, rows
  <2>2. \A n \in Nodes : Own(n)' # "running"
    BY <2>1 DEF Own, Unfinished
  <2> QED BY <1>1, <2>1, <2>2 DEF ShownInv, RunningIsShown, IsTx, Looping, Places
<1>4. CASE PassCheck \/ RouteNothing
  <2>1. /\ pc \in {"check", "routing"} /\ pc' \in {"schedule", "check"}
        /\ UNCHANGED <<kind, node, dirty, mine>>
    BY <1>4 DEF PassCheck, RouteNothing, rows, session
  <2>2. \A n \in Nodes : Own(n)' = Own(n) /\ Entity(n)' = Entity(n)
    BY <2>1 DEF Own, Entity
  <2> QED BY <1>1, <2>1, <2>2 DEF ShownInv, RunningIsShown, AtWork, DeskIn, IsTx, Looping, Places
<1>5. CASE Spawn
  <2>1. /\ (pc' = pc /\ kind' = kind) \/ (pc = "none" /\ pc' = "queued")
        /\ UNCHANGED <<node, dirty, mine, batch>>
    BY <1>5 DEF Spawn, rows, session, memory
  <2>2. \A n \in Nodes : Own(n)' = Own(n) /\ (kind' = kind => Entity(n)' = Entity(n))
    BY <2>1 DEF Own, Entity
  <2> QED BY <1>1, <2>1, <2>2 DEF ShownInv, RunningIsShown, AtWork, DeskIn, IsTx, Looping
<1>6. CASE Operator
  <2>1. UNCHANGED <<pc, kind, mine, dirty, batch>>
    BY <1>6 DEF Operator, RequestCancellation, ResumeWorkflow, ApproveNode, RejectNode,
                SkipNode, RetryNode, Control, Request, session, memory
  <2>2. \A n \in Nodes : node'[n] = "running" => node[n] = "running"
    BY <1>6, OperatorRuns
  <2>3. \A n \in Nodes : Own(n)' = "running" => Own(n) = "running"
    BY <1>6, OperatorRuns
  <2>4. \A n \in Nodes : AtWork(own, n)' = AtWork(own, n)
    BY <1>1 DEF AtWork, DeskIn
  <2>5. RunningIsShown'
    BY <1>1, <2>2 DEF ShownInv, RunningIsShown
  <2>6. ASSUME pc' \in Looping, NEW n \in Nodes, Own(n)' = "running"
        PROVE  Entity(n)' = "running"
    <3>1. Own(n) = "running" /\ Entity(n) = "running"
      BY <2>1, <2>3, <2>6 DEF ShownInv
    <3> QED BY <2>1, <2>6, <3>1 DEF Entity
  <2>7. ASSUME NEW n \in Nodes, Own(n)' = "running"
        PROVE  AtWork(own, n)' \/ (pc' = "preparing" /\ n \in batch' \ prepared')
    <3>1. AtWork(own, n) \/ (pc = "preparing" /\ n \in batch \ prepared)
      BY <2>3, <2>7 DEF ShownInv
    <3> QED BY <1>1, <2>1, <2>4, <3>1
  <2>8. IsTx(own)'
    BY <1>1 DEF ShownInv, IsTx
  <2> QED BY <1>1, <2>1, <2>5, <2>6, <2>7, <2>8 DEF ShownInv
<1> QED BY <1>2, <1>3, <1>4, <1>5, <1>6 DEF Quiet

(* Nobody's desk is set from outside.                                      *)
LEMMA OutsideShown ==
  ASSUME ShownInv, NEW tx, IsTx(tx), tx.presence = NoTx.presence, Outside(tx)
  PROVE  ShownInv'
<1>1. /\ own' = own /\ UNCHANGED <<vars, prepared>>
      /\ CommitThen(tx, own)
  BY DEF Outside, CommitThen
<1>2. UNCHANGED <<pc, kind, batch, node, mine, dirty>>
  BY <1>1 DEF vars, rows, session, memory
<1>3. DOMAIN tx.presence = {}
  BY NoTxTx
<1>4. /\ presence' = [n \in Nodes |-> presence'[n]]
      /\ \A n \in Nodes : presence'[n] = DeskIn(tx, n)
  BY <1>1, <1>3, CommitPresence
<1>5. (\A n \in Nodes : presence'[n] = presence[n]) /\ elsewhere' = elsewhere
  BY <1>1, <1>3, <1>4 DEF DeskIn, CommitThen
<1>6. \A n \in Nodes : /\ Own(n)' = Own(n) /\ Entity(n)' = Entity(n)
                       /\ AtWork(own, n)' = AtWork(own, n)
  BY <1>1, <1>2, <1>5 DEF Own, Entity, AtWork, DeskIn
<1> QED BY <1>1, <1>2, <1>4, <1>5, <1>6 DEF ShownInv, RunningIsShown, IsTx

LEMMA ShownOutsider == ASSUME ShownInv, Outsider PROVE ShownInv'
<1>1. IsTx(NoTx)
  BY NoTxTx
<1>2. ASSUME NEW S, Outside(Send(NoTx, S)) PROVE ShownInv'
  BY <1>1, <1>2, SendTx, OutsideShown
<1>3. ASSUME NEW M, NEW status, Outside(SetStatus(NoTx, M, status)) PROVE ShownInv'
  BY <1>1, <1>3, SetStatusTx, OutsideShown
<1>4. ASSUME NEW M, Outside(Respond(NoTx, M)) PROVE ShownInv'
  BY <1>1, <1>4, RespondTx, OutsideShown
<1>5. ASSUME NEW from, NEW to, SendMessage(from, to) PROVE ShownInv'
  BY <1>2, <1>5 DEF SendMessage
<1>6. ASSUME NEW from, Broadcast(from) PROVE ShownInv'
  BY <1>2, <1>6 DEF Broadcast
<1>7. ASSUME NEW m, AcknowledgeMessage(m) \/ CompleteMessage(m) PROVE ShownInv'
  BY <1>3, <1>7 DEF AcknowledgeMessage, CompleteMessage
<1>8. ASSUME NEW m, RespondToMessage(m) PROVE ShownInv'
  BY <1>4, <1>8 DEF RespondToMessage
<1> QED BY <1>5, <1>6, <1>7, <1>8 DEF Outsider

(* Another run's write stands until the engine writes the row again.       *)
LEMMA ShownOtherRun ==
  ASSUME ShownInv, NEW n \in Nodes, OtherRun(n)
  PROVE  ShownInv'
<1>1. /\ UNCHANGED <<vars, own, prepared>>
      /\ n \notin DOMAIN own.presence
      /\ elsewhere' = elsewhere \cup {n}
  BY DEF OtherRun
<1>2. PICK status : presence' = [presence EXCEPT ![n] = status]
  BY DEF OtherRun
<1>3. UNCHANGED <<pc, kind, batch, node, mine, dirty>>
  BY <1>1 DEF vars, rows, session, memory
<1>4. /\ presence' = [m \in Nodes |-> presence'[m]]
      /\ \A m \in Nodes : m # n => presence'[m] = presence[m]
  BY <1>2 DEF ShownInv
<1>5. \A m \in Nodes : AtWork(own, m) => AtWork(own, m)'
  BY <1>1, <1>4 DEF AtWork, DeskIn
<1>6. \A m \in Nodes : Own(m)' = Own(m) /\ Entity(m)' = Entity(m)
  BY <1>3 DEF Own, Entity
<1>7. RunningIsShown'
  BY <1>1, <1>3, <1>4 DEF ShownInv, RunningIsShown
<1> QED BY <1>1, <1>3, <1>4, <1>5, <1>6, <1>7 DEF ShownInv, IsTx

-----------------------------------------------------------------------------
LEMMA ShownInit == ASSUME NetworkInit PROVE ShownInv
<1>1. /\ pc = "queued" /\ own = NoTx /\ prepared = {} /\ dirty = {}
      /\ presence = [n \in Nodes |-> "idle"]
      /\ node = [n \in Nodes |-> "waiting"]
  BY DEF NetworkInit, Init, Blank
<1>2. \A n \in Nodes : Own(n) # "running" /\ node[n] # "running"
  BY <1>1 DEF Own
<1> QED BY <1>1, <1>2, NoTxTx DEF ShownInv, RunningIsShown, Looping

LEMMA ShownStep == ASSUME TypeOK, ShownInv, [NetworkNext]_netVars PROVE ShownInv'
<1>1. CASE Quiet
  BY <1>1, ShownQuiet
<1>2. CASE SettleSkipsNet \/ PauseForApprovalNet
  BY <1>2, ShownPass
<1>3. CASE PrepareNet
  BY <1>3, ShownPrepare
<1>4. ASSUME NEW n \in Nodes, PrepareNode(n) PROVE ShownInv'
  BY <1>4, ShownPrepareNode
<1>5. CASE DispatchNet
  BY <1>5, ShownDispatch
<1>6. CASE RecordBatchNet
  BY <1>6, ShownRecord
<1>7. CASE RouteFeedbackNet
  BY <1>7, ShownRoute
<1>8. CASE FinishFailedNet \/ FinishCompletedNet
  BY <1>8, ShownFinish
<1>9. CASE CloseNet \/ CrashNet \/ RestartNet
  BY <1>9, ShownGone
<1>10. CASE Outsider
  BY <1>10, ShownOutsider
<1>11. ASSUME NEW n \in Nodes, OtherRun(n) PROVE ShownInv'
  BY <1>11, ShownOtherRun
<1>12. CASE UNCHANGED netVars
  BY <1>12
     DEF netVars, network, vars, rows, session, memory, ShownInv, RunningIsShown, IsTx, Own,
         Entity, AtWork, DeskIn
<1> QED BY <1>1, <1>2, <1>3, <1>4, <1>5, <1>6, <1>7, <1>8, <1>9, <1>10, <1>11,
           <1>12
        DEF NetworkNext

LEMMA ShownInvariant == NetworkSpec => []ShownInv
<1>1. NetworkSpec => []TypeOK
  BY NetworkRunsWorkflow, TypeCorrect, PTL
<1>2. NetworkInit => ShownInv
  BY ShownInit
<1>3. TypeOK /\ ShownInv /\ [NetworkNext]_netVars => ShownInv'
  BY ShownStep
<1> QED BY <1>1, <1>2, <1>3, PTL DEF NetworkSpec

(* A step the database shows running has its agent shown at work, unless   *)
(* another run of the agent wrote its row since: presence and status are   *)
(* written in the same commits (on_node_start, on_skip, on_node_finished,  *)
(* on_approval_requested), of every plan and under every interleaving with *)
(* the controls, the API, other runs and restarts.                         *)
THEOREM RunningShown == NetworkSpec => []RunningIsShown
<1>1. ShownInv => RunningIsShown
  BY DEF ShownInv
<1> QED BY <1>1, ShownInvariant, PTL
=============================================================================
