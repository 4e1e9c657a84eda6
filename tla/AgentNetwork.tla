---------------------------- MODULE AgentNetwork ----------------------------
(***************************************************************************)
(* What the agents of one workflow say to each other: the mail of the      *)
(* message bus (messaging/bus.py), who is shown doing what and the event   *)
(* log (messaging/store.py), written by the engine before and after each   *)
(* step (services/collaboration.py, services/hive.py) and by anybody       *)
(* through the API (api/routes/network.py).                                *)
(*                                                                         *)
(* The engine writes all of it in its one database session, so it becomes  *)
(* visible, or is lost, with the statuses of module WorkflowEngine, whose  *)
(* actions are extended here.  The planner gives each agent one step, so   *)
(* an agent is named by its step.  What the letters say, and what of it    *)
(* reaches a prompt, is left out.                                          *)
(***************************************************************************)
EXTENDS WorkflowEngine, FiniteSetsExt

CONSTANTS
  Orchestrator,  \* ORCHESTRATOR_ID
  Writers,       \* bound: in whose name outsiders write
  Written,       \* bound: triples <<type, requires_response, rank>> of what they write
  Handled,       \* bound: types of the messages whose status they set
  PageSize,      \* the limit the engine reads an inbox with
  MaxLetters     \* bound: questions agents ask, and what outsiders and other runs do

VARIABLES
  (* committed rows *)
  mail,      \* agent_messages: message -> status
  presence,  \* agent_presence.status: one row per agent, whatever workflow it is in
  events,    \* network_events: pairs <<event type, actor>>
  (* the engine's session: rows flushed and not committed *)
  own,
  (* the engine's memory *)
  drained,   \* Collaboration._drained: mail read for the attempt under way
  prepared,  \* members of the batch whose AgentInput is built
  (* history *)
  touched,   \* messages whose status an outsider set
  passed,    \* requests beyond the pages a step that finished looked at
  elsewhere, \* agents whose presence another run has written last
  (* what is left of the bound *)
  letters

network == <<mail, presence, events, own, drained, prepared, touched, passed, elsewhere,
             letters>>
netVars == <<vars, network>>

-----------------------------------------------------------------------------
(* "queued" and "failed" of MessageStatus are never assigned by the code;  *)
(* types that nothing tells apart from "direct" are left out, and so are   *)
(* the runtime statuses nothing sets.                                      *)

Requests == {"information_request", "task_request", "context_request", "delegation"}
MessageType == Requests \cup
  {"direct", "task_response", "information_response", "context_response",
   "artifact_share", "artifact_reference", "status_update", "error"}
MessageStatus == {"delivered", "acknowledged", "completed"}
RuntimeStatus == {"idle", "thinking", "working", "waiting", "failed"}

(* What inbox() orders MessagePriority by, urgent first.                   *)
Rank == 0 .. 3

ASSUME NetworkAssumption ==
  /\ Orchestrator \notin Nodes
  /\ Writers \subseteq Nodes \cup {Orchestrator}
  /\ Written \subseteq MessageType \X BOOLEAN \X Rank
  /\ Handled \subseteq MessageType
  /\ PageSize \in Nat \ {0}
  /\ MaxLetters \in Nat
  /\ \A n \in Nodes : Feedback[n] # n

(* at: created_at, the same for what one statement sends; re: when what it *)
(* answers was sent (parent_id); turn: which attempt or which repair of a  *)
(* step the content is about; rank: its priority.                          *)
Message == [at : Nat, from : Nodes \cup {Orchestrator}, to : Nodes \cup {Orchestrator},
            type : MessageType, needs : BOOLEAN, re : Nat, turn : Nat, rank : Rank]

(* What the code sends with high priority.                                 *)
Pressing == {"task_request", "information_request", "error"}

Letter(from, to, type, turn) ==
  [at |-> 0, from |-> from, to |-> to, type |-> type,
   needs |-> type \in Requests, re |-> 0, turn |-> turn,
   rank |-> IF type \in Pressing THEN 1 ELSE 2]

ReplyType(type) ==
  CASE type = "information_request" -> "information_response"
    [] type = "context_request"     -> "context_response"
    [] type = "artifact_share"      -> "artifact_reference"
    [] OTHER                        -> "task_response"

ReplyTo(m) == [Letter(m.to, m.from, ReplyType(m.type), 0) EXCEPT !.re = m.at]

-----------------------------------------------------------------------------
(* A transaction: what a session has written over the committed rows.      *)

NoTx == [mail |-> <<>>, presence |-> <<>>, events |-> {}]

(* What new says, and what old says of the rest.                           *)
Over(new, old) ==
  [x \in DOMAIN new \cup DOMAIN old |-> IF x \in DOMAIN new THEN new[x] ELSE old[x]]

(* The rows as the session tx reads them.                                  *)
Shown(tx) == Over(tx.mail, mail)

(* The letters of S, sent after all others.                                *)
Send(tx, S) ==
  LET now == 1 + Max({0} \cup {m.at : m \in DOMAIN Shown(tx) \cup DOMAIN own.mail})
  IN  [tx EXCEPT !.mail = Over([m \in {[s EXCEPT !.at = now] : s \in S} |-> "delivered"], @)]

SetStatus(tx, M, status) == [tx EXCEPT !.mail = Over([m \in M |-> status], @)]

Show(tx, N, status) == [tx EXCEPT !.presence = Over([n \in N |-> status], @)]

Log(tx, type, N) == [tx EXCEPT !.events = @ \cup ({type} \X N)]

(* mutant: a reply leaves the request as it is                             *)
RespondOnly(tx, M) == Send(tx, {ReplyTo(m) : m \in M})

(* MessageBus.respond: the request is closed and the reply is sent.        *)
Respond(tx, M) == Send(SetStatus(tx, M, "completed"), {ReplyTo(m) : m \in M})

(* commit(), and what the session flushes after it.                        *)
CommitThen(tx, next) ==
  /\ mail' = Shown(tx)
  /\ presence' = Over(tx.presence, presence)
  /\ events' = events \cup tx.events
  /\ elsewhere' = elsewhere \ DOMAIN tx.presence
  /\ own' = next

Stage(tx) == own' = tx /\ UNCHANGED <<mail, presence, events, elsewhere>>

ForgetBatch ==
  /\ drained' = [n \in Nodes |-> {}]
  /\ prepared' = {}

-----------------------------------------------------------------------------
NetworkInit ==
  /\ Init
  /\ mail = <<>> /\ events = {} /\ own = NoTx
  /\ presence = [n \in Nodes |-> "idle"]
  /\ drained = [n \in Nodes |-> {}] /\ prepared = {}
  /\ touched = {} /\ passed = {} /\ elsewhere = {}
  /\ letters = MaxLetters

(* What neither reads nor writes the network.                              *)
Quiet ==
  /\ StartExecute \/ StartResume \/ PassCheck \/ RouteNothing \/ Spawn \/ Operator
  /\ UNCHANGED network

(* on_skip of every step _resolve_skips leaves out.                        *)
SkipsTold ==
  Send(Show(own, NotNeeded, "idle"),
       {Letter(Orchestrator, n, "status_update", 0) : n \in NotNeeded})

SettleSkipsNet ==
  /\ SettleSkips
  /\ CommitThen(SkipsTold, NoTx)
  /\ UNCHANGED <<drained, prepared, touched, passed, letters>>

(* on_approval_requested comes after the commit.                           *)
PauseForApprovalNet ==
  /\ PauseForApproval
  /\ CommitThen(SkipsTold,
                Log(Show(NoTx, Asking, "waiting"), "human_approval_requested", Asking))
  /\ ForgetBatch
  /\ UNCHANGED <<touched, passed, letters>>

PrepareNet ==
  /\ Prepare
  /\ Stage(SkipsTold)
  /\ UNCHANGED <<drained, prepared, touched, passed, letters>>

-----------------------------------------------------------------------------
(* Reading an inbox.  A page holds the most pressing mail; which of what   *)
(* is equally pressing comes first is left open (created_at is when the    *)
(* transaction began).                                                     *)

(* mutant: a page is the latest mail, however pressing                     *)
PagesByTime(S) ==
  {P \in SUBSET S : /\ (P = S /\ Cardinality(S) < PageSize) \/ Cardinality(P) = PageSize
                    /\ \A m \in P, o \in S \ P : o.at <= m.at}

Pages(S) ==
  {P \in SUBSET S : /\ (P = S /\ Cardinality(S) < PageSize) \/ Cardinality(P) = PageSize
                    /\ \A m \in P, o \in S \ P : m.rank <= o.rank}

Inbox(box, n, status) == {m \in DOMAIN box : m.to = n /\ box[m] = status}

Unread(n) == Inbox(Shown(own), n, "delivered")

(* consult_peers: each question is answered in the same transaction, and   *)
(* the answer goes to the asker's inbox too.                               *)
Consult(tx, n, asked) ==
  LET sent == Send(tx, {Letter(n, p, "information_request", 0) : p \in asked})
  IN  Respond(sent, DOMAIN sent.mail \ DOMAIN tx.mail)

(* mutant: the desk is set before the inbox is drained                     *)
DeskFirst(n) == IF Unread(n) = {} THEN "working" ELSE "thinking"

(* mutant: the desk shows a status of the step                             *)
DeskCompleted(n) == "completed"

(* What drain_inbox (THINKING) and then on_node_start leave at the desk.   *)
Desk(n) == "working"

(* One round of the loop that prepares a batch: prepare_attempt (drain a   *)
(* page, consult) and on_node_start.                                       *)
PrepareNode(n) ==
  /\ pc = "preparing"
  /\ n \in batch \ prepared
  /\ \A m \in batch \ prepared : Position[n] <= Position[m]
  /\ \E page \in Pages(Unread(n)), asked \in SUBSET (Nodes \ {n}) :
       /\ Cardinality(asked) <= letters
       /\ letters' = letters - Cardinality(asked)
       /\ LET read == SetStatus(own, page, "acknowledged")
              here == Show(Consult(read, n, asked), {n}, Desk(n))
          IN  Stage(Log(here, "agent_started", {n}))
       /\ drained' = [drained EXCEPT ![n] = page]
  /\ prepared' = prepared \cup {n}
  /\ UNCHANGED <<vars, touched, passed>>

DispatchNet ==
  /\ Dispatch
  /\ prepared = batch
  /\ CommitThen(own, NoTx)
  /\ UNCHANGED <<drained, prepared, touched, passed, letters>>

-----------------------------------------------------------------------------
(* on_node_finished of every member of the batch.  The members do not      *)
(* depend on each other, so no member hands another one its result.        *)

Reported(done, failed, turn) ==
  Send(own, {Letter(n, Orchestrator, "task_response", turn[n]) : n \in done}
              \cup {Letter(n, Orchestrator, "error", turn[n]) : n \in failed})

Asks(m) == m.needs /\ m.type \in Requests

(* The requests to a step of done that are not closed.                     *)
Open(box, done) ==
  {m \in DOMAIN box : m.to \in done /\ Asks(m) /\ box[m] # "completed"}

(* What reply_to_waiting_peers finds for n under a status when the batch   *)
(* answers A: the replies of members before n are there already.           *)
Pile(said, A, n, status) ==
  LET sent == DOMAIN Shown(Respond(said, A)) \ DOMAIN Shown(said)
  IN  Inbox(Shown(said), n, status)
        \cup {r \in sent : /\ status = "delivered"
                           /\ r.to = n /\ Position[r.from] < Position[n]}

(* mutant: what was acknowledged is not looked at again                    *)
LooksAtUnread(said, A, n) == Pages(Pile(said, A, n, "delivered"))

(* It looks at a page of each.                                             *)
LooksAt(said, A, n) ==
  {P \cup Q : P \in Pages(Pile(said, A, n, "acknowledged")),
              Q \in Pages(Pile(said, A, n, "delivered"))}

(* The sets of requests the members of done may answer.                    *)
AnsweredSets(said, done) ==
  {A \in SUBSET Open(Shown(said), done) :
     \A n \in done : \E L \in LooksAt(said, A, n) :
       {m \in A : m.to = n} = {m \in L : Asks(m)}}

(* There is a page of mail in S that comes before m, or may.               *)
Beyond(S, m) ==
  \E P \in SUBSET {o \in S \ {m} : o.rank <= m.rank} : Cardinality(P) = PageSize

PassedOver(said, A, done) ==
  {m \in Open(Shown(said), done) \ A : Beyond(Pile(said, A, m.to, Shown(said)[m]), m)}

(* mutant: the result is handed to one downstream agent                    *)
HandoffsToFirst(done, turn) ==
  {Letter(e[1], e[2], type, turn[e[1]]) :
     e \in {x \in Edges : /\ x[1] \in done
                          /\ \A y \in Edges : y[1] = x[1] => Position[x[2]] <= Position[y[2]]},
     type \in {"task_request", "artifact_share"}}

(* What _handoff sends along the edges.                                    *)
Handoffs(done, turn) ==
  {Letter(e[1], e[2], type, turn[e[1]]) :
     e \in {x \in Edges : x[1] \in done}, type \in {"task_request", "artifact_share"}}

Finished(said, A, done, failed, turn) ==
  LET sent == Send(Respond(said, A), Handoffs(done, turn))
      read == SetStatus(sent, UNION {drained[n] : n \in done}, "completed")
      desk == Show(Show(read, done, "idle"), failed, "failed")
  IN  Log(Log(desk, "agent_completed", done), "agent_failed", failed)

RecordBatchNet ==
  /\ RecordBatch
  /\ LET done   == {n \in batch : node'[n] = "completed"}
         failed == batch \ done
         said   == Reported(done, failed, state'.used)
     IN \E A \in AnsweredSets(said, done) :
          /\ CommitThen(Finished(said, A, done, failed, state'.used), NoTx)
          /\ passed' = {m \in passed : m.to \notin done} \cup PassedOver(said, A, done)
  /\ ForgetBatch
  /\ UNCHANGED <<touched, letters>>

(* on_feedback comes after the commit: it is committed with what follows.  *)
RouteFeedbackNet ==
  /\ RouteFeedback
  /\ \E v \in FirstVerdict :
       LET t == Feedback[v]
       IN  CommitThen(own, Show(Send(NoTx, {Letter(v, t, "information_request", sentBack'[t])}),
                                {t}, "waiting"))
  /\ UNCHANGED <<drained, prepared, touched, passed, letters>>

FinishFailedNet ==
  /\ FinishFailed \/ FinishCancelled
  /\ CommitThen(own, NoTx)
  /\ ForgetBatch
  /\ UNCHANGED <<touched, passed, letters>>

(* on_workflow_completed comes after the commit.                           *)
FinishCompletedNet ==
  /\ FinishCompleted
  /\ CommitThen(own, Log(NoTx, "workflow_completed", {Orchestrator}))
  /\ ForgetBatch
  /\ UNCHANGED <<touched, passed, letters>>

(* The runner closes the session without a commit.                         *)
CloseNet ==
  /\ Close
  /\ Stage(NoTx)
  /\ UNCHANGED <<drained, prepared, touched, passed, letters>>

(* _record_crash() rolls back.                                             *)
CrashNet ==
  /\ RecordCrash \/ ResumeFinished
  /\ Stage(NoTx)
  /\ ForgetBatch
  /\ UNCHANGED <<touched, passed, letters>>

(* The sweep sends everybody home, if it gets through.                     *)
RestartNet ==
  /\ Restart
  /\ own' = NoTx
  /\ presence' = IF unrecorded' THEN presence ELSE [n \in Nodes |-> "idle"]
  /\ elsewhere' = IF unrecorded' THEN elsewhere ELSE {}
  /\ ForgetBatch
  /\ UNCHANGED <<mail, events, touched, passed, letters>>

-----------------------------------------------------------------------------
(* Through the API, in a transaction of its own.  A message the engine has *)
(* flushed a new status for is locked.  No route looks at the status.      *)

Outside(tx) ==
  /\ letters > 0 /\ letters' = letters - 1
  /\ CommitThen(tx, own)
  /\ UNCHANGED <<vars, drained, prepared, passed>>

Sheet(from, to, w) ==
  [Letter(from, to, w[1], 0) EXCEPT !.needs = w[2], !.rank = w[3]]

SendMessage(from, to) ==
  /\ from # to
  /\ \E w \in Written :
       Outside(Send(NoTx, {Sheet(from, to, w)}))
  /\ UNCHANGED touched

Broadcast(from) ==
  /\ \E w \in Written :
       Outside(Send(NoTx, {Sheet(from, to, w) : to \in Nodes \ {from}}))
  /\ UNCHANGED touched

Free == {m \in DOMAIN mail \ DOMAIN own.mail : m.type \in Handled}

AcknowledgeMessage(m) ==
  Outside(SetStatus(NoTx, {m}, "acknowledged")) /\ touched' = touched \cup {m}

CompleteMessage(m) ==
  Outside(SetStatus(NoTx, {m}, "completed")) /\ touched' = touched \cup {m}

(* fulfill_context_request responds too, to a context request.             *)
RespondToMessage(m) ==
  Outside(Respond(NoTx, {m})) /\ touched' = touched \cup {m}

Outsider ==
  \/ \E from \in Writers :
       Broadcast(from) \/ \E to \in Nodes \cup {Orchestrator} : SendMessage(from, to)
  \/ \E m \in Free : AcknowledgeMessage(m) \/ CompleteMessage(m) \/ RespondToMessage(m)

(* Another workflow the agent is in, or a run of the agent alone, shows it *)
(* doing something.  A row the engine has flushed is locked.               *)
OtherRun(n) ==
  /\ letters > 0 /\ letters' = letters - 1
  /\ n \notin DOMAIN own.presence
  /\ \E status \in RuntimeStatus : presence' = [presence EXCEPT ![n] = status]
  /\ elsewhere' = elsewhere \cup {n}
  /\ UNCHANGED <<vars, mail, events, own, drained, prepared, touched, passed>>

-----------------------------------------------------------------------------
NetworkNext ==
  \/ Quiet
  \/ SettleSkipsNet \/ PauseForApprovalNet \/ PrepareNet
  \/ \E n \in Nodes : PrepareNode(n)
  \/ DispatchNet \/ RecordBatchNet \/ RouteFeedbackNet
  \/ FinishFailedNet \/ FinishCompletedNet \/ CloseNet
  \/ CrashNet \/ RestartNet
  \/ Outsider
  \/ \E n \in Nodes : OtherRun(n)

NetworkSpec == NetworkInit /\ [][NetworkNext]_netVars
=============================================================================
