------------------------- MODULE NetworkProperties -------------------------
(***************************************************************************)
(* What the mail of module AgentNetwork must do beside the workflow.       *)
(***************************************************************************)
EXTENDS AgentNetwork

(* Every variable of the network has its type.                             *)
Mailbox(box) ==
  DOMAIN box \subseteq Message /\ \A m \in DOMAIN box : box[m] \in MessageStatus

NetworkTypeOK ==
  /\ Mailbox(mail) /\ Mailbox(own.mail)
  /\ presence \in [Nodes -> RuntimeStatus]
  /\ \A n \in DOMAIN own.presence : n \in Nodes /\ own.presence[n] \in RuntimeStatus
  /\ DOMAIN drained = Nodes /\ \A n \in Nodes : drained[n] \subseteq Message
  /\ prepared \subseteq Nodes /\ elsewhere \subseteq Nodes
  /\ touched \cup passed \subseteq DOMAIN mail
  /\ letters \in 0 .. MaxLetters

-----------------------------------------------------------------------------
(* The letter that hands the result of attempt turn of d on to n.          *)
IsHandoff(m, d, n, turn) ==
  m.type = "task_request" /\ m.from = d /\ m.to = n /\ m.turn = turn

(* A result on record was handed on: whoever depends on a completed step   *)
(* has, on record, the request that carries the very attempt on record,    *)
(* through repairs, retries, crashes and resumes; the two are one commit   *)
(* (run(), _handoff).                                                      *)
HandoffOnRecord ==
  \A e \in Edges : node[e[1]] = "completed" =>
    \E m \in DOMAIN mail : IsHandoff(m, e[1], e[2], tries[e[1]])

(* "work does not start until unread envelopes for this workflow are read" *)
(* (drain_inbox): a step is not called while the letter that hands it one  *)
(* of the results it is called with lies unread, unless the page it read   *)
(* was full of mail as pressing.                                           *)
FullPage(page, m) == Cardinality(page) = PageSize /\ \A o \in page : o.rank <= m.rank

HandedOver(box, n) ==
  \A d \in DependenciesOf(n) : state.out[d] # NoPayload =>
    \E m \in DOMAIN box : /\ IsHandoff(m, d, n, state.used[d])
                          /\ box[m] # "delivered" \/ FullPage(drained[n], m)

HandoffRead == pc = "calling" => \A n \in batch : HandedOver(mail, n)

(* A step on record as running is shown at work on the floor, whatever the *)
(* engine flushed and lost, and whether it still runs or its process died, *)
(* unless another run of its agent has written the row since               *)
(* (on_node_start, mark_interrupted_runs).                                 *)
RunningIsShown ==
  \A n \in Nodes : node[n] = "running" => presence[n] = "working" \/ n \in elsewhere

(* Why it holds: in each commit the desks follow the statuses.  What the   *)
(* engine's transaction shows as running is shown at work in it, but for   *)
(* the members whose turn of the preparation is still to come, and no      *)
(* entity hides a running row from the engine.                             *)
IsTx(tx) ==
  /\ tx = [mail |-> tx.mail, presence |-> tx.presence, events |-> tx.events]
  /\ tx.presence = [n \in DOMAIN tx.presence |-> tx.presence[n]]

DeskIn(tx, n) == IF n \in DOMAIN tx.presence THEN tx.presence[n] ELSE presence[n]

AtWork(tx, n) == DeskIn(tx, n) = "working" \/ n \in elsewhere \ DOMAIN tx.presence

ShownInv ==
  /\ IsTx(own)
  /\ presence = [n \in Nodes |-> presence[n]]
  /\ DOMAIN own.presence \subseteq Nodes
  /\ pc \notin {"preparing", "calling"} => prepared = {}
  /\ pc \notin Looping => dirty = {}
  /\ pc \in Looping => \A n \in Nodes : Own(n) = "running" => Entity(n) = "running"
  /\ \A n \in Nodes : Own(n) = "running" =>
       AtWork(own, n) \/ (pc = "preparing" /\ n \in batch \ prepared)
  /\ RunningIsShown

Answers(r, m) ==
  r.re = m.at /\ r.from = m.to /\ r.to = m.from /\ r.type = ReplyType(m.type)

(* Nobody is answered twice: a question has two replies only after         *)
(* somebody set its status from outside - not after a repair, a retry or a *)
(* resume of the step that answered (respond, reply_to_waiting_peers).     *)
AnsweredOnce ==
  LET Replies == {r \in DOMAIN mail : r.re > 0}
  IN  \A m \in DOMAIN mail \ touched : m.needs =>
        Cardinality({r \in Replies : Answers(r, m)}) <= 1

(* "Close out information/task requests still waiting on this agent"       *)
(* (reply_to_waiting_peers): every request to a step of done that is still *)
(* open came after the letter in which the step reported its attempt turn, *)
(* or was beyond the pages the step looked at then.                        *)
IsReport(m, n, turn) ==
  m.type = "task_response" /\ m.from = n /\ m.to = Orchestrator /\ m.turn = turn[n]

IsOpen(box, m) == Asks(m) /\ box[m] # "completed"

ClosedOut(box, except, done, turn) ==
  \A n \in done : \A m \in DOMAIN box \ except : m.to = n /\ IsOpen(box, m) =>
    \A report \in DOMAIN box : IsReport(report, n, turn) => report.at < m.at

Done == {n \in Nodes : node[n] = "completed"}

(* So it is while a step's result is on record.                            *)
NoRequestForgotten == ClosedOut(mail, touched \cup passed, Done, tries)

(* Why these hold of the committed mail: they hold of what the engine's    *)
(* transaction shows as well.  A letter is later than all there are;       *)
(* questions sent in one statement differ in what their reply would say; a *)
(* question is answered when it is completed; a member that is prepared    *)
(* has read what was handed to it; and mail once read is not lost while it *)
(* may have to be completed.                                               *)
Timed(box, b) == \A m \in DOMAIN box : m.re < m.at /\ m.at <= b

SameReply(x, m) ==
  x.from = m.from /\ x.to = m.to /\ ReplyType(x.type) = ReplyType(m.type)

Distinct(M) == \A m, x \in M : m.needs /\ x.at = m.at /\ SameReply(x, m) => x = m

AnsweredIn(box, except) ==
  \A m \in DOMAIN box \ except : \A r \in DOMAIN box :
    m.needs /\ r.re > 0 /\ Answers(r, m) =>
      /\ box[m] = "completed"
      /\ \A q \in DOMAIN box : q.re > 0 /\ Answers(q, m) => q = r

BoxOK(box, except, left, done, turn) ==
  /\ Mailbox(box)
  /\ Distinct(DOMAIN box)
  /\ AnsweredIn(box, except)
  /\ ClosedOut(box, except \cup left, done, turn)

MailInv ==
  /\ NetworkTypeOK
  /\ BoxOK(mail, touched, passed, Done, tries)
  /\ BoxOK(Shown(own), touched, passed, Done, tries)
  /\ \E b \in Nat : Timed(Shown(own), b)
  /\ \A n \in Nodes : drained[n] \subseteq DOMAIN Shown(own)
  /\ pc \notin {"preparing", "calling"} => \A n \in Nodes : drained[n] = {}
  /\ \A n \in Done : tries[n] > 0
  /\ HandoffOnRecord
  /\ pc = "preparing" => \A n \in prepared : HandedOver(Shown(own), n)
  /\ HandoffRead
=============================================================================
