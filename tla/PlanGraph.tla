------------------------------ MODULE PlanGraph ------------------------------
(***************************************************************************)
(* A validated workflow plan: backend/app/schemas/workflow.py, and the     *)
(* questions backend/app/workflows/engine.py asks of it while scheduling.  *)
(*                                                                         *)
(* A payload is an opaque value; an edge condition or a feedback condition *)
(* is the set of payloads it holds for, which is all that                  *)
(* app/workflows/conditions.py evaluate() lets the engine see.             *)
(***************************************************************************)
EXTENDS Naturals, FiniteSets

CONSTANTS
  Nodes,      \* node keys of the plan
  Edges,      \* pairs <<source, target>>
  AnyJoin,    \* nodes whose join_policy is "any"; the others join on "all"
  Gated,      \* nodes with requires_approval
  Feedback,   \* node -> target of its feedback rule, or NoNode
  Payloads,   \* what a successful agent can answer
  Holds,      \* edge -> the source payloads its condition holds for
  Fires,      \* node -> its own payloads its feedback condition holds for
  Position,   \* node -> its place in plan.nodes
  NoNode,     \* "no feedback rule"
  NoPayload   \* "no result"

(***************************************************************************)
(* What WorkflowPlan's validator guarantees: no key twice, edges join      *)
(* known nodes.  That a feedback target is a node is the planner's doing;  *)
(* nobody asks that it be upstream of the node with the rule.              *)
(***************************************************************************)
ASSUME PlanAssumption ==
  /\ IsFiniteSet(Nodes) /\ Nodes # {}
  /\ Edges \subseteq Nodes \X Nodes
  /\ AnyJoin \subseteq Nodes
  /\ Gated \subseteq Nodes
  /\ NoNode \notin Nodes
  /\ Feedback \in [Nodes -> Nodes \cup {NoNode}]
  /\ NoPayload \notin Payloads
  /\ Holds \in [Edges -> SUBSET Payloads]
  /\ Fires \in [Nodes -> SUBSET Payloads]
  /\ Position \in [Nodes -> Nat]
  /\ \A m, n \in Nodes : Position[m] = Position[n] => m = n

Incoming(n) == {e \in Edges : e[2] = n}

DependenciesOf(n) == {e[1] : e \in Incoming(n)}

(***************************************************************************)
(* The nodes reachable from n by at least one edge: the least set that     *)
(* holds n's successors and is closed under successors.  A function, so    *)
(* that TLC computes it once per plan.                                     *)
(***************************************************************************)
ClosedAfter(n, S) == \A e \in Edges : (e[1] = n \/ e[1] \in S) => e[2] \in S

DescendantsOf ==
  [n \in Nodes |-> {m \in Nodes : \A S \in SUBSET Nodes : ClosedAfter(n, S) => m \in S}]

(* mutant: only what directly depends on n is reopened with it             *)
ReopenedDirect(n) == {n} \cup {e[2] : e \in {x \in Edges : x[1] = n}}

(* mutant: only n itself is reopened                                       *)
ReopenedAlone(n) == {n}

(* The nodes a repair or an operator's retry of n puts back to waiting.    *)
Reopened(n) == {n} \cup DescendantsOf[n]

(***************************************************************************)
(* The validator's last check: no node reaches itself.                     *)
(***************************************************************************)
ASSUME AcyclicAssumption == \A n \in Nodes : n \notin DescendantsOf[n]

-----------------------------------------------------------------------------
(* Scheduling questions.  out: node -> payload of its last success;        *)
(* skipped: nodes settled without running.                                 *)

Resolved(out, skipped, n) == out[n] # NoPayload \/ n \in skipped

(* mutant: a skipped dependency does not count as settled                  *)
ReadyAfterSuccess(out, skipped) ==
  {n \in Nodes : /\ ~Resolved(out, skipped, n)
                 /\ \A d \in DependenciesOf(n) : out[d] # NoPayload}

ReadyNodes(out, skipped) ==
  {n \in Nodes : /\ ~Resolved(out, skipped, n)
                 /\ \A d \in DependenciesOf(n) : Resolved(out, skipped, d)}

(* mutant: the edge's condition is not evaluated                           *)
EdgeUnconditional(e, out, skipped) ==
  /\ e[1] \notin skipped
  /\ out[e[1]] # NoPayload

EdgeSatisfied(e, out, skipped) ==
  /\ e[1] \notin skipped
  /\ out[e[1]] # NoPayload
  /\ out[e[1]] \in Holds[e]

(* _skip_reason(...) is None                                               *)
JoinSatisfied(n, out, skipped) ==
  IF n \in AnyJoin /\ Incoming(n) # {}
    THEN \E e \in Incoming(n) : EdgeSatisfied(e, out, skipped)
    ELSE \A e \in Incoming(n) : EdgeSatisfied(e, out, skipped)
=============================================================================
