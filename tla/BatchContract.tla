--------------------------- MODULE BatchContract ---------------------------
(***************************************************************************)
(* What a batch of steps promises to the engine's loop: it is dispatched,  *)
(* and it either ends with one verdict for each of its members, each after *)
(* one to MaxAttempts attempts, or it is lost as a whole and leaves        *)
(* nothing on record.  WorkflowEngine takes a batch to be this;            *)
(* AgentExecution is shown to implement it.                                *)
(***************************************************************************)
EXTENDS Naturals, FiniteSets

CONSTANTS
  Steps,        \* the steps of the plan
  MaxAttempts   \* retry_policy.max_attempts of each step's agent

VARIABLES
  phase,        \* "idle": no run; "loop": between batches; "busy": in one
  batch,        \* the members of the batch
  verdict,      \* whether the last execution of each step on record succeeded
  attempts      \* node.attempts, as committed

vars == <<phase, batch, verdict, attempts>>

Init ==
  /\ phase = "idle"
  /\ batch = {}
  /\ verdict = [s \in Steps |-> "none"]
  /\ attempts = [s \in Steps |-> 0]

(* A run, or the resume of one, reaches its loop. *)
Start ==
  /\ phase = "idle"
  /\ phase' = "loop"
  /\ UNCHANGED <<batch, verdict, attempts>>

Dispatch ==
  /\ phase = "loop"
  /\ batch' \in (SUBSET Steps) \ {{}}
  /\ phase' = "busy"
  /\ UNCHANGED <<verdict, attempts>>

(* Every member has its verdict; one failure ends the run. *)
Report ==
  /\ phase = "busy"
  /\ \E ok \in SUBSET batch :
       /\ verdict' = [s \in Steps |-> IF s \in ok THEN "succeeded"
                                      ELSE IF s \in batch THEN "failed"
                                      ELSE verdict[s]]
       /\ phase' = IF ok = batch THEN "loop" ELSE "idle"
  /\ attempts' \in [Steps -> Nat]
  /\ \A s \in batch :
       \E made \in 1 .. MaxAttempts[s] : attempts'[s] = attempts[s] + made
  /\ \A s \in Steps \ batch : attempts'[s] = attempts[s]
  /\ batch' = {}

(* The run ends without a verdict on the batch it was in, if any. *)
Lose ==
  /\ phase # "idle"
  /\ phase' = "idle"
  /\ batch' = {}
  /\ UNCHANGED <<verdict, attempts>>

Next == Start \/ Dispatch \/ Report \/ Lose

Spec == Init /\ [][Next]_vars
=============================================================================
