------------------------ MODULE ExecutionProperties ------------------------
(***************************************************************************)
(* What the calls behind a batch must guarantee.                           *)
(***************************************************************************)
EXTENDS AgentExecution

Places == {"none", "waiting", "choosing", "calling", "backoff", "done", "raised"}

Members ==
  [at : Places, try : Nat, cand : Nat, gone : SUBSET Providers, allowed : Nat,
   cost : Nat, last : Kinds \cup {"none"}, tried : SUBSET Nat]

Records ==
  [total : Nat, verdict : [Steps -> {"none", "succeeded", "failed"}],
   attempts : [Steps -> Nat]]

(* The type of every variable. *)
TypeOK ==
  /\ pc \in {"idle", "loop", "calling", "recording"}
  /\ run \in 0 .. MaxRuns
  /\ remaining \in Nat
  /\ batch \in SUBSET Steps /\ todo \in SUBSET batch
  /\ member \in [Runs -> [Steps -> Members]]
  /\ tx \in Records /\ db \in Records
  /\ batches \in Nat /\ faults \in Nat

(* A batch may overshoot the budget, because its members cannot reserve      *)
(* against each other, but only one: spend is added to the record only if    *)
(* the record was below the budget, through crashes and resumes as well.     *)
BudgetHeld == [][db'.total > db.total => db.total < Budget]_vars

(* A step fails for a reason another try could mend only after its last      *)
(* attempt, and after that attempt called every ranked model, but for those  *)
(* of vendors that turned out to be down.                                    *)
NoModelLeftOut ==
  \A r \in Runs, s \in Steps :
    LET m == member[r][s]
    IN  m.at = "done" /\ m.last \in Retryable =>
          /\ m.try = MaxAttempts[s]
          /\ \A j \in DOMAIN Ranked[s] :
               j \in m.tried \/ ProviderOf[Ranked[s][j]] \in m.gone

(* Within one attempt no model is called twice, and no model of a vendor     *)
(* that was found to be down.                                                *)
NoRecall ==
  [][\A r \in Runs, s \in Steps :
       LET m == member[r][s]
       IN  m.at = "choosing" /\ member'[r][s].at = "calling" =>
             /\ m.cand \notin m.tried
             /\ ProviderOf[Ranked[s][m.cand]] \notin m.gone]_vars

(* Seen from the loop a batch is what WorkflowEngine takes it to be.         *)
Contract == INSTANCE BatchContract WITH
  phase    <- IF pc \in {"calling", "recording"} THEN "busy" ELSE pc,
  verdict  <- db.verdict,
  attempts <- db.attempts

ImplementsContract == Contract!Spec

(* A batch that was dispatched ends: its members wait for each other's       *)
(* permits, retry and fall back, but not for ever.                           *)
BatchEnds == pc \in {"calling", "recording"} ~> pc \in {"loop", "idle"}
-----------------------------------------------------------------------------
(* What the repository says of itself.                                       *)

(* "each agent's own hard ceiling still applies" (_execute_batch): what a    *)
(* step costs is at most its agent's limit for each attempt.                 *)
CeilingHolds ==
  \A r \in Runs, s \in Steps : member[r][s].cost <= member[r][s].try * Limit[s]
=============================================================================
