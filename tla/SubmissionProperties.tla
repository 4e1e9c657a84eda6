----------------------- MODULE SubmissionProperties ------------------------
(***************************************************************************)
(* What a submission must get right: every capability asked for is covered *)
(* exactly once by enabled agents, the graph drawn over the agents is a    *)
(* plan the engine can finish and that hands every result to those who     *)
(* need it, a designed team meets what its compiler relies on, and turns   *)
(* of a conversation stay with one operator.                               *)
(***************************************************************************)
EXTENDS Submission

(* Type correctness of the submission's state.                             *)
SubmissionTypeOK ==
  /\ enabled \subseteq Agents
  /\ request \in Request \cup {NoRequest}
  /\ at \in Places /\ (at = "idle" <=> request = NoRequest)
  /\ required \subseteq Capability /\ remaining \subseteq Capability
  /\ covers \in [Agents -> SUBSET Capability]
  /\ chosen \in [Agents -> SUBSET Capability]
  /\ needs \in [Agents -> SUBSET Agents] /\ todo \subseteq Agents
  /\ parent \in Nat
  /\ plan = NoPlan \/ plan.steps = Selected
  /\ tx.task \in {"none", "failed", "pending"} /\ tx.workflow \in BOOLEAN
  /\ db.tasks \in Nat
  /\ DOMAIN db.workflows = 1 .. Len(db.workflows)
  /\ served \in 0 .. MaxRequests
  /\ toggles \in 0 .. MaxToggles /\ faults \in 0 .. MaxFaults

-------------------------- (* Selection (selection.py) *) -------------------

Automatic == request # NoRequest /\ request.roster = {}

(* _select_minimal: at every turn of the greedy loop the capabilities still *)
(* uncovered and those assigned to agents make up what is required, no two  *)
(* agents are assigned one capability and none is assigned what it does not *)
(* provide; and whatever is uncovered is offered by an agent not yet        *)
(* chosen, so that the loop's "if not covered: break" is never taken and    *)
(* it ends only with everything covered.                                    *)
CoveredOnce ==
  /\ \A a \in Agents : chosen[a] \subseteq Provides[a]
  /\ Automatic /\ at \notin {"brief", "analysing", "models", "parent", "selecting",
                             "refusing"} =>
       /\ required = remaining \cup UNION {chosen[a] : a \in Agents}
       /\ \A a \in Agents : chosen[a] \cap remaining = {}
       /\ \A a, b \in Agents : a # b => chosen[a] \cap chosen[b] = {}
       /\ remaining \subseteq UNION {covers[a] : a \in Agents}
       /\ at # "covering" => remaining = {}

---------------------------- (* Plans (planner.py) *) -----------------------

Drafted == at \in {"reducing", "assembling"}

(* The planner's rank comparison is what makes a cycle impossible: whatever *)
(* was selected, by the greedy choice or by an operator who forces agents   *)
(* of many capabilities, the validator finds a plan with steps and no loop, *)
(* so that a request past selection is never refused for its graph.         *)
StagesForbidCycles ==
  at = "assembling" => Selected # {} /\ ~Circular(Selected, Edges)

(* Whoever is found by following dependencies from a.                       *)
ReachedFrom(a) ==
  {x \in Selected : \A S \in SUBSET Selected :
     (needs[a] \subseteq S /\ \A b \in S : needs[b] \subseteq S) => x \in S}

(* _reduce works in place, on dependencies some of which were reduced       *)
(* before: at the end every step is still after everything it consumes and  *)
(* no step but a report takes an input that another of its inputs already   *)
(* passes on.                                                               *)
WorkReaches ==
  at = "assembling" =>
    \A a \in Selected :
      /\ Direct(a) \subseteq ReachedFrom(a)
      /\ ~Synthesis(a) => \A b \in needs[a] : needs[a] \cap ReachedFrom(b) = {}

(* The office as seed_agents leaves it: the delivered agents are registered  *)
(* with what builtin.py says of them, and update_agent changed none of them *)
(* since.                                                                   *)
DeliveredOffice ==
  \A a \in DOMAIN BUILTIN_AGENTS :
    /\ a \in Agents
    /\ Provides[a] = BUILTIN_AGENTS[a].provides /\ Emits[a] = BUILTIN_AGENTS[a].emits

(* Work is sent back, and edges are taken or not, on what a step is certain *)
(* to say: an agent of the delivered office whose output a plan looks at    *)
(* has the field in its schema ("a condition on a field an agent never      *)
(* emits would skip work permanently", planner.py:98-100), and a verdict   *)
(* sends work back to one step at most, an input of the one that judges.    *)
FieldsGuaranteed ==
  plan # NoPlan =>
    /\ \A e \in plan.edges :
         e[1] \in DOMAIN BUILTIN_AGENTS => plan.condition[e] \subseteq Emits[e[1]]
    /\ \A a \in plan.steps :
         /\ Cardinality(plan.feedback[a]) <= 1
         /\ \A r \in plan.feedback[a] :
              /\ <<r[2], a>> \in plan.edges
              /\ a \in DOMAIN BUILTIN_AGENTS => r[1] \in Emits[a]

------------------------ (* Teams (team_designer.py) *) ---------------------

(* Whatever a model proposes, the team compiled has one synthesizer, which  *)
(* comes last, reads every other member's result and is read by nobody who  *)
(* would wait for it, and it is no larger than the cap allows.              *)
TeamIsSound ==
  at = "recording" /\ team # <<>> =>
    LET last == Len(team)
        keys == Keys(team)
    IN /\ \A i \in DOMAIN team : team[i].synthesizer <=> i = last
       /\ Len(team) <= AtLeastOne(MaxAgents - 1) + 1
       /\ ~Circular(keys, CompiledEdges(team))
       /\ \A k \in keys \ {StepKey(team, last)} :
            \A S \in SUBSET keys :
              k \in S /\ (\A e \in CompiledEdges(team) : e[1] \in S => e[2] \in S)
                => StepKey(team, last) \in S

---------------------------- (* Conversations *) ----------------------------

(* A follow-up is linked to an earlier workflow of the same operator or to  *)
(* none, so a conversation is one operator's and load_thread, which walks   *)
(* the links, ends.                                                         *)
ThreadsOwned ==
  \A i \in DOMAIN db.workflows :
    LET p == db.workflows[i].parent
    IN p # 0 => p < i /\ db.workflows[p].owner = db.workflows[i].owner

(* A run is turned away for want of an agent only where an operator has     *)
(* disabled one: what a brief's words or a model can ask for, the delivered *)
(* office has.                                                              *)
TurnedAway ==
  [][tx.task # "failed" /\ tx'.task = "failed"
       => \E a \in Agents : a \notin enabled /\ Provides[a] \cap required # {}]_vars
=============================================================================
