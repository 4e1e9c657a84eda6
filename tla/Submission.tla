----------------------------- MODULE Submission -----------------------------
(***************************************************************************)
(* From a request to a plan on record: services/orchestration_service.py,  *)
(* the analysers, the selector and the planner behind it, model pins, and  *)
(* the team designed for a generative request.                             *)
(*                                                                         *)
(* A request is served by one coroutine with one database session.  What   *)
(* it writes is in "tx" until it commits; an exception rolls it back.      *)
(* Loops of the selector and planner are one action per iteration.         *)
(* Requests of several operators are served one after the other: they      *)
(* share only committed rows and the enabled flags, which may change at    *)
(* any step.                                                               *)
(***************************************************************************)
EXTENDS TeamDesign, BuiltinAgents

CONSTANTS
  Agents,        \* registered agents; a step of a plan is named by its agent
  Provides,      \* agent -> its capabilities
  Price,         \* agent -> limits.max_cost_usd
  Emits,         \* agent -> the fields its output schema requires
  IdOrder,       \* agent -> place of its id in the alphabet
  Models,        \* catalogue ids anybody may ask for
  Available,     \* those of configured providers
  NoModel,
  Analyses,      \* what the analysing model may name, known capabilities only
  Owners,
  Requests,      \* what operators submit: a subset of Request
  NoRequest,
  Designs,       \* what a model may propose as a team
  FallbackTeam,  \* the team used when it proposes nothing of use
  Threshold,     \* _DECOMPOSITION_THRESHOLD
  MaxRequests,   \* bound: requests served
  MaxToggles,    \* bound: agents enabled or disabled meanwhile
  MaxFaults      \* bound: exceptions, such as a lost database connection

Strategy == {"auto", "one", "mixed"}
Pins == [Agents -> Models \cup {NoModel}]
NoPins == [a \in Agents |-> NoModel]

(* clear: the brief has a word that is not filler; words: the capabilities  *)
(* its keywords signal; steps: it uses a multi-step phrase; parent: the     *)
(* number of the workflow it follows up, or 0.                              *)
Request ==
  [kind : {"run", "preview", "generative"}, owner : Owners, clear : BOOLEAN,
   words : SUBSET Signalled, steps : BOOLEAN, roster : SUBSET Agents,
   strategy : Strategy, shared : Models \cup {NoModel}, overrides : Pins,
   approval : BOOLEAN, parent : 0 .. MaxRequests]

ASSUME SubmissionAssumption ==
  /\ IsFiniteSet(Agents) /\ Agents # {}
  /\ Provides \in [Agents -> SUBSET Capability]
  /\ \A a \in Agents : Provides[a] # {}
  /\ Price \in [Agents -> Nat]
  /\ IdOrder \in [Agents -> Nat]
  /\ \A a, b \in Agents : IdOrder[a] = IdOrder[b] => a = b
  /\ Available \subseteq Models /\ NoModel \notin Models
  /\ Requests \subseteq Request /\ NoRequest \notin Request
  /\ Analyses \subseteq SUBSET Capability
  /\ Designs \subseteq Seq(Member)
  /\ \E analyst, specialist, writer \in Roles :
       FallbackTeam = DefaultTeam(analyst, specialist, writer)
  /\ MaxRequests \in Nat /\ MaxToggles \in Nat /\ MaxFaults \in Nat

VARIABLES
  enabled,    \* agents that are enabled
  request,    \* the request being served, as normalised by its validator
  at,         \* where its coroutine is
  required,   \* capabilities it needs
  covers,     \* agent -> required capabilities it offers (by_agent)
  remaining,  \* required capabilities not covered yet
  chosen,     \* agent -> capabilities it was chosen for, {} if it was not
  needs,      \* agent -> agents its step depends on (dependencies)
  todo,       \* steps whose dependencies are still to be reduced
  parent,     \* the workflow the new one follows up, or 0
  plan,       \* the plan drawn up, or NoPlan
  team,       \* the team designed for a generative request, or <<>>
  tx,         \* rows written and not committed
  db,         \* committed rows: tasks and workflows
  served, toggles, faults

vars == <<enabled, request, at, required, covers, remaining, chosen, needs,
          todo, parent, plan, team, tx, db, served, toggles, faults>>

------------------------------- (* Tables *) --------------------------------

StageRank ==
  [planning |-> 0, general |-> 5, research |-> 10, data |-> 15, security |-> 20,
   code |-> 30, testing |-> 40, review |-> 50, synthesis |-> 60]

(* What a step has to see before it can do useful work.                    *)
Consumes ==
  [planning |-> {}, general |-> {}, research |-> {"planning"}, data |-> {"planning"},
   security |-> {"planning"}, code |-> {"planning", "research", "security"},
   testing |-> {"planning", "code"}, review |-> {"planning", "code"},
   synthesis |-> {"planning"}]

(* mutant: planning, too, is a condition for writing code                   *)
MoreConditions == {<<"security", "code", "findings">>, <<"planning", "code", "findings">>}

(* _EDGE_CONDITIONS and _FEEDBACK_RULES: the groups of two steps, and the   *)
(* field of the first one's, or the judging one's, output that is looked at.*)
EdgeConditions == {<<"security", "code", "findings">>}
FeedbackRules  == {<<"testing", "code", "passed">>, <<"review", "code", "approved">>}

------------------------------- (* Queries *) -------------------------------

Classes(a)  == {GroupOf(c) : c \in chosen[a]}
Selected    == {a \in Agents : chosen[a] # {}}
Synthesis(a) == "synthesis" \in Classes(a)
Consumed(a) == UNION {Consumes[k] : k \in Classes(a)}

(* The earliest stage among what an agent was chosen for.                   *)
Stage(a) == CHOOSE r \in {StageRank[k] : k \in Classes(a)} :
              \A k \in Classes(a) : r <= StageRank[k]

(* Order of the steps: by stage, then by id.                                *)
Before(a, b) == \/ Stage(a) < Stage(b)
                \/ Stage(a) = Stage(b) /\ IdOrder[a] < IdOrder[b]

FirstOf(S) == CHOOSE a \in S : \A b \in S \ {a} : Before(a, b)

(* mutant: agents of one stage may depend on one another                    *)
DirectOrSame(a) ==
  {b \in Selected \ {a} : /\ Stage(b) <= Stage(a)
                          /\ Consumed(a) \cap Classes(b) # {} \/ Synthesis(a)}

(* _build_edges, before reduction.                                          *)
Direct(a) ==
  {b \in Selected : /\ Stage(b) < Stage(a)
                    /\ Consumed(a) \cap Classes(b) # {} \/ Synthesis(a)}

(* mutant: an input that has inputs of its own is dropped                   *)
ImpliedTooMuch(a) == {b \in needs[a] : needs[b] # {}}

(* _reduce: what is found by following dependencies from dependencies.      *)
Implied(a) ==
  {x \in Selected : \A S \in SUBSET Selected :
     (/\ \A b \in needs[a] : needs[b] \subseteq S
      /\ \A b \in S : needs[b] \subseteq S) => x \in S}

(* mutant: coverage is looked up among agents that provide everything       *)
OffersWhole(a) ==
  IF a \in enabled /\ required \subseteq Provides[a] THEN required ELSE {}

(* find_by_capabilities reads enabled agents only.                          *)
Offers(a) == IF a \in enabled THEN Provides[a] \cap required ELSE {}

(* Greedy choice: most coverage, then cheapest, then first by id.           *)
Better(a, b) ==
  LET ca == Cardinality(covers[a] \cap remaining)
      cb == Cardinality(covers[b] \cap remaining)
  IN \/ ca > cb
     \/ ca = cb /\ Price[a] < Price[b]
     \/ ca = cb /\ Price[a] = Price[b] /\ IdOrder[a] < IdOrder[b]

(* HeuristicCapabilityAnalyser: nothing recognised goes to a generalist,    *)
(* and several areas or steps need decomposition.                           *)
Heuristic(r) ==
  LET found == IF r.words = {} THEN Group.general ELSE r.words
  IN IF Cardinality(found) >= Threshold \/ r.steps
     THEN found \cup Group.planning ELSE found

(* TaskRequest's validator: overrides make "auto" "mixed", and each         *)
(* strategy comes with its own pins.                                        *)
Normalised(r) ==
  IF r.strategy = "auto" /\ r.overrides # NoPins
  THEN [r EXCEPT !.strategy = "mixed"] ELSE r

Valid(r) ==
  CASE r.strategy = "one"   -> r.shared # NoModel /\ r.overrides = NoPins
    [] r.strategy = "mixed" -> r.shared = NoModel /\ r.overrides # NoPins
    [] OTHER                -> r.shared = NoModel

PinsAsked(r) == ({r.shared} \cup {r.overrides[a] : a \in Agents}) \ {NoModel}

(* apply_routing_to_plan.                                                   *)
PinOf(r, a) == CASE r.strategy = "one"   -> r.shared
                 [] r.strategy = "mixed" -> r.overrides[a]
                 [] OTHER                -> NoModel


-------------------------------- (* State *) --------------------------------

NoOne  == [a \in Agents |-> {}]
NoPlan == [steps |-> {}, edges |-> {}, condition |-> <<>>, anyJoin |-> {},
           gated |-> {}, feedback |-> NoOne, pins |-> NoPins]
NoRows == [task |-> "none", workflow |-> FALSE]

Places == {"idle", "brief", "analysing", "models", "parent", "selecting",
           "covering", "drafting", "reducing", "assembling", "recording",
           "committing", "refusing", "designing", "compiling"}

Init ==
  /\ enabled = Agents
  /\ request = NoRequest /\ at = "idle"
  /\ required = {} /\ covers = NoOne /\ remaining = {} /\ chosen = NoOne
  /\ needs = NoOne /\ todo = {} /\ parent = 0 /\ plan = NoPlan /\ team = <<>>
  /\ tx = NoRows /\ db = [tasks |-> 0, workflows |-> <<>>]
  /\ served = 0 /\ toggles = 0 /\ faults = 0

World == <<enabled, db, served, toggles, faults>>
Work  == <<required, covers, remaining, chosen, needs, todo, parent, plan, team, tx>>

(* The request is over; what its coroutine held is gone.                    *)
Forget ==
  /\ at' = "idle" /\ request' = NoRequest
  /\ required' = {} /\ covers' = NoOne /\ remaining' = {} /\ chosen' = NoOne
  /\ needs' = NoOne /\ todo' = {} /\ parent' = 0 /\ plan' = NoPlan
  /\ team' = <<>> /\ tx' = NoRows

------------------------------ (* Analysis *) -------------------------------

Receive(r) ==
  /\ at = "idle" /\ served < MaxRequests
  /\ Valid(Normalised(r))
  /\ request' = Normalised(r)
  /\ at' = IF r.kind = "generative" THEN "designing" ELSE "brief"
  /\ served' = served + 1
  /\ UNCHANGED <<enabled, db, toggles, faults, Work>>

(* Only a fresh request with nobody named is checked for being vague.       *)
CheckBrief ==
  /\ at = "brief"
  /\ at' = IF request.parent = 0 /\ request.roster = {} /\ ~request.clear
           THEN "refusing" ELSE "analysing"
  /\ UNCHANGED <<World, Work, request>>

(* The model's answer, reduced to the capabilities it knows, or, when there *)
(* is no model, no answer or nothing known in it, the keywords.             *)
Analyse(named) ==
  /\ at = "analysing" /\ at' = "models"
  /\ required' = IF named = {} THEN Heuristic(request) ELSE named
  /\ UNCHANGED <<World, request, covers, remaining, chosen, needs, todo, parent,
                 plan, team, tx>>

ValidateRoutingModels ==
  /\ at = "models"
  /\ at' = IF PinsAsked(request) \subseteq Available THEN "parent" ELSE "refusing"
  /\ UNCHANGED <<World, Work, request>>

(* mutant: a parent is looked up without its owner                          *)
ResolveAnyParent ==
  /\ at = "parent" /\ at' = "selecting"
  /\ parent' = IF request.kind = "run" /\ request.parent \in DOMAIN db.workflows
               THEN request.parent ELSE 0
  /\ UNCHANGED <<World, request, required, covers, remaining, chosen, needs, todo,
                 plan, team, tx>>

(* A workflow that does not exist or is another owner's is no parent.       *)
ResolveParent ==
  /\ at = "parent" /\ at' = "selecting"
  /\ parent' = IF /\ request.kind = "run"
                  /\ request.parent \in DOMAIN db.workflows
                  /\ db.workflows[request.parent].owner = request.owner
               THEN request.parent ELSE 0
  /\ UNCHANGED <<World, request, required, covers, remaining, chosen, needs, todo,
                 plan, team, tx>>

------------------------------ (* Selection *) ------------------------------

(* Exactly the agents named, each for what it has of the need, or for all   *)
(* it has.                                                                  *)
SelectExact ==
  /\ at = "selecting" /\ request.roster # {}
  /\ IF request.roster \subseteq enabled
     THEN /\ at' = "drafting"
          /\ chosen' = [a \in Agents |->
               IF a \notin request.roster THEN {}
               ELSE IF Provides[a] \cap required = {} THEN Provides[a]
               ELSE Provides[a] \cap required]
     ELSE at' = "refusing" /\ UNCHANGED chosen
  /\ UNCHANGED <<World, request, required, covers, remaining, needs, todo, parent,
                 plan, team, tx>>

(* A run nobody can serve leaves a failed task in the session.              *)
FindCoverage ==
  /\ at = "selecting" /\ request.roster = {}
  /\ IF required \subseteq UNION {Offers(a) : a \in Agents}
     THEN /\ at' = "covering"
          /\ covers' = [a \in Agents |-> Offers(a)] /\ remaining' = required
          /\ UNCHANGED tx
     ELSE /\ at' = "refusing"
          /\ tx' = IF request.kind = "run" THEN [tx EXCEPT !.task = "failed"] ELSE tx
          /\ UNCHANGED <<covers, remaining>>
  /\ UNCHANGED <<World, request, required, chosen, needs, todo, parent, plan, team>>

(* mutant: all an agent offers is noted, not what is still uncovered        *)
PickAll(a) ==
  /\ at = "covering" /\ remaining # {}
  /\ covers[a] \cap remaining # {}
  /\ \A b \in Agents \ {a} : Better(a, b)
  /\ chosen' = [chosen EXCEPT ![a] = covers[a]]
  /\ remaining' = remaining \ covers[a]
  /\ covers' = [covers EXCEPT ![a] = {}]
  /\ UNCHANGED <<World, request, at, required, needs, todo, parent, plan, team, tx>>

(* One turn of the greedy loop.                                             *)
Pick(a) ==
  /\ at = "covering" /\ remaining # {}
  /\ covers[a] \cap remaining # {}
  /\ \A b \in Agents \ {a} : Better(a, b)
  /\ chosen' = [chosen EXCEPT ![a] = covers[a] \cap remaining]
  /\ remaining' = remaining \ covers[a]
  /\ covers' = [covers EXCEPT ![a] = {}]
  /\ UNCHANGED <<World, request, at, required, needs, todo, parent, plan, team, tx>>

Covered ==
  /\ at = "covering" /\ remaining = {}
  /\ at' = "drafting"
  /\ UNCHANGED <<World, Work, request>>

------------------------------- (* Planning *) ------------------------------

Draft ==
  /\ at = "drafting" /\ at' = "reducing"
  /\ needs' = [a \in Agents |-> IF a \in Selected THEN Direct(a) ELSE {}]
  /\ todo' = Selected
  /\ UNCHANGED <<World, request, required, covers, remaining, chosen, parent, plan,
                 team, tx>>

(* Steps in order; a step that reports on the run keeps all its inputs.     *)
Reduce(a) ==
  /\ at = "reducing" /\ todo # {} /\ a = FirstOf(todo)
  /\ todo' = todo \ {a}
  /\ needs' = IF Synthesis(a) THEN needs
              ELSE [needs EXCEPT ![a] = @ \ Implied(a)]
  /\ UNCHANGED <<World, request, at, required, covers, remaining, chosen, parent,
                 plan, team, tx>>

Reduced ==
  /\ at = "reducing" /\ todo = {}
  /\ at' = "assembling"
  /\ UNCHANGED <<World, Work, request>>

Edges == {e \in Selected \X Selected : e[1] \in needs[e[2]]}

(* The rule by which a's verdict sends work back, and the first of its      *)
(* inputs the rule applies to.                                              *)
SentBack(a) ==
  LET applicable ==
        {p \in FeedbackRules \X needs[a] :
          /\ p[1][1] \in Classes(a) /\ p[1][2] \in Classes(p[2])
          /\ \A q \in needs[a] : p[1][2] \in Classes(q) => q = p[2] \/ Before(p[2], q)
          /\ "testing" \in Classes(a) => p[1][1] = "testing"}
  IN {<<p[1][3], p[2]>> : p \in applicable}

ConditionOf(b, a) ==
  {rule[3] : rule \in {r \in EdgeConditions : r[1] \in Classes(b) /\ r[2] \in Classes(a)}}

Drawn ==
  [steps     |-> Selected,
   edges     |-> Edges,
   condition |-> [e \in Edges |-> ConditionOf(e[1], e[2])],
   anyJoin   |-> {a \in Selected : Synthesis(a)},
   gated     |-> IF request.approval
                 THEN {a \in Selected : "code" \in Classes(a)} ELSE {},
   feedback  |-> [a \in Agents |-> IF a \in Selected THEN SentBack(a) ELSE {}],
   pins      |-> [a \in Agents |->
                   IF a \in Selected THEN PinOf(request, a) ELSE NoModel]]

Assemble ==
  /\ at = "assembling"
  /\ plan' = Drawn
  /\ at' = IF Selected = {} \/ Circular(Selected, Edges) THEN "refusing"
           ELSE IF request.kind = "preview" THEN "committing" ELSE "recording"
  /\ UNCHANGED <<World, request, required, covers, remaining, chosen, needs, todo,
                 parent, team, tx>>

--------------------------- (* Generative teams *) ---------------------------

(* The model's design, or the fallback when there is none.                  *)
Design(design) ==
  /\ at = "designing" /\ at' = "compiling"
  /\ team' = IF design = <<>> THEN FallbackTeam ELSE Normalise(design)
  /\ UNCHANGED <<World, request, required, covers, remaining, chosen, needs, todo,
                 parent, plan, tx>>

Compile ==
  /\ at = "compiling"
  /\ at' = IF Compiles(team) THEN "recording" ELSE "refusing"
  /\ UNCHANGED <<World, Work, request>>

------------------------------- (* Recording *) ------------------------------

Record ==
  /\ at = "recording" /\ at' = "committing"
  /\ tx' = [task |-> "pending", workflow |-> TRUE]
  /\ UNCHANGED <<World, request, required, covers, remaining, chosen, needs, todo,
                 parent, plan, team>>

(* The session commits and the request is answered.                         *)
Commit ==
  /\ at = "committing"
  /\ db' = IF tx = NoRows THEN db
           ELSE [db EXCEPT !.tasks = @ + 1,
                   !.workflows = Append(@, [owner |-> request.owner, parent |-> parent])]
  /\ Forget /\ UNCHANGED <<enabled, served, toggles, faults>>

(* mutant: what a refused request held is kept for the next one             *)
RefuseOpen ==
  /\ at = "refusing" /\ at' = "idle"
  /\ UNCHANGED <<World, Work, request>>

(* The route turns the refusal into an HTTPException; get_session rolls     *)
(* back on every exception.                                                 *)
Refuse ==
  /\ at = "refusing"
  /\ Forget /\ UNCHANGED World

(* Any other exception: a lost connection, an adapter's parsing error.      *)
Abort ==
  /\ at # "idle" /\ faults < MaxFaults
  /\ faults' = faults + 1
  /\ Forget /\ UNCHANGED <<enabled, db, served, toggles>>

(* Meanwhile an operator enables or disables an agent.                      *)
Toggle(a) ==
  /\ toggles < MaxToggles /\ toggles' = toggles + 1
  /\ enabled' = IF a \in enabled THEN enabled \ {a} ELSE enabled \cup {a}
  /\ UNCHANGED <<request, at, Work, db, served, faults>>

Next ==
  \/ \E r \in Requests : Receive(r)
  \/ \E named \in Analyses \cup {{}} : Analyse(named)
  \/ CheckBrief \/ ValidateRoutingModels \/ ResolveParent
  \/ SelectExact \/ FindCoverage \/ Covered
  \/ \E a \in Agents : Pick(a) \/ Reduce(a) \/ Toggle(a)
  \/ Draft \/ Reduced \/ Assemble
  \/ \E d \in Designs \cup {<<>>} : Design(d)
  \/ Compile \/ Record \/ Commit \/ Refuse \/ Abort

Spec == Init /\ [][Next]_vars
=============================================================================
