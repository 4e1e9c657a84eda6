---------------------------- MODULE MCSubmission ----------------------------
(***************************************************************************)
(* Two requests after one another, by two operators, to the delivered      *)
(* office and two enrolled agents, one of which has capabilities of three  *)
(* stages, while an operator enables or disables an agent at any moment.   *)
(***************************************************************************)
EXTENDS SubmissionProperties, TLC

Enrolled ==
  ("allround-1" :> [provides |-> {"research.web", "code.generation", "documentation.report"},
                    emits |-> {"summary"}, cost |-> 150])
  @@ ("archivist-2" :> [provides |-> Group.synthesis, emits |-> {"document"}, cost |-> 40])

MCCatalogue == BUILTIN_AGENTS @@ Enrolled
MCAgents == DOMAIN MCCatalogue
MCProvides == [a \in MCAgents |-> MCCatalogue[a].provides]
MCPrice == [a \in MCAgents |-> MCCatalogue[a].cost]
MCEmits == [a \in MCAgents |-> MCCatalogue[a].emits]
MCIdOrder ==
  [a \in MCAgents |->
    CASE a = "allround-1" -> 0 [] a = "archivist-2" -> 1
      [] OTHER -> 1 + CHOOSE i \in DOMAIN Alphabet : Alphabet[i] = a]

MCModels == {"m1", "m2"}
MCAvailable == {"m1"}
MCOwners == {"ann", "bob"}

Plain == [kind |-> "run", owner |-> "ann", clear |-> TRUE, words |-> {}, steps |-> FALSE,
          roster |-> {}, strategy |-> "auto", shared |-> "none", overrides |-> NoPins,
          approval |-> FALSE, parent |-> 0]

MCRequests ==
  {Plain,
   [Plain EXCEPT !.clear = FALSE],
   [Plain EXCEPT !.words = {"code.modification", "documentation.report"}, !.parent = 1],
   [Plain EXCEPT !.owner = "bob", !.parent = 1,
                 !.words = {"security.dependency_audit", "code.debugging", "testing.analysis"}],
   [Plain EXCEPT !.words = {"code.generation"}, !.steps = TRUE,
                 !.strategy = "one", !.shared = "m1"],
   [Plain EXCEPT !.strategy = "one", !.shared = "m2"],
   [Plain EXCEPT !.kind = "preview", !.words = {"research.web", "code.debugging", "data.cleaning"}],
   [Plain EXCEPT !.overrides = [NoPins EXCEPT !["coding-agent"] = "m1"], !.approval = TRUE,
                 !.words = {"review.code", "code.modification"}],
   [Plain EXCEPT !.roster = {"allround-1", "coding-agent", "testing-agent",
                             "documentation-agent", "archivist-2"},
                 !.words = {"code.debugging"}],
   [Plain EXCEPT !.roster = MCAgents, !.clear = FALSE, !.approval = TRUE],
   [Plain EXCEPT !.kind = "generative"]}

MCAnalyses ==
  {{"security.recommendation", "code.generation", "documentation.report"},
   {"research.web", "code.generation", "code.modification", "code.debugging",
    "review.quality", "documentation.report"},
   {"task.decomposition", "security.dependency_audit", "code.debugging",
    "testing.execution", "review.code", "documentation.report"}}

MCRoles == {"scout", "Scout", "maker", "critic", "writer", "ghost"}
MCSlugOf == [r \in MCRoles |-> IF r = "Scout" THEN "scout" ELSE r]
Role(r, deps, flag) == [role |-> r, dependsOn |-> deps, synthesizer |-> flag]
MCDesigns ==
  {<<Role("scout", {}, FALSE)>>,
   <<Role("writer", {"scout"}, TRUE), Role("scout", {}, FALSE), Role("maker", {"scout"}, TRUE)>>,
   <<Role("scout", {"maker"}, FALSE), Role("maker", {"scout"}, FALSE),
     Role("critic", {"maker"}, FALSE), Role("writer", {}, FALSE)>>,
   <<Role("scout", {"writer"}, FALSE), Role("Scout", {"scout"}, FALSE),
     Role("writer", {"ghost"}, TRUE)>>,
   <<Role("maker", {}, FALSE), Role("maker", {}, FALSE), Role("writer", {}, TRUE)>>}
MCFallbackTeam == DefaultTeam("scout", "maker", "writer")

(* The office of the run is the delivered one, with two agents more.        *)
ASSUME MCOffice == DeliveredOffice
=============================================================================
