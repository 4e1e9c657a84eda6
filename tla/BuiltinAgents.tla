---------------------------- MODULE BuiltinAgents ---------------------------
(***************************************************************************)
(* The office as it is delivered: the capabilities agents are chosen by,   *)
(* which of them the words of a brief can signal, and the nine agents of   *)
(* agents/builtin.py.  An agent is reduced to what selection, planning and *)
(* routing read: capabilities, the fields its output always has, the traits *)
(* it needs of a model and likes in one, the context it needs (in thousands *)
(* of tokens), its cost ceiling (in cents) and its attempts.               *)
(***************************************************************************)
EXTENDS Naturals

Capability ==
  {"task.decomposition", "task.general", "research.web", "research.summarisation",
   "research.source_extraction", "code.generation", "code.modification",
   "code.debugging", "security.vulnerability_analysis", "security.recommendation",
   "security.dependency_audit", "testing.generation", "testing.analysis",
   "testing.execution", "review.code", "review.quality", "documentation.authoring",
   "documentation.report", "data.cleaning"}

(* The groups the planner's tables are written in.                          *)
Group ==
  [planning  |-> {"task.decomposition"},
   general   |-> {"task.general"},
   research  |-> {"research.web", "research.summarisation", "research.source_extraction"},
   data      |-> {"data.cleaning"},
   security  |-> {"security.vulnerability_analysis", "security.recommendation",
                  "security.dependency_audit"},
   code      |-> {"code.generation", "code.modification", "code.debugging"},
   testing   |-> {"testing.generation", "testing.analysis", "testing.execution"},
   review    |-> {"review.code", "review.quality"},
   synthesis |-> {"documentation.authoring", "documentation.report"}]

GroupOf(c) == CHOOSE g \in DOMAIN Group : c \in Group[g]

(* Capabilities some keyword stands for; the others are only ever named by  *)
(* a model or come with a roster.                                           *)
Signalled ==
  {"security.vulnerability_analysis", "security.dependency_audit", "code.generation",
   "code.modification", "code.debugging", "testing.generation", "testing.analysis",
   "research.web", "research.summarisation", "review.code", "documentation.authoring",
   "documentation.report", "data.cleaning"}

Trait == {"reasoning", "coding", "fast", "cheap", "long_context", "structured_output"}

(* AgentLimits, ModelPreference and RetryPolicy where an agent sets none.   *)
Ordinary ==
  [provides |-> {}, emits |-> {}, required |-> {}, preferred |-> {}, context |-> 8,
   cost |-> 50, attempts |-> 2]

PLANNING_AGENT ==
  [Ordinary EXCEPT !.provides = Group.planning, !.emits = {"steps"},
                   !.required = {"reasoning"}, !.preferred = {"structured_output"},
                   !.cost = 25]
RESEARCH_AGENT ==
  [Ordinary EXCEPT !.provides = Group.research, !.emits = {"findings"},
                   !.preferred = {"long_context", "fast"}, !.context = 32, !.cost = 40]
SECURITY_AGENT ==
  [Ordinary EXCEPT !.provides = Group.security, !.emits = {"findings"},
                   !.required = {"reasoning"}, !.preferred = {"coding"}, !.cost = 75]
CODING_AGENT ==
  [Ordinary EXCEPT !.provides = Group.code, !.emits = {"changes", "summary"},
                   !.required = {"coding"}, !.preferred = {"reasoning"}, !.context = 64,
                   !.cost = 150, !.attempts = 3]
TESTING_AGENT ==
  [Ordinary EXCEPT !.provides = Group.testing, !.emits = {"passed"},
                   !.required = {"coding"}, !.cost = 90]
REVIEW_AGENT ==
  [Ordinary EXCEPT !.provides = Group.review, !.emits = {"approved"},
                   !.required = {"reasoning"}, !.preferred = {"coding"}, !.cost = 80]
DOCUMENTATION_AGENT ==
  [Ordinary EXCEPT !.provides = Group.synthesis, !.emits = {"document"},
                   !.preferred = {"fast", "long_context"}, !.context = 32, !.cost = 40]
DATA_CLEANER_AGENT ==
  [Ordinary EXCEPT !.provides = Group.data,
                   !.emits = {"summary", "cleaned_data", "change_summary"},
                   !.preferred = {"structured_output", "long_context"}, !.context = 32,
                   !.cost = 40]
GENERAL_AGENT ==
  [Ordinary EXCEPT !.provides = Group.general, !.emits = {"summary", "answer"},
                   !.preferred = {"reasoning", "structured_output"}, !.cost = 75]

BUILTIN_AGENTS ==
  [id \in {"planning-agent", "research-agent", "security-agent", "coding-agent",
           "testing-agent", "review-agent", "documentation-agent",
           "data-cleaner-agent", "general-agent"} |->
     CASE id = "planning-agent"      -> PLANNING_AGENT
       [] id = "research-agent"      -> RESEARCH_AGENT
       [] id = "security-agent"      -> SECURITY_AGENT
       [] id = "coding-agent"        -> CODING_AGENT
       [] id = "testing-agent"       -> TESTING_AGENT
       [] id = "review-agent"        -> REVIEW_AGENT
       [] id = "documentation-agent" -> DOCUMENTATION_AGENT
       [] id = "data-cleaner-agent"  -> DATA_CLEANER_AGENT
       [] id = "general-agent"       -> GENERAL_AGENT]

(* Ids are compared character by character when coverage and price tie, and *)
(* when two steps are of one stage.                                         *)
Alphabet == <<"coding-agent", "data-cleaner-agent", "documentation-agent",
              "general-agent", "planning-agent", "research-agent", "review-agent",
              "security-agent", "testing-agent">>
=============================================================================
