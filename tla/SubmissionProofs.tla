-------------------------- MODULE SubmissionProofs --------------------------
(***************************************************************************)
(* Of every office, whatever agents are registered, whatever a model       *)
(* proposes and whoever asks: variables keep their types, every capability *)
(* is covered exactly once, no plan has a cycle, and a conversation is one *)
(* operator's.                                                             *)
(***************************************************************************)
EXTENDS SubmissionProperties, FiniteSetTheorems, WellFoundedInduction, TLAPS

Rows == [task : {"none", "failed", "pending"}, workflow : BOOLEAN]
Turn == [owner : Owners, parent : Nat]
Base == [tasks : Nat, workflows : Seq(Turn)]

(* What is on record and in the open transaction, beside the type.          *)
TypeInv ==
  /\ SubmissionTypeOK
  /\ tx \in Rows /\ db \in Base
  /\ at \notin {"recording", "committing", "refusing"} => plan = NoPlan

Unselected == {"idle", "brief", "analysing", "models", "parent", "selecting",
               "designing", "compiling"}

(* Why coverage is exact: an agent that has been chosen offers nothing any   *)
(* more, and nothing is chosen before selection begins.                      *)
CoverInv ==
  /\ at \in Unselected => chosen = NoOne /\ covers = NoOne /\ remaining = {}
  /\ at \in {"idle", "designing", "compiling"} => required = {}
  /\ \A a \in Agents : covers[a] \subseteq Provides[a]
  /\ \A a \in Agents : chosen[a] # {} => covers[a] = {} \/ at # "covering"
  /\ at = "covering" => request.roster = {}
  /\ CoveredOnce

(* Why graphs have no cycle: there is something to select, and a step        *)
(* depends on steps of earlier stages only, of which reduction takes away.   *)
Staged ==
  /\ at \in {"models", "parent", "selecting", "covering"} => required # {}
  /\ at \in {"drafting", "reducing", "assembling"} => Selected # {}
  /\ at \in {"reducing", "assembling"} =>
       \A a \in Agents : \A b \in needs[a] :
         a \in Selected /\ b \in Selected /\ Stage(b) < Stage(a)

(* Why conversations are one operator's: the parent was found to be.         *)
ParentInv ==
  /\ at = "idle" => parent = 0
  /\ parent # 0 => /\ parent \in DOMAIN db.workflows
                   /\ db.workflows[parent].owner = request.owner
  /\ ThreadsOwned


-----------------------------------------------------------------------------
(* Types.                                                                    *)

LEMMA InitType == Init => TypeInv
  BY SubmissionAssumption DEF Init, TypeInv, SubmissionTypeOK, Places, NoOne, NoPlan,
     NoRows, Rows, Base, Selected

LEMMA NormalisedType ==
  ASSUME NEW r \in Requests
  PROVE  Normalised(r) \in Request
<1>1. r \in Request
  BY SubmissionAssumption
<1> QED  BY <1>1 DEF Normalised, Request, Strategy

LEMMA HeuristicType ==
  ASSUME NEW r \in Request
  PROVE  Heuristic(r) \in SUBSET Capability /\ Heuristic(r) # {}
<1>1. /\ Group.general \subseteq Capability /\ Group.general # {}
      /\ Group.planning \subseteq Capability
  BY DEF Group, Capability
<1>2. r.words \in SUBSET Capability
  BY DEF Request, Signalled, Capability
<1> QED  BY <1>1, <1>2 DEF Heuristic

(* A request that is over leaves nothing behind.                             *)
LEMMA ForgetType ==
  ASSUME TypeInv, Forget, db' \in Base, enabled' \subseteq Agents,
         served' \in 0 .. MaxRequests, toggles' \in 0 .. MaxToggles,
         faults' \in 0 .. MaxFaults
  PROVE  TypeInv'
  BY SubmissionAssumption DEF TypeInv, SubmissionTypeOK, Forget, Places, NoOne, NoPlan,
     NoRows, Rows, Base, Selected

LEMMA NextType == TypeInv /\ [Next]_vars => TypeInv'
<1> SUFFICES ASSUME TypeInv, [Next]_vars PROVE TypeInv'
  OBVIOUS
<1> USE SubmissionAssumption DEF World, Work
<1>0. SubmissionTypeOK /\ tx \in Rows /\ db \in Base
  BY DEF TypeInv
<1>1. ASSUME NEW r \in Requests, Receive(r) PROVE TypeInv'
  <2>1. request' \in Request /\ request' # NoRequest
    BY <1>1, NormalisedType DEF Receive
  <2>2. at' \in {"designing", "brief"} /\ served' \in 0 .. MaxRequests
    BY <1>0, <1>1 DEF Receive, SubmissionTypeOK
  <2> QED  BY <1>0, <1>1, <2>1, <2>2 DEF Receive, TypeInv, SubmissionTypeOK, Places, Selected
<1>2. CASE CheckBrief \/ ValidateRoutingModels \/ Covered \/ Reduced \/ Compile
  <2>1. at' \in {"refusing", "analysing", "parent", "drafting", "assembling", "recording"}
        /\ UNCHANGED <<World, Work, request>> /\ at # "idle" /\ plan = NoPlan
    BY <1>2 DEF CheckBrief, ValidateRoutingModels, Covered, Reduced, Compile, TypeInv
  <2> QED  BY <1>0, <2>1 DEF TypeInv, SubmissionTypeOK, Places, Selected
<1>3. ASSUME NEW named \in Analyses \cup {{}}, Analyse(named) PROVE TypeInv'
  <2>1. request \in Request
    BY <1>0, <1>3 DEF Analyse, SubmissionTypeOK
  <2>2. required' \subseteq Capability
    BY <1>3, <2>1, HeuristicType DEF Analyse
  <2> QED  BY <1>0, <1>3, <2>2 DEF Analyse, TypeInv, SubmissionTypeOK, Places, Selected
<1>4. CASE ResolveParent
  <2>1. request \in Request
    BY <1>0, <1>4 DEF ResolveParent, SubmissionTypeOK
  <2>2. parent' \in Nat
    BY <1>4, <2>1 DEF ResolveParent, Request
  <2> QED  BY <1>0, <1>4, <2>2 DEF ResolveParent, TypeInv, SubmissionTypeOK, Places, Selected
<1>5. CASE SelectExact
  <2>0. chosen \in [Agents -> SUBSET Capability] /\ Provides \in [Agents -> SUBSET Capability]
    BY <1>0 DEF SubmissionTypeOK
  <2>1. chosen' \in [Agents -> SUBSET Capability] /\ at' \in {"drafting", "refusing"}
    <3>1. CASE at' = "refusing"
      BY <1>5, <2>0, <3>1 DEF SelectExact
    <3>2. CASE at' # "refusing"
      <4> DEFINE assigned(a) == IF a \notin request.roster THEN {}
                                ELSE IF Provides[a] \cap required = {} THEN Provides[a]
                                ELSE Provides[a] \cap required
      <4>1. \A a \in Agents : assigned(a) \in SUBSET Capability
        BY <2>0
      <4>2. chosen' = [a \in Agents |-> assigned(a)] /\ at' = "drafting"
        BY <1>5, <3>2 DEF SelectExact
      <4> HIDE DEF assigned
      <4> QED  BY <4>1, <4>2
    <3> QED  BY <3>1, <3>2
  <2>2. plan' = NoPlan /\ request' = request /\ request # NoRequest
    BY <1>0, <1>5 DEF SelectExact, TypeInv, SubmissionTypeOK
  <2> QED  BY <1>0, <1>5, <2>1, <2>2 DEF SelectExact, TypeInv, SubmissionTypeOK, Places
<1>6. CASE FindCoverage
  <2>0. \A a \in Agents : Offers(a) \in SUBSET Capability
    BY <1>0 DEF Offers, SubmissionTypeOK
  <2>1. /\ covers' \in [Agents -> SUBSET Capability] /\ remaining' \subseteq Capability
        /\ at' \in {"covering", "refusing"} /\ tx' \in Rows
    <3>1. covers' \in [Agents -> SUBSET Capability] /\ remaining' \subseteq Capability
      BY <1>0, <1>6, <2>0 DEF FindCoverage, SubmissionTypeOK
    <3>2. at' \in {"covering", "refusing"}
      BY <1>6 DEF FindCoverage
    <3>3. tx' = tx \/ tx' = [tx EXCEPT !.task = "failed"]
      BY <1>6 DEF FindCoverage
    <3>4. tx' \in Rows
      BY <1>0, <3>3 DEF Rows
    <3> QED  BY <3>1, <3>2, <3>4
  <2>2. plan' = NoPlan /\ request' = request /\ request # NoRequest
    BY <1>0, <1>6 DEF FindCoverage, TypeInv, SubmissionTypeOK
  <2> QED  BY <1>0, <1>6, <2>1, <2>2 DEF FindCoverage, TypeInv, SubmissionTypeOK, Places, Rows
<1>7. ASSUME NEW a \in Agents, Pick(a) PROVE TypeInv'
  <2>1. /\ covers' \in [Agents -> SUBSET Capability] /\ remaining' \subseteq Capability
        /\ chosen' \in [Agents -> SUBSET Capability]
    BY <1>0, <1>7 DEF Pick, SubmissionTypeOK
  <2>2. plan' = NoPlan
    BY <1>0, <1>7 DEF Pick, TypeInv
  <2> QED  BY <1>0, <1>7, <2>1, <2>2 DEF Pick, TypeInv, SubmissionTypeOK
<1>8. CASE Draft
  <2>1. needs' \in [Agents -> SUBSET Agents] /\ todo' \subseteq Agents
    BY <1>8 DEF Draft, Direct, Selected
  <2> QED  BY <1>0, <1>8, <2>1 DEF Draft, TypeInv, SubmissionTypeOK, Places, Selected
<1>9. ASSUME NEW a \in Agents, Reduce(a) PROVE TypeInv'
  <2>1. needs' \in [Agents -> SUBSET Agents] /\ todo' \subseteq Agents
    BY <1>0, <1>9 DEF Reduce, SubmissionTypeOK
  <2> QED  BY <1>0, <1>9, <2>1 DEF Reduce, TypeInv, SubmissionTypeOK, Selected
<1>10. CASE Assemble
  <2>1. plan'.steps = Selected' /\ at' \in {"refusing", "committing", "recording"}
    BY <1>10 DEF Assemble, Drawn, Selected
  <2> QED  BY <1>0, <1>10, <2>1 DEF Assemble, TypeInv, SubmissionTypeOK, Places
<1>11. ASSUME NEW d \in Designs \cup {<<>>}, Design(d) PROVE TypeInv'
  BY <1>0, <1>11 DEF Design, TypeInv, SubmissionTypeOK, Places, Selected
<1>12. CASE Record
  BY <1>0, <1>12 DEF Record, TypeInv, SubmissionTypeOK, Places, Rows, Selected
<1>13. CASE Commit
  <2>1. request \in Request
    BY <1>0, <1>13 DEF Commit, SubmissionTypeOK
  <2>2. [owner |-> request.owner, parent |-> parent] \in Turn
    BY <1>0, <2>1 DEF Request, SubmissionTypeOK, Turn
  <2>3. db' \in Base
    <3> DEFINE new == [owner |-> request.owner, parent |-> parent]
    <3>1. db' = db \/ db' = [db EXCEPT !.tasks = @ + 1, !.workflows = Append(@, new)]
      BY <1>13 DEF Commit
    <3>2. Append(db.workflows, new) \in Seq(Turn)
      BY <1>0, <2>2 DEF Base
    <3> HIDE DEF new
    <3>3. db.tasks + 1 \in Nat
      BY <1>0 DEF Base
    <3>4. db' = db \/ db' = [tasks |-> db.tasks + 1, workflows |-> Append(db.workflows, new)]
      BY <1>0, <3>1 DEF Base
    <3> DEFINE longer == Append(db.workflows, new)
    <3>5. longer \in Seq(Turn)
      BY <3>2
    <3> HIDE DEF longer
    <3>6. [tasks |-> db.tasks + 1, workflows |-> longer] \in Base
      BY <3>3, <3>5 DEF Base
    <3> QED  BY <1>0, <3>4, <3>6 DEF longer
  <2> QED  BY <1>0, <1>13, <2>3, ForgetType DEF Commit, SubmissionTypeOK
<1>14. CASE Refuse \/ Abort
  <2>1. /\ Forget /\ db' = db /\ enabled' = enabled /\ served' = served
        /\ toggles' = toggles /\ faults' \in 0 .. MaxFaults
    BY <1>0, <1>14 DEF Refuse, Abort, SubmissionTypeOK
  <2> QED  BY <1>0, <2>1, ForgetType DEF SubmissionTypeOK
<1>15. ASSUME NEW a \in Agents, Toggle(a) PROVE TypeInv'
  <2>0. enabled \subseteq Agents /\ toggles \in 0 .. MaxToggles /\ MaxToggles \in Nat
    BY <1>0 DEF SubmissionTypeOK
  <2>1. enabled' \subseteq Agents /\ toggles' \in 0 .. MaxToggles
    BY <2>0, <1>15 DEF Toggle
  <2> QED  BY <1>0, <1>15, <2>1 DEF Toggle, TypeInv, SubmissionTypeOK, Selected
<1>16. CASE UNCHANGED vars
  BY <1>0, <1>16 DEF vars, TypeInv, SubmissionTypeOK, Selected
<1> QED  BY <1>1, <1>2, <1>3, <1>4, <1>5, <1>6, <1>7, <1>8, <1>9, <1>10, <1>11, <1>12,
            <1>13, <1>14, <1>15, <1>16 DEF Next

-----------------------------------------------------------------------------
(* Coverage.                                                                 *)

LEMMA InitCover == Init => CoverInv
  BY DEF Init, CoverInv, Unselected, CoveredOnce, Automatic, NoOne

(* A turn of the greedy loop moves capabilities from what remains to one     *)
(* agent that had none.                                                      *)
LEMMA PickCover ==
  ASSUME TypeInv, CoverInv, NEW a \in Agents, Pick(a)
  PROVE  CoverInv'
<1>0. /\ chosen \in [Agents -> SUBSET Capability] /\ covers \in [Agents -> SUBSET Capability]
      /\ CoveredOnce /\ at = "covering" /\ UNCHANGED <<request, at, required>>
  BY DEF TypeInv, SubmissionTypeOK, CoverInv, Pick, Work, World
<1>1. /\ chosen' = [chosen EXCEPT ![a] = covers[a] \cap remaining]
      /\ remaining' = remaining \ covers[a]
      /\ covers' = [covers EXCEPT ![a] = {}]
      /\ chosen[a] = {}
  BY <1>0 DEF Pick, CoverInv
<1>2. /\ \A b \in Agents : covers'[b] \subseteq Provides[b] /\ chosen'[b] \subseteq Provides[b]
      /\ \A b \in Agents : chosen'[b] # {} => covers'[b] = {}
  BY <1>0, <1>1 DEF CoverInv, CoveredOnce
<1>3. ASSUME Automatic'
      PROVE  /\ required' = remaining' \cup UNION {chosen'[b] : b \in Agents}
             /\ \A b \in Agents : chosen'[b] \cap remaining' = {}
             /\ \A b, d \in Agents : b # d => chosen'[b] \cap chosen'[d] = {}
             /\ remaining' \subseteq UNION {covers'[b] : b \in Agents}
  <2>1. /\ required = remaining \cup UNION {chosen[b] : b \in Agents}
        /\ \A b \in Agents : chosen[b] \cap remaining = {}
        /\ \A b, d \in Agents : b # d => chosen[b] \cap chosen[d] = {}
        /\ remaining \subseteq UNION {covers[b] : b \in Agents}
    BY <1>0, <1>3 DEF CoveredOnce, Automatic
  <2>2. \A b \in Agents \ {a} : chosen'[b] = chosen[b] /\ covers'[b] = covers[b]
    BY <1>0, <1>1
  <2>3. chosen'[a] = covers[a] \cap remaining /\ covers'[a] = {}
    BY <1>0, <1>1
  <2>4. required' = remaining' \cup UNION {chosen'[b] : b \in Agents}
    <3>1. ASSUME NEW x PROVE x \in required <=>
            x \in remaining' \/ \E b \in Agents : x \in chosen'[b]
      BY <1>1, <2>1, <2>2, <2>3
    <3> QED  BY <1>0, <3>1
  <2>5. remaining' \subseteq UNION {covers'[b] : b \in Agents}
    BY <1>1, <2>1, <2>2, <2>3
  <2> QED  BY <1>1, <2>1, <2>2, <2>3, <2>4, <2>5
<1>4. CoveredOnce'
  BY <1>0, <1>2, <1>3 DEF CoveredOnce, Automatic
<1> QED  BY <1>0, <1>2, <1>4 DEF CoverInv, Unselected

LEMMA NextCover == TypeInv /\ CoverInv /\ [Next]_vars => CoverInv'
<1> SUFFICES ASSUME TypeInv, CoverInv, [Next]_vars PROVE CoverInv'
  OBVIOUS
<1> USE DEF World, Work
<1>0. /\ chosen \in [Agents -> SUBSET Capability] /\ covers \in [Agents -> SUBSET Capability]
      /\ CoveredOnce /\ Provides \in [Agents -> SUBSET Capability]
      /\ at = "idle" <=> request = NoRequest
  BY SubmissionAssumption DEF TypeInv, SubmissionTypeOK, CoverInv
<1>1. ASSUME NEW r \in Requests, Receive(r) PROVE CoverInv'
  BY <1>0, <1>1 DEF Receive, CoverInv, CoveredOnce, Automatic, Unselected, NoOne
<1>2. ASSUME NEW named \in Analyses \cup {{}}, Analyse(named) PROVE CoverInv'
  BY <1>0, <1>2 DEF Analyse, CoverInv, CoveredOnce, Automatic, Unselected
<1>3. CASE CheckBrief \/ ValidateRoutingModels \/ ResolveParent
  BY <1>0, <1>3 DEF CheckBrief, ValidateRoutingModels, ResolveParent, CoverInv, CoveredOnce,
                    Automatic, Unselected, NoOne
<1>4. CASE SelectExact
  <2>1. /\ at' \in {"drafting", "refusing"} /\ ~Automatic'
        /\ UNCHANGED covers /\ \A a \in Agents : chosen'[a] \subseteq Provides[a]
    BY <1>0, <1>4 DEF SelectExact, Automatic, CoveredOnce
  <2> QED  BY <1>0, <2>1 DEF CoverInv, CoveredOnce, Unselected
<1>5. CASE FindCoverage
  <2>0. chosen = NoOne /\ covers = NoOne /\ remaining = {} /\ request.roster = {}
        /\ UNCHANGED <<chosen, required, request>>
    BY <1>5 DEF FindCoverage, CoverInv, Unselected
  <2>1. CASE at' = "refusing"
    BY <1>0, <1>5, <2>0, <2>1 DEF FindCoverage, CoverInv, CoveredOnce, Unselected, NoOne
  <2>2. CASE at' # "refusing"
    <3>1. /\ at' = "covering" /\ required \subseteq UNION {Offers(a) : a \in Agents}
          /\ covers' = [a \in Agents |-> Offers(a)] /\ remaining' = required
      BY <1>5, <2>2 DEF FindCoverage
    <3>2. \A a \in Agents : Offers(a) \subseteq Provides[a] /\ chosen'[a] = {}
      BY <2>0 DEF Offers, NoOne
    <3>3. remaining' \subseteq UNION {covers'[a] : a \in Agents}
      BY <3>1
    <3>4. required' = remaining' \cup UNION {chosen'[a] : a \in Agents}
      BY <2>0, <3>1, <3>2
    <3>5. CoveredOnce'
      BY <3>1, <3>2, <3>3, <3>4 DEF CoveredOnce
    <3> QED  BY <2>0, <3>1, <3>2, <3>5 DEF CoverInv, Unselected
  <2> QED  BY <2>1, <2>2
<1>6. ASSUME NEW a \in Agents, Pick(a) PROVE CoverInv'
  BY <1>6, PickCover
<1>7. CASE Covered \/ Draft \/ Reduced \/ Assemble \/ Record \/ \E a \in Agents : Reduce(a)
  <2>1. /\ at \in {"covering", "drafting", "reducing", "assembling", "recording"}
        /\ at' \in {"drafting", "reducing", "assembling", "recording", "committing", "refusing"}
        /\ at' # "covering" /\ (at = "covering" => remaining = {})
        /\ UNCHANGED <<request, required, covers, remaining, chosen>>
    BY <1>7 DEF Covered, Draft, Reduced, Assemble, Record, Reduce
  <2>2. CoveredOnce'
    BY <1>0, <2>1 DEF CoveredOnce, Automatic
  <2> QED  BY <1>0, <2>1, <2>2 DEF CoverInv, Unselected
<1>8. CASE Compile \/ \E d \in Designs \cup {<<>>} : Design(d)
  <2>1. /\ at \in {"designing", "compiling"} /\ at' \in {"compiling", "recording", "refusing"}
        /\ UNCHANGED <<request, required, covers, remaining, chosen>>
    BY <1>8 DEF Compile, Design
  <2>2. required = {} /\ chosen = NoOne /\ remaining = {} /\ covers = NoOne
    BY <2>1 DEF CoverInv, Unselected
  <2>3. CoveredOnce'
    BY <1>0, <2>1, <2>2 DEF CoveredOnce, NoOne
  <2> QED  BY <1>0, <2>1, <2>2, <2>3 DEF CoverInv, Unselected, NoOne
<1>9. CASE Commit \/ Refuse \/ Abort
  <2>1. Forget
    BY <1>9 DEF Commit, Refuse, Abort
  <2> QED  BY <2>1 DEF Forget, CoverInv, CoveredOnce, Automatic, NoOne
<1>10. CASE UNCHANGED vars \/ \E a \in Agents : Toggle(a)
  <2>1. UNCHANGED <<at, request, required, covers, remaining, chosen>>
    BY <1>10 DEF vars, Toggle
  <2> QED  BY <2>1 DEF CoverInv, CoveredOnce, Automatic
<1> QED  BY <1>1, <1>2, <1>3, <1>4, <1>5, <1>6, <1>7, <1>8, <1>9, <1>10 DEF Next

-----------------------------------------------------------------------------
(* Stages.                                                                   *)

LEMMA LeastNatural ==
  ASSUME NEW S \in SUBSET Nat, S # {}
  PROVE  \E m \in S : \A k \in S : m <= k
<1>1. PICK m \in S : \A k \in S : ~ (<<k, m>> \in OpToRel(<, Nat))
  BY NatLessThanWellFounded, WFMin, Zenon
<1>2. \A k \in S : ~ (k < m)
  BY <1>1 DEF OpToRel
<1>3. \A k \in S : m <= k
  BY <1>2
<1> QED  BY <1>3

LEMMA GroupType ==
  ASSUME NEW c \in Capability
  PROVE  StageRank[GroupOf(c)] \in 0 .. 60
<1>1. \E g \in DOMAIN Group : c \in Group[g]
  BY DEF Capability, Group
<1>2. GroupOf(c) \in DOMAIN Group
  BY <1>1 DEF GroupOf
<1>3. \A g \in DOMAIN Group : StageRank[g] \in 0 .. 60
  BY DEF Group, StageRank
<1> QED  BY <1>2, <1>3

LEMMA StageType ==
  ASSUME NEW a, chosen[a] # {}, chosen[a] \subseteq Capability
  PROVE  Stage(a) \in 0 .. 60
<1> DEFINE R == {StageRank[k] : k \in Classes(a)}
<1>1. R = {StageRank[GroupOf(c)] : c \in chosen[a]}
  BY DEF Classes
<1>2. R \subseteq 0 .. 60 /\ R # {}
  BY <1>1, GroupType
<1>3. \E r \in R : \A s \in R : r <= s
  <2>1. R \in SUBSET Nat
    BY <1>2
  <2> HIDE DEF R
  <2> QED  BY <1>2, <2>1, LeastNatural
<1>4. \E r \in R : \A k \in Classes(a) : r <= StageRank[k]
  BY <1>3
<1>5. Stage(a) \in R
  BY <1>4 DEF Stage
<1> QED  BY <1>2, <1>5

(* Steps each of which another of them depends on would climb stages for     *)
(* ever.                                                                     *)
LEMMA NoCycle ==
  ASSUME TypeInv, Staged, at = "assembling"
  PROVE  ~Circular(Selected, Edges)
<1> SUFFICES ASSUME NEW loop \in SUBSET Selected, loop # {},
                    \A k \in loop : \E l \in loop : <<k, l>> \in Edges
             PROVE  FALSE
  BY DEF Circular
<1>1. \A k \in loop : Stage(k) \in 0 .. 60
  BY StageType DEF Selected, TypeInv, SubmissionTypeOK
<1>2. \A k \in loop : \E l \in loop : Stage(k) < Stage(l)
  BY DEF Edges, Staged, Selected
<1> DEFINE T == {60 - Stage(k) : k \in loop}
<1>3. T \subseteq Nat /\ T # {}
  BY <1>1
<1>4. PICK m \in T : \A t \in T : m <= t
  BY <1>3, LeastNatural
<1>5. PICK k \in loop : m = 60 - Stage(k)
  OBVIOUS
<1>6. PICK l \in loop : Stage(k) < Stage(l)
  BY <1>2
<1>7. m <= 60 - Stage(l)
  BY <1>4
<1> QED  BY <1>1, <1>5, <1>6, <1>7

LEMMA InitStaged == Init => Staged
  BY DEF Init, Staged

LEMMA NextStaged == TypeInv /\ CoverInv /\ Staged /\ [Next]_vars => Staged'
<1> SUFFICES ASSUME TypeInv, CoverInv, Staged, [Next]_vars PROVE Staged'
  OBVIOUS
<1> USE DEF World, Work
<1>0. /\ chosen \in [Agents -> SUBSET Capability] /\ needs \in [Agents -> SUBSET Agents]
      /\ Provides \in [Agents -> SUBSET Capability]
      /\ request \in Request \cup {NoRequest} /\ (at = "idle" <=> request = NoRequest)
  BY SubmissionAssumption DEF TypeInv, SubmissionTypeOK
<1>1. ASSUME NEW named \in Analyses \cup {{}}, Analyse(named) PROVE Staged'
  <2>1. required' # {} /\ at' = "models"
    BY <1>0, <1>1, HeuristicType DEF Analyse
  <2> QED  BY <2>1 DEF Staged
<1>2. CASE SelectExact
  <2>1. CASE at' = "drafting"
    <3>1. request.roster \in SUBSET Agents /\ request.roster # {}
      BY <1>0, <1>2 DEF SelectExact, Request
    <3>2. PICK a \in request.roster : TRUE
      BY <3>1
    <3>3. chosen'[a] # {}
      BY <1>2, <2>1, <3>1, <3>2, SubmissionAssumption DEF SelectExact
    <3> QED  BY <2>1, <3>1, <3>2, <3>3 DEF Staged, Selected
  <2> QED  BY <1>2, <2>1 DEF SelectExact, Staged
<1>3. CASE Covered
  <2>1. remaining = {} /\ required # {} /\ Automatic /\ at = "covering" /\ at' = "drafting"
        /\ UNCHANGED chosen
    BY <1>0, <1>3 DEF Covered, Staged, CoverInv, Automatic
  <2>2. required = UNION {chosen[a] : a \in Agents}
    BY <2>1 DEF CoverInv, CoveredOnce
  <2>3. \E a \in Agents : chosen[a] # {}
    BY <2>1, <2>2
  <2> QED  BY <2>1, <2>3 DEF Staged, Selected
<1>4. CASE Draft
  <2>1. \A a \in Agents : \A b \in needs'[a] :
          a \in Selected /\ b \in Selected /\ Stage(b) < Stage(a)
    BY <1>4 DEF Draft, Direct, Selected
  <2>2. at = "drafting" /\ at' = "reducing" /\ UNCHANGED chosen
    BY <1>4 DEF Draft
  <2>3. Selected' = Selected /\ \A a \in Agents : Stage(a)' = Stage(a)
    BY <2>2 DEF Selected, Stage, Classes
  <2>4. Selected # {}
    BY <2>2 DEF Staged
  <2>5. Selected \subseteq Agents
    BY DEF Selected
  <2>6. \A a \in Agents : \A b \in needs'[a] :
          a \in Selected' /\ b \in Selected' /\ Stage(b)' < Stage(a)'
    BY <2>1, <2>3, <2>5
  <2> QED  BY <2>2, <2>3, <2>4, <2>6 DEF Staged
<1>5. ASSUME NEW a \in Agents, Reduce(a) PROVE Staged'
  <2>1. \A b \in Agents : needs'[b] \subseteq needs[b]
    BY <1>0, <1>5 DEF Reduce
  <2>2. at = "reducing" /\ at' = "reducing" /\ UNCHANGED chosen
    BY <1>5 DEF Reduce
  <2> QED  BY <2>1, <2>2 DEF Staged, Selected, Stage, Classes
<1>6. CASE Reduced
  BY <1>6 DEF Reduced, Staged, Selected, Stage, Classes
<1>7. CASE CheckBrief \/ ValidateRoutingModels \/ ResolveParent \/ FindCoverage
  BY <1>7 DEF CheckBrief, ValidateRoutingModels, ResolveParent, FindCoverage, Staged
<1>8. CASE Assemble \/ Compile \/ Record \/ \E d \in Designs \cup {<<>>} : Design(d)
  BY <1>8 DEF Assemble, Compile, Record, Design, Staged
<1>9. ASSUME NEW r \in Requests, Receive(r) PROVE Staged'
  BY <1>9 DEF Receive, Staged
<1>10. CASE Commit \/ Refuse \/ Abort
  BY <1>10 DEF Commit, Refuse, Abort, Forget, Staged
<1>11. ASSUME NEW a \in Agents, Pick(a) PROVE Staged'
  BY <1>11 DEF Pick, Staged
<1>12. CASE UNCHANGED vars \/ \E a \in Agents : Toggle(a)
  <2>1. UNCHANGED <<at, required, chosen, needs>>
    BY <1>12 DEF vars, Toggle
  <2> QED  BY <2>1 DEF Staged, Selected, Stage, Classes
<1> QED  BY <1>1, <1>2, <1>3, <1>4, <1>5, <1>6, <1>7, <1>8, <1>9, <1>10, <1>11, <1>12
         DEF Next

-----------------------------------------------------------------------------
(* What reaches a step.                                                      *)

(* What is found from c by following the dependencies n, and what is found   *)
(* from the dependencies of c: ReachedFrom and Implied of other dependencies *)
(* than the present ones.                                                    *)
Closed(n, S) == \A b \in S : n[b] \subseteq S
Reach(n, c) ==
  {x \in Selected : \A S \in SUBSET Selected : n[c] \subseteq S /\ Closed(n, S) => x \in S}
Passed(n, c) ==
  {x \in Selected : \A S \in SUBSET Selected :
     (\A b \in n[c] : n[b] \subseteq S) /\ Closed(n, S) => x \in S}

(* Dependencies with what others of a's dependencies pass on taken from a.   *)
Without(n, a) == [n EXCEPT ![a] = n[a] \ Passed(n, a)]

(* Dependencies lead to earlier stages.                                      *)
Descending(n) ==
  \A c \in Agents : \A b \in n[c] : c \in Selected /\ b \in Selected /\ Stage(b) < Stage(c)

(* Why nothing is lost: what direct edges carried is still found at every    *)
(* turn of the reduction, and what has been reduced is irredundant.          *)
ReachInv ==
  /\ at = "assembling" => todo = {}
  /\ Drafted =>
       /\ \A c \in Selected : Direct(c) \subseteq ReachedFrom(c)
       /\ \A c \in Selected \ todo : ~Synthesis(c) =>
            \A b \in needs[c] : needs[c] \cap ReachedFrom(b) = {}

(* A set that has what is left of a's dependencies has them all.  Else take  *)
(* the one of the latest stage that is missing; it was dropped because other *)
(* dependencies lead to it; those of later stages are in the set, and what   *)
(* is found from the others is of earlier stages than the one that is        *)
(* missing.                                                                  *)
LEMMA Restored ==
  ASSUME TypeInv, NEW n \in [Agents -> SUBSET Agents], Descending(n), NEW a \in Agents,
         NEW S \in SUBSET Selected, Closed(Without(n, a), S), Without(n, a)[a] \subseteq S
  PROVE  n[a] \subseteq S
<1> DEFINE m == Without(n, a)
<1> SUFFICES ASSUME ~(n[a] \subseteq S) PROVE FALSE
  OBVIOUS
<1>0. Selected \subseteq Agents /\ \A c \in Selected : Stage(c) \in 0 .. 60
  BY StageType DEF Selected, TypeInv, SubmissionTypeOK
<1>1. /\ \A c \in Agents \ {a} : m[c] = n[c]
      /\ m[a] = n[a] \ Passed(n, a)
      /\ Closed(m, S) /\ m[a] \subseteq S
  BY DEF Without
<1> HIDE DEF m
<1> DEFINE D == {60 - Stage(x) : x \in n[a] \ S}
<1>2. D \subseteq Nat /\ D # {}
  BY <1>0 DEF Descending
<1>3. PICK d \in D : \A e \in D : d <= e
  BY <1>2, LeastNatural
<1>4. PICK x \in n[a] \ S : d = 60 - Stage(x)
  OBVIOUS
<1>5. ASSUME NEW b \in n[a] \ S PROVE Stage(b) <= Stage(x)
  <2>1. 60 - Stage(x) <= 60 - Stage(b)
    BY <1>3, <1>4
  <2> QED  BY <1>0, <2>1 DEF Descending
<1>6. x \in Passed(n, a)
  BY <1>1
<1> DEFINE T == {z \in S : Stage(z) < Stage(a)} \cup {z \in Selected : Stage(z) < Stage(x)}
<1>7. T \in SUBSET Selected
  OBVIOUS
<1>8. ASSUME NEW b \in T, NEW y \in n[b] PROVE y \in T
  <2>1. y \in Selected /\ b \in Selected /\ Stage(y) < Stage(b)
    BY <1>0, <1>7 DEF Descending
  <2>2. CASE Stage(b) < Stage(x)
    BY <1>0, <2>1, <2>2 DEF Descending
  <2>3. CASE b \in S /\ Stage(b) < Stage(a)
    <3>1. b \in Agents \ {a}
      BY <1>0, <2>1, <2>3
    <3>2. y \in S
      BY <1>1, <2>3, <3>1 DEF Closed
    <3>3. a \in Selected
      BY <1>4 DEF Descending
    <3> QED  BY <1>0, <2>1, <2>3, <3>2, <3>3
  <2> QED  BY <2>2, <2>3
<1>9. ASSUME NEW b \in n[a], NEW y \in n[b] PROVE y \in T
  <2>1. /\ y \in Selected /\ b \in Selected /\ Stage(y) < Stage(b)
        /\ Stage(b) < Stage(a) /\ a \in Selected /\ x \in Selected
    BY <1>0, <1>4 DEF Descending
  <2>2. CASE b \in S
    <3>1. b \in Agents \ {a}
      BY <1>0, <2>1
    <3>2. y \in S
      BY <1>1, <2>2, <3>1 DEF Closed
    <3> QED  BY <1>0, <2>1, <3>2
  <2>3. CASE b \notin S
    BY <1>0, <1>5, <2>1, <2>3
  <2> QED  BY <2>2, <2>3
<1>10. x \in T
  <2> HIDE DEF T
  <2> QED  BY <1>6, <1>7, <1>8, <1>9 DEF Passed, Closed
<1> QED  BY <1>0, <1>4, <1>10 DEF Descending

(* So taking from a what its dependencies pass on changes nothing of what is *)
(* found, from a or from anybody.                                            *)
LEMMA SameReach ==
  ASSUME TypeInv, NEW n \in [Agents -> SUBSET Agents], Descending(n), NEW a \in Agents,
         NEW c \in Agents
  PROVE  Reach(Without(n, a), c) = Reach(n, c)
<1> DEFINE m == Without(n, a)
<1>0. Selected \subseteq Agents
  BY DEF Selected
<1>1. \A b \in Agents : m[b] \subseteq n[b] /\ (b # a => m[b] = n[b])
  BY DEF Without
<1>2. ASSUME NEW S \in SUBSET Selected
      PROVE  (m[c] \subseteq S /\ Closed(m, S)) <=> (n[c] \subseteq S /\ Closed(n, S))
  <2>1. n[c] \subseteq S /\ Closed(n, S) => m[c] \subseteq S /\ Closed(m, S)
    BY <1>0, <1>1 DEF Closed
  <2>2. ASSUME m[c] \subseteq S, Closed(m, S) PROVE n[c] \subseteq S /\ Closed(n, S)
    <3>1. c = a \/ a \in S => n[a] \subseteq S
      <4>1. c = a \/ a \in S => m[a] \subseteq S
        BY <2>2 DEF Closed
      <4>2. m[a] \subseteq S => n[a] \subseteq S
        BY <2>2, Restored
      <4> QED  BY <4>1, <4>2
    <3> QED  BY <1>0, <1>1, <2>2, <3>1 DEF Closed
  <2> QED  BY <2>1, <2>2
<1> QED  BY <1>2 DEF Reach

LEMMA NextReach == TypeInv /\ Staged /\ ReachInv /\ [Next]_vars => ReachInv'
<1> SUFFICES ASSUME TypeInv, Staged, ReachInv, [Next]_vars PROVE ReachInv'
  OBVIOUS
<1> USE DEF World, Work
<1>0. needs \in [Agents -> SUBSET Agents] /\ Selected \subseteq Agents
  BY DEF TypeInv, SubmissionTypeOK, Selected
<1>1. CASE Draft
  <2>1. /\ UNCHANGED chosen /\ at' = "reducing" /\ todo' = Selected
        /\ needs' = [c \in Agents |-> IF c \in Selected THEN Direct(c) ELSE {}]
    BY <1>1 DEF Draft
  <2>2. Selected' = Selected /\ \A c \in Agents : Direct(c)' = Direct(c)
    BY <2>1 DEF Selected, Direct, Stage, Classes, Synthesis, Consumed
  <2>3. \A c \in Selected : Direct(c) \subseteq ReachedFrom(c)'
    <3>1. \A c \in Selected : needs'[c] = Direct(c) /\ Direct(c) \subseteq Selected
      BY <1>0, <2>1 DEF Direct
    <3> QED  BY <2>2, <3>1 DEF ReachedFrom
  <2> QED  BY <1>0, <2>1, <2>2, <2>3 DEF ReachInv
<1>2. ASSUME NEW a \in Agents, Reduce(a) PROVE ReachInv'
  <2>1. /\ UNCHANGED <<chosen, at>> /\ at = "reducing" /\ todo' = todo \ {a}
        /\ needs' = IF Synthesis(a) THEN needs ELSE [needs EXCEPT ![a] = @ \ Implied(a)]
    BY <1>2 DEF Reduce
  <2>2. /\ Selected' = Selected
        /\ \A c \in Agents : Direct(c)' = Direct(c) /\ Synthesis(c)' = Synthesis(c)
    BY <2>1 DEF Selected, Direct, Stage, Classes, Synthesis, Consumed
  <2>3. Descending(needs)
    BY <2>1 DEF Staged, Descending
  <2>4. Implied(a) = Passed(needs, a)
    BY DEF Implied, Passed, Closed
  <2>5. \A c \in Agents : ReachedFrom(c) = Reach(needs, c) /\ ReachedFrom(c)' = Reach(needs', c)
    <3>1. \A c \in Agents : ReachedFrom(c) = Reach(needs, c)
      BY DEF ReachedFrom, Reach, Closed
    <3>2. \A c \in Agents : ReachedFrom(c)' = Reach(needs', c)
      BY <2>2 DEF ReachedFrom, Reach, Closed
    <3> QED  BY <3>1, <3>2
  <2>6. \A c \in Agents : ReachedFrom(c)' = ReachedFrom(c)
    <3>1. CASE Synthesis(a)
      BY <2>1, <2>5, <3>1
    <3>2. CASE ~Synthesis(a)
      <4>1. needs' = Without(needs, a)
        BY <2>1, <2>4, <3>2 DEF Without
      <4>2. \A c \in Agents : Reach(Without(needs, a), c) = Reach(needs, c)
        BY <1>0, <2>3, SameReach
      <4> QED  BY <2>5, <4>1, <4>2
    <3> QED  BY <3>1, <3>2
  <2>7. \A c \in Selected : Direct(c)' \subseteq ReachedFrom(c)'
    BY <1>0, <2>1, <2>2, <2>6 DEF ReachInv, Drafted
  <2>8. ASSUME NEW c \in Selected \ todo', ~Synthesis(c), NEW b \in needs'[c]
        PROVE  needs'[c] \cap ReachedFrom(b) = {}
    <3>1. CASE c # a
      <4>1. needs'[c] = needs[c] /\ c \notin todo
        BY <1>0, <2>1, <2>8, <3>1
      <4> QED  BY <2>1, <2>8, <4>1 DEF ReachInv, Drafted
    <3>2. CASE c = a
      <4>1. needs'[a] = needs[a] \ Passed(needs, a) /\ b \in needs[a] /\ b \in Agents
        BY <1>0, <2>1, <2>4, <2>8, <3>2
      <4>2. Reach(needs, b) \subseteq Passed(needs, a)
        BY <4>1 DEF Reach, Passed
      <4> QED  BY <2>5, <3>2, <4>1, <4>2
    <3> QED  BY <3>1, <3>2
  <2>9. needs' \in [Agents -> SUBSET Agents]
    BY <1>0, <2>1
  <2> QED  BY <1>0, <2>1, <2>2, <2>6, <2>7, <2>8, <2>9 DEF ReachInv, Drafted
<1>3. CASE UNCHANGED <<needs, chosen, todo>> /\ (Drafted' => Drafted)
           /\ (at' = "assembling" => todo = {})
  <2>1. /\ Selected' = Selected
        /\ \A c \in Agents : Direct(c)' = Direct(c) /\ Synthesis(c)' = Synthesis(c)
    BY <1>3 DEF Selected, Direct, Stage, Classes, Synthesis, Consumed
  <2>2. \A c \in Agents : ReachedFrom(c)' = ReachedFrom(c)
    BY <1>3, <2>1 DEF ReachedFrom
  <2> QED  BY <1>0, <1>3, <2>1, <2>2 DEF ReachInv
<1>4. CASE ~Drafted'
  BY <1>4 DEF ReachInv, Drafted
<1>5. CASE Reduced \/ UNCHANGED vars \/ \E a \in Agents : Toggle(a)
  <2>1. UNCHANGED <<needs, chosen, todo>> /\ (at' = "assembling" => todo = {})
        /\ (at' = at \/ at = "reducing")
    BY <1>5 DEF Reduced, vars, Toggle, ReachInv
  <2> QED  BY <1>3, <2>1 DEF Drafted
<1>6. CASE CheckBrief \/ ValidateRoutingModels \/ ResolveParent \/ SelectExact \/ FindCoverage
  BY <1>4, <1>6 DEF CheckBrief, ValidateRoutingModels, ResolveParent, SelectExact,
                    FindCoverage, Drafted
<1>7. CASE Covered \/ Assemble \/ Compile \/ Record \/ Commit \/ Refuse \/ Abort
  BY <1>4, <1>7 DEF Covered, Assemble, Compile, Record, Commit, Refuse, Abort, Forget, Drafted
<1>8. CASE (\E r \in Requests : Receive(r)) \/ \E a \in Agents : Pick(a)
  BY <1>4, <1>8 DEF Receive, Pick, Drafted
<1>9. CASE (\E named \in Analyses \cup {{}} : Analyse(named))
           \/ \E d \in Designs \cup {<<>>} : Design(d)
  BY <1>4, <1>9 DEF Analyse, Design, Drafted
<1> QED  BY <1>1, <1>2, <1>5, <1>6, <1>7, <1>8, <1>9 DEF Next

-----------------------------------------------------------------------------
(* Teams.                                                                    *)

(* What _normalise gives whatever was proposed.                              *)
Shaped(t) ==
  /\ t \in Seq(Member) /\ Len(t) \in 1 .. AtLeastOne(MaxAgents - 1) + 1
  /\ \A i \in 1 .. Len(t) : t[i].synthesizer <=> i = Len(t)
  /\ \A i \in 1 .. Len(t) - 1 : t[i].role \in t[Len(t)].dependsOn

(* A team is there from its design on, and is recorded only if it compiles.  *)
TeamInv ==
  /\ at \in Places \ {"compiling", "recording", "committing", "refusing"} => team = <<>>
  /\ team # <<>> => Shaped(team)
  /\ at = "recording" /\ team # <<>> => Compiles(team)

LEMMA SynthesizerType ==
  ASSUME NEW design \in Seq(Member), design # <<>>
  PROVE  Synthesizer(design) \in 1 .. Len(design)
<1> DEFINE flagged == {i \in DOMAIN design : design[i].synthesizer}
<1>1. flagged \subseteq 1 .. Len(design) /\ flagged \in SUBSET Nat /\ Len(design) \in Nat \ {0}
  BY SMT
<1>2. CASE flagged = {}
  BY <1>1, <1>2 DEF Synthesizer
<1>3. CASE flagged # {}
  <2>1. \E i \in flagged : \A j \in flagged : i <= j
    <3> HIDE DEF flagged
    <3> QED  BY <1>1, <1>3, LeastNatural
  <2>2. Synthesizer(design) \in flagged
    BY <1>3, <2>1 DEF Synthesizer
  <2> QED  BY <1>1, <2>2
<1> QED  BY <1>2, <1>3

LEMMA NormaliseShape ==
  ASSUME NEW design \in Seq(Member), design # <<>>
  PROVE  Shaped(Normalise(design)) /\ Normalise(design) # <<>>
<1> DEFINE s == Synthesizer(design)
           n == Len(design)
           cap == AtLeastOne(MaxAgents - 1)
           size == IF n - 1 > cap THEN cap ELSE n - 1
           source(i) == IF i < s THEN i ELSE i + 1
           kept == [i \in 1 .. size |-> [design[source(i)] EXCEPT !.synthesizer = FALSE]]
           last == [design[s] EXCEPT !.synthesizer = TRUE,
                                     !.dependsOn = {kept[i].role : i \in 1 .. size}]
<1>1. Normalise(design) = Append(kept, last)
  BY DEF Normalise
<1>2. s \in 1 .. n /\ n \in Nat \ {0} /\ \A i \in 1 .. n : design[i] \in Member
  BY SynthesizerType
<1>3. cap \in Nat \ {0}
  BY TeamAssumption DEF AtLeastOne
<1>4. size \in 0 .. cap /\ size <= n - 1
  BY <1>2, <1>3
<1> HIDE DEF s, n, cap, size
<1>5. \A i \in 1 .. size : source(i) \in 1 .. n
  BY <1>2, <1>3, <1>4
<1>6. \A i \in 1 .. size : kept[i] \in Member /\ ~kept[i].synthesizer
  <2> SUFFICES ASSUME NEW i \in 1 .. size PROVE kept[i] \in Member /\ ~kept[i].synthesizer
    OBVIOUS
  <2>1. kept[i] = [design[source(i)] EXCEPT !.synthesizer = FALSE]
    OBVIOUS
  <2>2. design[source(i)] \in Member
    BY <1>2, <1>5
  <2> HIDE DEF source, kept
  <2> QED  BY <2>1, <2>2 DEF Member
<1>7. kept = [i \in 1 .. size |-> kept[i]]
  OBVIOUS
<1> HIDE DEF kept
<1>8. {kept[i].role : i \in 1 .. size} \in SUBSET Roles
  BY <1>6 DEF Member
<1>9. /\ last \in Member /\ last.synthesizer
      /\ last.dependsOn = {kept[i].role : i \in 1 .. size}
  BY <1>2, <1>8 DEF Member
<1> HIDE DEF last
<1>10. kept \in Seq(Member) /\ Len(kept) = size
  BY <1>3, <1>4, <1>6, <1>7
<1>11. /\ Append(kept, last) \in Seq(Member) /\ Len(Append(kept, last)) = size + 1
       /\ \A i \in 1 .. size : Append(kept, last)[i] = kept[i]
       /\ Append(kept, last)[size + 1] = last
  BY <1>3, <1>4, <1>9, <1>10
<1>12. Len(Normalise(design)) = size + 1 /\ size + 1 \in 1 .. cap + 1
  BY <1>1, <1>3, <1>4, <1>11
<1>13. \A i \in 1 .. size + 1 : Normalise(design)[i].synthesizer <=> i = size + 1
  BY <1>1, <1>3, <1>4, <1>6, <1>9, <1>11
<1>14. \A i \in 1 .. size : Normalise(design)[i].role \in Normalise(design)[size + 1].dependsOn
  BY <1>1, <1>9, <1>11
<1>15. Shaped(Normalise(design))
  BY <1>1, <1>3, <1>4, <1>11, <1>12, <1>13, <1>14 DEF Shaped, cap
<1> QED  BY <1>4, <1>12, <1>15

LEMMA FallbackShape == Shaped(FallbackTeam)
<1>1. PICK analyst, specialist, writer \in Roles :
        FallbackTeam = DefaultTeam(analyst, specialist, writer)
  BY SubmissionAssumption
<1> DEFINE design == <<[role |-> analyst, dependsOn |-> {}, synthesizer |-> FALSE],
                       [role |-> specialist, dependsOn |-> {}, synthesizer |-> FALSE],
                       [role |-> writer, dependsOn |-> {}, synthesizer |-> TRUE]>>
<1>2. design \in Seq(Member) /\ design # <<>>
  BY DEF Member
<1>3. FallbackTeam = Normalise(design)
  BY <1>1 DEF DefaultTeam
<1> HIDE DEF design
<1> QED  BY <1>2, <1>3, NormaliseShape

LEMMA NextTeam == TypeInv /\ TeamInv /\ [Next]_vars => TeamInv'
<1> SUFFICES ASSUME TypeInv, TeamInv, [Next]_vars PROVE TeamInv'
  OBVIOUS
<1> USE DEF World, Work
<1>0. at \in Places
  BY DEF TypeInv, SubmissionTypeOK
<1>1. ASSUME NEW d \in Designs \cup {<<>>}, Design(d) PROVE TeamInv'
  <2>1. at' = "compiling" /\ team' = IF d = <<>> THEN FallbackTeam ELSE Normalise(d)
    BY <1>1 DEF Design
  <2>2. Shaped(team')
    <3>1. CASE d = <<>>
      BY <2>1, <3>1, FallbackShape
    <3>2. CASE d # <<>>
      <4>1. d \in Seq(Member)
        BY <1>1, <3>2, SubmissionAssumption
      <4> QED  BY <2>1, <3>2, <4>1, NormaliseShape
    <3> QED  BY <3>1, <3>2
  <2> QED  BY <2>1, <2>2 DEF TeamInv, Shaped
<1>2. CASE Compile
  <2>1. team' = team /\ at' \in {"recording", "refusing"} /\ (at' = "recording" => Compiles(team))
    BY <1>2 DEF Compile
  <2> QED  BY <2>1 DEF TeamInv, Shaped, Compiles
<1>3. CASE Assemble
  <2>1. team' = team /\ team = <<>> /\ at' \in {"refusing", "committing", "recording"}
    BY <1>3 DEF Assemble, TeamInv, Places
  <2> QED  BY <2>1 DEF TeamInv
<1>4. CASE Record
  <2>1. team' = team /\ at' = "committing"
    BY <1>4 DEF Record
  <2> QED  BY <2>1 DEF TeamInv, Shaped
<1>5. CASE Commit \/ Refuse \/ Abort
  <2>1. team' = <<>> /\ at' = "idle"
    BY <1>5 DEF Commit, Refuse, Abort, Forget
  <2> QED  BY <2>1 DEF TeamInv
<1>6. CASE UNCHANGED vars \/ \E a \in Agents : Toggle(a)
  <2>1. team' = team /\ at' = at
    BY <1>6 DEF vars, Toggle
  <2> QED  BY <2>1 DEF TeamInv, Shaped, Compiles
<1>7. CASE /\ team' = team /\ at' # "recording"
           /\ at \notin {"compiling", "recording", "committing", "refusing"}
  <2>1. team' = <<>>
    BY <1>0, <1>7 DEF TeamInv
  <2> QED  BY <1>7, <2>1 DEF TeamInv
<1>8. CASE \/ CheckBrief \/ ValidateRoutingModels \/ ResolveParent \/ SelectExact
           \/ FindCoverage \/ Covered \/ Draft \/ Reduced
  BY <1>7, <1>8 DEF CheckBrief, ValidateRoutingModels, ResolveParent, SelectExact, FindCoverage,
                    Covered, Draft, Reduced
<1>9. ASSUME NEW a \in Agents, Pick(a) \/ Reduce(a) PROVE TeamInv'
  BY <1>7, <1>9 DEF Pick, Reduce
<1>10. CASE (\E r \in Requests : Receive(r))
            \/ \E named \in Analyses \cup {{}} : Analyse(named)
  BY <1>7, <1>10 DEF Receive, Analyse
<1> QED  BY <1>1, <1>2, <1>3, <1>4, <1>5, <1>6, <1>8, <1>9, <1>10 DEF Next

(* Upwards along the edges there is a way from every member to the last one: *)
(* the edge that _normalise gave it, or else the chain.                      *)
LEMMA TeamSound ==
  ASSUME at = "recording", team # <<>>, Shaped(team), Compiles(team)
  PROVE  TeamIsSound
<1> DEFINE last == Len(team)
           keys == Keys(team)
<1>0. /\ last \in Nat \ {0} /\ DOMAIN team = 1 .. last
      /\ last <= AtLeastOne(MaxAgents - 1) + 1
      /\ \A i \in 1 .. last : team[i].synthesizer <=> i = last
      /\ \A i \in 1 .. last - 1 : team[i].role \in team[last].dependsOn
  <2>1. AtLeastOne(MaxAgents - 1) \in Nat
    BY TeamAssumption DEF AtLeastOne
  <2> QED  BY <2>1 DEF Shaped
<1> HIDE DEF last
<1>1. ASSUME NEW i \in 1 .. last, StepKey(team, i) # StepKey(team, last),
             NEW S \in SUBSET keys, StepKey(team, i) \in S,
             \A e \in CompiledEdges(team) : e[1] \in S => e[2] \in S
      PROVE  StepKey(team, last) \in S
  <2>1. CASE Accepted(team, TeamEdges(team))
    <3> DEFINE p == <<last, team[i].role>>
    <3>1. team[i].role \in team[last].dependsOn /\ team[i].role \in RolesIn(team)
      <4>1. i \in 1 .. last - 1
        BY <1>0, <1>1
      <4> QED  BY <1>0, <4>1 DEF RolesIn
    <3>2. KeyOfRole(team, team[i].role) # StepKey(team, last)
      BY <1>1 DEF StepKey
    <3>3. <<KeyOfRole(team, p[2]), StepKey(team, p[1])>> \in TeamEdges(team)
      <4>1. p \in (DOMAIN team) \X RolesIn(team) /\ p[1] = last /\ p[2] = team[i].role
        BY <1>0, <3>1
      <4> HIDE DEF p
      <4> QED  BY <3>1, <3>2, <4>1 DEF TeamEdges
    <3>4. <<StepKey(team, i), StepKey(team, last)>> \in CompiledEdges(team)
      BY <2>1, <3>3 DEF CompiledEdges, StepKey
    <3> QED  BY <1>1, <3>4
  <2>2. CASE ~Accepted(team, TeamEdges(team))
    <3> DEFINE J == {last - j : j \in {k \in 1 .. last : StepKey(team, k) \in S}}
    <3>1. J \in SUBSET Nat /\ J # {}
      BY <1>0, <1>1
    <3>2. PICK m \in J : \A k \in J : m <= k
      BY <3>1, LeastNatural
    <3>3. PICK j \in 1 .. last : m = last - j /\ StepKey(team, j) \in S
      OBVIOUS
    <3>4. CASE j = last
      BY <3>3, <3>4
    <3>5. CASE j # last
      <4>1. j + 1 \in 2 .. last /\ (j + 1) - 1 = j
        BY <1>0, <3>5
      <4>2. <<StepKey(team, j), StepKey(team, j + 1)>> \in Chain(team)
        BY <4>1 DEF Chain, last
      <4>3. StepKey(team, j + 1) \in S
        BY <1>1, <2>2, <3>3, <4>2 DEF CompiledEdges
      <4>4. last - (j + 1) \in J
        BY <4>1, <4>3
      <4>5. m <= last - (j + 1)
        BY <3>2, <4>4
      <4> HIDE DEF J
      <4> QED  BY <1>0, <3>3, <4>1, <4>5
    <3> QED  BY <3>4, <3>5
  <2> QED  BY <2>1, <2>2
<1>2. ~Circular(keys, CompiledEdges(team))
  BY DEF Compiles, Accepted
<1>3. ASSUME NEW k \in keys \ {StepKey(team, last)}, NEW S \in SUBSET keys, k \in S,
             \A e \in CompiledEdges(team) : e[1] \in S => e[2] \in S
      PROVE  StepKey(team, last) \in S
  <2>1. PICK i \in 1 .. last : k = StepKey(team, i)
    BY <1>0 DEF Keys
  <2> QED  BY <1>1, <1>3, <2>1
<1>4. /\ \A i \in DOMAIN team : team[i].synthesizer <=> i = last
      /\ last <= AtLeastOne(MaxAgents - 1) + 1
  BY <1>0
<1> QED  BY <1>2, <1>3, <1>4 DEF TeamIsSound, last

-----------------------------------------------------------------------------
(* What plans look at, and what the delivered office offers.                 *)

(* The plan is the one drawn from what was selected, as long as it is there. *)
PlanInv == plan = NoPlan \/ plan = Drawn

LEMMA NextPlan == TypeInv /\ PlanInv /\ [Next]_vars => PlanInv'
<1> SUFFICES ASSUME TypeInv, PlanInv, [Next]_vars PROVE PlanInv'
  OBVIOUS
<1> USE DEF World, Work
<1>0. TypeInv'
  BY NextType
<1>1. CASE at' \notin {"recording", "committing", "refusing"}
  BY <1>0, <1>1 DEF TypeInv, PlanInv
<1>2. ASSUME UNCHANGED <<chosen, needs, request>>, plan' = plan \/ plan' = Drawn
      PROVE  PlanInv'
  <2>1. Selected' = Selected /\ \A a : Classes(a)' = Classes(a) /\ Synthesis(a)' = Synthesis(a)
    BY <1>2 DEF Selected, Classes, Synthesis
  <2>2. Edges' = Edges
    BY <1>2, <2>1 DEF Edges
  <2>3. \A a, b : ConditionOf(b, a)' = ConditionOf(b, a)
    BY <2>1 DEF ConditionOf
  <2>4. \A a : SentBack(a)' = SentBack(a)
    <3>1. \A a : Stage(a)' = Stage(a)
      BY <2>1 DEF Stage
    <3>2. \A a, b : Before(a, b)' = Before(a, b)
      BY <3>1 DEF Before
    <3> QED  BY <1>2, <2>1, <3>2 DEF SentBack
  <2>5. \A a : PinOf(request, a)' = PinOf(request, a)
    BY <1>2 DEF PinOf
  <2>6. Drawn' = Drawn
    BY <1>2, <2>1, <2>2, <2>3, <2>4, <2>5 DEF Drawn
  <2> QED  BY <1>2, <2>6 DEF PlanInv
<1>3. CASE Assemble \/ Record \/ Compile \/ CheckBrief \/ ValidateRoutingModels \/ UNCHANGED vars
  BY <1>2, <1>3 DEF Assemble, Record, Compile, CheckBrief, ValidateRoutingModels, vars, PlanInv
<1>4. CASE \E a \in Agents : Toggle(a)
  BY <1>2, <1>4 DEF Toggle
<1>5. CASE FindCoverage \/ SelectExact
  <2>1. plan' = NoPlan
    BY <1>5 DEF FindCoverage, SelectExact, TypeInv
  <2> QED  BY <2>1 DEF PlanInv
<1>6. CASE Commit \/ Refuse \/ Abort
  BY <1>6 DEF Commit, Refuse, Abort, Forget, PlanInv
<1>7. CASE ResolveParent \/ Covered \/ Draft \/ Reduced
  BY <1>1, <1>7 DEF ResolveParent, Covered, Draft, Reduced
<1>8. ASSUME NEW a \in Agents, Pick(a) \/ Reduce(a) PROVE PlanInv'
  BY <1>1, <1>8 DEF Pick, Reduce
<1>9. ASSUME NEW r \in Requests, Receive(r) PROVE PlanInv'
  BY <1>1, <1>9 DEF Receive
<1>10. CASE (\E named \in Analyses \cup {{}} : Analyse(named))
            \/ \E d \in Designs \cup {<<>>} : Design(d)
  BY <1>1, <1>10 DEF Analyse, Design
<1> QED  BY <1>3, <1>4, <1>5, <1>6, <1>7, <1>8, <1>9, <1>10 DEF Next

LEMMA GroupsApart ==
  ASSUME NEW g \in DOMAIN Group, NEW c \in Group[g]
  PROVE  GroupOf(c) = g
<1>1. \A h \in DOMAIN Group : c \in Group[h] => h = g
  BY DEF Group
<1> QED  BY <1>1 DEF GroupOf

(* The catalogue itself: whom each group is delivered with, what they emit,  *)
(* and that each capability is delivered.                                    *)
LEMMA Catalogue ==
  /\ \A a \in DOMAIN BUILTIN_AGENTS : \E g \in DOMAIN Group :
       /\ BUILTIN_AGENTS[a].provides = Group[g]
       /\ g = "security" => "findings" \in BUILTIN_AGENTS[a].emits
       /\ g = "testing"  => "passed" \in BUILTIN_AGENTS[a].emits
       /\ g = "review"   => "approved" \in BUILTIN_AGENTS[a].emits
  /\ \A g \in DOMAIN Group : \E a \in DOMAIN BUILTIN_AGENTS :
       BUILTIN_AGENTS[a].provides = Group[g]
<1> DEFINE As(id, agent, g) == /\ id \in DOMAIN BUILTIN_AGENTS /\ BUILTIN_AGENTS[id] = agent
                               /\ agent.provides = Group[g] /\ g \in DOMAIN Group
<1>1. As("planning-agent", PLANNING_AGENT, "planning")
  BY DEF BUILTIN_AGENTS, PLANNING_AGENT, Ordinary, Group
<1>2. As("research-agent", RESEARCH_AGENT, "research")
  BY DEF BUILTIN_AGENTS, RESEARCH_AGENT, Ordinary, Group
<1>3. As("security-agent", SECURITY_AGENT, "security") /\ "findings" \in SECURITY_AGENT.emits
  BY DEF BUILTIN_AGENTS, SECURITY_AGENT, Ordinary, Group
<1>4. As("coding-agent", CODING_AGENT, "code")
  BY DEF BUILTIN_AGENTS, CODING_AGENT, Ordinary, Group
<1>5. As("testing-agent", TESTING_AGENT, "testing") /\ "passed" \in TESTING_AGENT.emits
  BY DEF BUILTIN_AGENTS, TESTING_AGENT, Ordinary, Group
<1>6. As("review-agent", REVIEW_AGENT, "review") /\ "approved" \in REVIEW_AGENT.emits
  BY DEF BUILTIN_AGENTS, REVIEW_AGENT, Ordinary, Group
<1>7. As("documentation-agent", DOCUMENTATION_AGENT, "synthesis")
  BY DEF BUILTIN_AGENTS, DOCUMENTATION_AGENT, Ordinary, Group
<1>8. As("data-cleaner-agent", DATA_CLEANER_AGENT, "data")
  BY DEF BUILTIN_AGENTS, DATA_CLEANER_AGENT, Ordinary, Group
<1>9. As("general-agent", GENERAL_AGENT, "general")
  BY DEF BUILTIN_AGENTS, GENERAL_AGENT, Ordinary, Group
<1>10. /\ DOMAIN BUILTIN_AGENTS =
            {"planning-agent", "research-agent", "security-agent", "coding-agent",
             "testing-agent", "review-agent", "documentation-agent",
             "data-cleaner-agent", "general-agent"}
       /\ DOMAIN Group = {"planning", "general", "research", "data", "security", "code",
                          "testing", "review", "synthesis"}
  BY DEF BUILTIN_AGENTS, Group
<1> QED  BY <1>1, <1>2, <1>3, <1>4, <1>5, <1>6, <1>7, <1>8, <1>9, <1>10

(* Of two different steps one comes first, and not both.                     *)
LEMMA OneFirst ==
  ASSUME TypeInv, NEW a \in Selected, NEW b \in Selected, Before(a, b), Before(b, a)
  PROVE  FALSE
<1>1. Stage(a) \in 0 .. 60 /\ Stage(b) \in 0 .. 60
  BY StageType DEF Selected, TypeInv, SubmissionTypeOK
<1>2. IdOrder[a] \in Nat /\ IdOrder[b] \in Nat
  BY SubmissionAssumption DEF Selected
<1> QED  BY <1>1, <1>2 DEF Before

(* A delivered agent selected for a group is its group's agent.              *)
LEMMA DeliveredEmits ==
  ASSUME DeliveredOffice, TypeInv, CoverInv, NEW a \in Selected, a \in DOMAIN BUILTIN_AGENTS
  PROVE  /\ "security" \in Classes(a) => "findings" \in Emits[a]
         /\ "testing" \in Classes(a) => "passed" \in Emits[a]
         /\ "review" \in Classes(a) => "approved" \in Emits[a]
<1>1. PICK g \in DOMAIN Group :
        /\ BUILTIN_AGENTS[a].provides = Group[g]
        /\ g = "security" => "findings" \in BUILTIN_AGENTS[a].emits
        /\ g = "testing"  => "passed" \in BUILTIN_AGENTS[a].emits
        /\ g = "review"   => "approved" \in BUILTIN_AGENTS[a].emits
  BY Catalogue
<1>2. chosen[a] \subseteq Group[g] /\ Emits[a] = BUILTIN_AGENTS[a].emits
  BY <1>1 DEF DeliveredOffice, CoverInv, CoveredOnce, Selected
<1>3. \A k \in Classes(a) : k = g
  BY <1>2, GroupsApart DEF Classes
<1> QED  BY <1>1, <1>2, <1>3

(* A verdict sends work back to the first of the inputs its one rule is for. *)
LEMMA SentBackOnce ==
  ASSUME TypeInv, NEW a \in Selected
  PROVE  /\ Cardinality(SentBack(a)) <= 1
         /\ \A r \in SentBack(a) :
              /\ <<r[2], a>> \in Edges
              /\ \/ r[1] = "passed" /\ "testing" \in Classes(a)
                 \/ r[1] = "approved" /\ "review" \in Classes(a)
<1>0. a \in Agents /\ needs[a] \in SUBSET Agents
  BY DEF Selected, TypeInv, SubmissionTypeOK
<1> DEFINE Rule(f, b, p) ==
      /\ b \in needs[a] /\ "code" \in Classes(b) /\ b \in Selected
      /\ \A q \in needs[a] : "code" \in Classes(q) => q = b \/ Before(b, q)
      /\ p \in {"testing", "review"} /\ p \in Classes(a)
      /\ f = IF p = "testing" THEN "passed" ELSE "approved"
      /\ "testing" \in Classes(a) => p = "testing"
<1>1. ASSUME NEW r \in SentBack(a)
      PROVE  \E f, b, p : r = <<f, b>> /\ Rule(f, b, p)
  <2>1. PICK x \in FeedbackRules \X needs[a] :
          /\ x[1][1] \in Classes(a) /\ x[1][2] \in Classes(x[2])
          /\ \A q \in needs[a] : x[1][2] \in Classes(q) => q = x[2] \/ Before(x[2], q)
          /\ "testing" \in Classes(a) => x[1][1] = "testing"
          /\ r = <<x[1][3], x[2]>>
    BY DEF SentBack
  <2>2. /\ x[1] \in FeedbackRules /\ x[2] \in needs[a]
        /\ x[1][2] = "code" /\ x[1][1] \in {"testing", "review"}
        /\ x[1][3] = IF x[1][1] = "testing" THEN "passed" ELSE "approved"
    BY DEF FeedbackRules
  <2>3. x[2] \in Selected
    BY <1>0, <2>1, <2>2 DEF Selected, Classes
  <2>4. Rule(x[1][3], x[2], x[1][1])
    BY <2>1, <2>2, <2>3
  <2> QED  BY <2>1, <2>4
<1>2. ASSUME NEW r \in SentBack(a), NEW s \in SentBack(a) PROVE r = s
  <2>1. PICK f, b, p : r = <<f, b>> /\ Rule(f, b, p)
    BY <1>1
  <2>2. PICK g, d, q : s = <<g, d>> /\ Rule(g, d, q)
    BY <1>1
  <2>3. b = d
    BY <2>1, <2>2, OneFirst
  <2>4. f = g
    BY <2>1, <2>2
  <2> QED  BY <2>1, <2>2, <2>3, <2>4
<1>3. Cardinality(SentBack(a)) <= 1
  <2>1. CASE SentBack(a) = {}
    BY <2>1, FS_EmptySet
  <2>2. CASE SentBack(a) # {}
    <3>1. PICK r \in SentBack(a) : TRUE
      BY <2>2
    <3>2. SentBack(a) = {r}
      BY <1>2, <3>1
    <3> QED  BY <3>2, FS_Singleton
  <2> QED  BY <2>1, <2>2
<1>4. ASSUME NEW r \in SentBack(a)
      PROVE  /\ <<r[2], a>> \in Edges
             /\ \/ r[1] = "passed" /\ "testing" \in Classes(a)
                \/ r[1] = "approved" /\ "review" \in Classes(a)
  <2>1. PICK f, b, p : r = <<f, b>> /\ Rule(f, b, p)
    BY <1>1
  <2>2. r[1] = f /\ r[2] = b
    BY <2>1
  <2>3. <<b, a>> \in Edges
    BY <2>1 DEF Edges
  <2>4. \/ f = "passed" /\ "testing" \in Classes(a)
        \/ f = "approved" /\ "review" \in Classes(a)
    BY <2>1
  <2> HIDE DEF Rule
  <2> QED  BY <2>2, <2>3, <2>4
<1> QED  BY <1>3, <1>4

LEMMA FieldsSound ==
  ASSUME DeliveredOffice, TypeInv, CoverInv, PlanInv
  PROVE  FieldsGuaranteed
<1> SUFFICES ASSUME plan # NoPlan, plan = Drawn PROVE FieldsGuaranteed
  BY DEF PlanInv, FieldsGuaranteed
<1>1. /\ plan.steps = Selected /\ plan.edges = Edges
      /\ \A e \in Edges : plan.condition[e] = ConditionOf(e[1], e[2])
      /\ \A a \in Selected : plan.feedback[a] = SentBack(a)
  BY DEF Drawn, Selected
<1>2. ASSUME NEW e \in Edges, e[1] \in DOMAIN BUILTIN_AGENTS
      PROVE  plan.condition[e] \subseteq Emits[e[1]]
  <2>1. e[1] \in Selected
    BY DEF Edges
  <2>2. ASSUME NEW f \in ConditionOf(e[1], e[2])
        PROVE  f = "findings" /\ "security" \in Classes(e[1])
    BY <2>2 DEF ConditionOf, EdgeConditions
  <2> QED  BY <1>1, <1>2, <2>1, <2>2, DeliveredEmits
<1>3. ASSUME NEW a \in Selected
      PROVE  /\ Cardinality(plan.feedback[a]) <= 1
             /\ \A r \in plan.feedback[a] :
                  /\ <<r[2], a>> \in plan.edges
                  /\ a \in DOMAIN BUILTIN_AGENTS => r[1] \in Emits[a]
  BY <1>1, <1>3, SentBackOnce, DeliveredEmits
<1> QED  BY <1>1, <1>2, <1>3 DEF FieldsGuaranteed

(* Every capability is somebody's in the delivered office, so that nobody    *)
(* enabled offers one only where somebody is disabled.                       *)
LEMMA OnlyDisabled ==
  ASSUME DeliveredOffice, TypeInv, [Next]_vars, tx.task # "failed", tx'.task = "failed"
  PROVE  \E a \in Agents : a \notin enabled /\ Provides[a] \cap required # {}
<1> USE DEF World, Work
<1>1. FindCoverage /\ ~(required \subseteq UNION {Offers(a) : a \in Agents})
  <2>1. ~(tx' = tx) /\ tx' # NoRows /\ tx' # [task |-> "pending", workflow |-> TRUE]
    BY DEF NoRows
  <2>2. ~(Record \/ Commit \/ Refuse \/ Abort \/ UNCHANGED vars)
    BY <2>1 DEF Record, Commit, Refuse, Abort, Forget, vars
  <2>3. ~(\/ \E r \in Requests : Receive(r)
          \/ \E named \in Analyses \cup {{}} : Analyse(named)
          \/ CheckBrief \/ ValidateRoutingModels \/ ResolveParent \/ SelectExact \/ Covered
          \/ \E a \in Agents : Pick(a) \/ Reduce(a) \/ Toggle(a))
    BY <2>1 DEF Receive, Analyse, CheckBrief, ValidateRoutingModels, ResolveParent,
                SelectExact, Covered, Pick, Reduce, Toggle
  <2>4. ~(\/ Draft \/ Reduced \/ Assemble \/ Compile
          \/ \E d \in Designs \cup {<<>>} : Design(d))
    BY <2>1 DEF Draft, Reduced, Assemble, Compile, Design
  <2>5. FindCoverage
    BY <2>2, <2>3, <2>4 DEF Next
  <2> QED  BY <2>1, <2>5 DEF FindCoverage
<1>2. PICK c \in required : \A a \in Agents : c \notin Offers(a)
  BY <1>1
<1>3. PICK g \in DOMAIN Group : c \in Group[g]
  <2>1. c \in Capability
    BY DEF TypeInv, SubmissionTypeOK
  <2> QED  BY <2>1 DEF Capability, Group
<1>4. PICK a \in DOMAIN BUILTIN_AGENTS : BUILTIN_AGENTS[a].provides = Group[g]
  BY Catalogue
<1>5. a \in Agents /\ c \in Provides[a]
  BY <1>3, <1>4 DEF DeliveredOffice
<1> QED  BY <1>2, <1>5 DEF Offers

-----------------------------------------------------------------------------
(* Conversations.                                                            *)

LEMMA NextParent == TypeInv /\ ParentInv /\ [Next]_vars => ParentInv'
<1> SUFFICES ASSUME TypeInv, ParentInv, [Next]_vars PROVE ParentInv'
  OBVIOUS
<1> USE DEF World, Work
<1>0. /\ db.workflows \in Seq(Turn) /\ parent \in Nat
      /\ db \in Base /\ (at = "idle" <=> request = NoRequest)
  BY DEF TypeInv, SubmissionTypeOK, Base
<1>1. ASSUME UNCHANGED <<parent, db>>, at' # "idle", request' = request \/ parent = 0
      PROVE  ParentInv'
  BY <1>1 DEF ParentInv, ThreadsOwned
<1>2. ASSUME NEW r \in Requests, Receive(r) PROVE ParentInv'
  BY <1>1, <1>2 DEF Receive, ParentInv
<1>3. CASE \/ CheckBrief \/ ValidateRoutingModels \/ SelectExact \/ FindCoverage
           \/ Covered \/ Draft \/ Reduced \/ Assemble \/ Compile \/ Record
  <2>1. UNCHANGED <<parent, db, request>> /\ at' # "idle"
    BY <1>3 DEF CheckBrief, ValidateRoutingModels, SelectExact, FindCoverage, Covered,
                Draft, Reduced, Assemble, Compile, Record
  <2> QED  BY <1>1, <2>1
<1>4. ASSUME NEW a \in Agents, Pick(a) \/ Reduce(a) PROVE ParentInv'
  <2>1. UNCHANGED <<parent, db, request, at>> /\ at # "idle"
    BY <1>4 DEF Pick, Reduce
  <2> QED  BY <1>1, <2>1
<1>5. CASE (\E named \in Analyses \cup {{}} : Analyse(named))
           \/ \E d \in Designs \cup {<<>>} : Design(d)
  <2>1. UNCHANGED <<parent, db, request>> /\ at' # "idle"
    BY <1>5 DEF Analyse, Design
  <2> QED  BY <1>1, <2>1
<1>6. CASE ResolveParent
  BY <1>6 DEF ResolveParent, ParentInv, ThreadsOwned
<1>7. CASE Commit
  <2>1. parent' = 0
    BY <1>7 DEF Commit, Forget
  <2>2. CASE db' = db
    BY <2>1, <2>2 DEF ParentInv, ThreadsOwned
  <2>3. CASE db' # db
    <3> DEFINE new == [owner |-> request.owner, parent |-> parent]
               W   == db.workflows
    <3>1. db'.workflows = Append(W, new)
      BY <1>0, <1>7, <2>3 DEF Commit, Base
    <3>2. /\ DOMAIN db'.workflows = 1 .. Len(W) + 1 /\ Len(W) \in Nat
          /\ DOMAIN W = 1 .. Len(W)
          /\ \A i \in 1 .. Len(W) : db'.workflows[i] = W[i]
          /\ db'.workflows[Len(W) + 1] = new
      BY <1>0, <3>1
    <3>3. new.parent = parent /\ new.owner = request.owner
      OBVIOUS
    <3>4. parent # 0 => parent \in 1 .. Len(W) /\ W[parent].owner = request.owner
      BY <3>2 DEF ParentInv
    <3>5. \A i \in 1 .. Len(W) : W[i].parent # 0 =>
            W[i].parent < i /\ W[W[i].parent].owner = W[i].owner /\ W[i].parent \in Nat
      <4>1. \A i \in DOMAIN W : W[i].parent # 0 =>
              W[i].parent < i /\ W[W[i].parent].owner = W[i].owner
        BY DEF ParentInv, ThreadsOwned
      <4>2. \A i \in DOMAIN W : W[i].parent \in Nat
        <5>1. W \in Seq(Turn)
          BY <1>0
        <5> HIDE DEF W
        <5>2. \A i \in DOMAIN W : W[i] \in Turn
          BY <5>1
        <5> QED  BY <5>2 DEF Turn
      <4> QED  BY <3>2, <4>1, <4>2
    <3> HIDE DEF new, W
    <3>6. ASSUME NEW i \in 1 .. Len(W) + 1, db'.workflows[i].parent # 0
          PROVE  /\ db'.workflows[i].parent < i
                 /\ db'.workflows[db'.workflows[i].parent].owner = db'.workflows[i].owner
      <4>1. CASE i = Len(W) + 1
        BY <3>2, <3>3, <3>4, <3>6, <4>1
      <4>2. CASE i \in 1 .. Len(W)
        <5>1. W[i].parent \in 1 .. Len(W)
          BY <3>2, <3>5, <3>6, <4>2
        <5> QED  BY <3>2, <3>5, <3>6, <4>2, <5>1
      <4> QED  BY <3>2, <4>1, <4>2
    <3>7. ThreadsOwned'
      BY <3>2, <3>6 DEF ThreadsOwned
    <3> QED  BY <2>1, <3>7 DEF ParentInv
  <2> QED  BY <2>2, <2>3
<1>8. CASE Refuse \/ Abort
  <2>1. parent' = 0 /\ db' = db
    BY <1>8 DEF Refuse, Abort, Forget
  <2> QED  BY <2>1 DEF ParentInv, ThreadsOwned
<1>9. CASE UNCHANGED vars \/ \E a \in Agents : Toggle(a)
  <2>1. UNCHANGED <<at, request, parent, db>>
    BY <1>9 DEF vars, Toggle
  <2> QED  BY <2>1 DEF ParentInv, ThreadsOwned
<1> QED  BY <1>2, <1>3, <1>4, <1>5, <1>6, <1>7, <1>8, <1>9 DEF Next

-----------------------------------------------------------------------------
(* The results.                                                              *)

IInv ==
  /\ TypeInv /\ CoverInv /\ Staged /\ ReachInv
  /\ TeamInv /\ PlanInv /\ ParentInv

LEMMA Invariant == Spec => []IInv
<1>1. Init => IInv
  <2>1. Init => ParentInv
    BY DEF Init, ParentInv, ThreadsOwned
  <2>2. Init => ReachInv /\ TeamInv /\ PlanInv
    BY DEF Init, ReachInv, Drafted, TeamInv, PlanInv
  <2> QED  BY <2>1, <2>2, InitType, InitCover, InitStaged DEF IInv
<1>2. IInv /\ [Next]_vars => IInv'
  BY NextType, NextCover, NextStaged, NextReach, NextTeam, NextPlan, NextParent DEF IInv
<1> QED  BY <1>1, <1>2, PTL DEF Spec

(* The state of a submission keeps its type, whatever is asked, answered or  *)
(* proposed.                                                                 *)
THEOREM SubmissionTypeCorrect == Spec => []SubmissionTypeOK
<1>1. IInv => SubmissionTypeOK
  BY DEF IInv, TypeInv
<1> QED  BY <1>1, Invariant, PTL

(* _select_minimal covers what is required exactly once, with agents that    *)
(* provide it, and never gives up half-way.                                  *)
THEOREM CoveredOnceAlways == Spec => []CoveredOnce
<1>1. IInv => CoveredOnce
  BY DEF IInv, CoverInv
<1> QED  BY <1>1, Invariant, PTL

(* _build_edges and _reduce draw no cycle, whatever agents were selected for *)
(* whatever capabilities.                                                    *)
THEOREM PlansAreAcyclic == Spec => []StagesForbidCycles
<1>1. IInv => StagesForbidCycles
  BY NoCycle DEF IInv, Staged, StagesForbidCycles
<1> QED  BY <1>1, Invariant, PTL

(* _resolve_parent keeps conversations apart: every workflow a thread leads  *)
(* to is an earlier one of the same operator.                                *)
THEOREM ThreadsStayOwned == Spec => []ThreadsOwned
<1>1. IInv => ThreadsOwned
  BY DEF IInv, ParentInv
<1> QED  BY <1>1, Invariant, PTL

(* _reduce, in place and in any order, loses no input and leaves none that   *)
(* another one passes on.                                                    *)
THEOREM WorkReachesAlways == Spec => []WorkReaches
<1>1. IInv => WorkReaches
  BY DEF IInv, ReachInv, Drafted, WorkReaches
<1> QED  BY <1>1, Invariant, PTL

(* _normalise and the compiler make a sound team of anything a model may     *)
(* propose, and of the team used when it proposes nothing.                   *)
THEOREM TeamsAreSound == Spec => []TeamIsSound
<1>1. IInv => TeamIsSound
  BY TeamSound DEF IInv, TeamInv, TeamIsSound
<1> QED  BY <1>1, Invariant, PTL

(* In the delivered office, however many agents are enrolled beside it, a    *)
(* plan looks only at fields that will be there.                             *)
THEOREM FieldsAreGuaranteed ==
  ASSUME DeliveredOffice PROVE Spec => []FieldsGuaranteed
<1>1. IInv => FieldsGuaranteed
  BY FieldsSound DEF IInv
<1> QED  BY <1>1, Invariant, PTL

(* In the delivered office a run is turned away only where an operator has   *)
(* disabled an agent that could have served it.                              *)
THEOREM TurnedAwayRightly ==
  ASSUME DeliveredOffice PROVE Spec => TurnedAway
<1>1. IInv /\ [Next]_vars =>
        [tx.task # "failed" /\ tx'.task = "failed"
           => \E a \in Agents : a \notin enabled /\ Provides[a] \cap required # {}]_vars
  BY OnlyDisabled DEF IInv
<1> QED  BY <1>1, Invariant, PTL DEF Spec, TurnedAway
=============================================================================
