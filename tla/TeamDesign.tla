----------------------------- MODULE TeamDesign -----------------------------
(***************************************************************************)
(* What orchestration/team_designer.py makes of the team a model proposes: *)
(* one synthesizer and a capped roster are imposed on the design, and the  *)
(* design is compiled to the steps and edges of a plan.                    *)
(*                                                                         *)
(* A design is a sequence of members [role, dependsOn, synthesizer].  Two  *)
(* roles may have one slug; the key of a step is the slug and a number     *)
(* that tells it from earlier steps, as _unique() makes it.                *)
(***************************************************************************)
EXTENDS Naturals, Sequences, FiniteSets

CONSTANTS
  Roles,      \* what members may be called
  SlugOf,     \* a role's slug, or its default
  MaxAgents   \* generative_max_agents

ASSUME TeamAssumption == MaxAgents \in Nat /\ DOMAIN SlugOf = Roles

Member == [role : Roles, dependsOn : SUBSET Roles, synthesizer : BOOLEAN]

AtLeastOne(n) == IF n > 1 THEN n ELSE 1

(* The first of flagged members, or else the last member, writes the result.*)
Synthesizer(design) ==
  LET flagged == {i \in DOMAIN design : design[i].synthesizer}
  IN IF flagged = {} THEN Len(design)
     ELSE CHOOSE i \in flagged : \A j \in flagged : i <= j

(* mutant: what the model flagged stays flagged, and no cap is kept         *)
NormaliseUnchecked(design) ==
  LET workers == SelectSeq(design, LAMBDA m : ~m.synthesizer)
  IN Append(workers, design[Synthesizer(design)])

(* _normalise: workers in the order proposed, cut to the cap, then the one  *)
(* synthesizer, which depends on every worker that is left.                 *)
Normalise(design) ==
  LET s == Synthesizer(design)
      workers == Len(design) - 1
      cap == AtLeastOne(MaxAgents - 1)
      size == IF workers > cap THEN cap ELSE workers
      kept == [i \in 1 .. size |->
                 [design[IF i < s THEN i ELSE i + 1] EXCEPT !.synthesizer = FALSE]]
  IN Append(kept, [design[s] EXCEPT !.synthesizer = TRUE,
                                    !.dependsOn = {kept[i].role : i \in 1 .. size}])

(* The team used when no design can be had.                                 *)
DefaultTeam(analyst, specialist, writer) ==
  Normalise(<<[role |-> analyst, dependsOn |-> {}, synthesizer |-> FALSE],
              [role |-> specialist, dependsOn |-> {}, synthesizer |-> FALSE],
              [role |-> writer, dependsOn |-> {}, synthesizer |-> TRUE]>>)

(* The key handed out to the i-th member ...                                *)
UniqueKey(team, i) ==
  <<SlugOf[team[i].role],
    1 + Cardinality({j \in 1 .. i - 1 : SlugOf[team[j].role] = SlugOf[team[i].role]})>>

(* ... which is looked up by role, so that of two members with one role     *)
(* both get the key of the later.                                           *)
KeyOfRole(team, role) ==
  UniqueKey(team, CHOOSE i \in DOMAIN team :
    team[i].role = role /\ \A j \in DOMAIN team : team[j].role = role => j <= i)

StepKey(team, i) == KeyOfRole(team, team[i].role)
RolesIn(team) == {team[i].role : i \in DOMAIN team}

(* Dependencies on roles nobody has, and on oneself, are dropped.           *)
TeamEdges(team) ==
  LET named == {p \in (DOMAIN team) \X RolesIn(team) :
                  /\ p[2] \in team[p[1]].dependsOn
                  /\ KeyOfRole(team, p[2]) # StepKey(team, p[1])}
  IN {<<KeyOfRole(team, p[2]), StepKey(team, p[1])>> : p \in named}

(* The chain over the same steps, for designs that are not acyclic.         *)
Chain(team) == {<<StepKey(team, i - 1), StepKey(team, i)>> : i \in 2 .. Len(team)}

Keys(team) == {StepKey(team, i) : i \in DOMAIN team}

(* Steps from which following edges leads nowhere but in circles.           *)
Circular(keys, edges) ==
  \E loop \in (SUBSET keys) \ {{}} :
    \A k \in loop : \E l \in loop : <<k, l>> \in edges

(* WorkflowPlan refuses duplicate keys and cycles.                          *)
Accepted(team, edges) ==
  /\ Cardinality(Keys(team)) = Len(team)
  /\ \A i \in DOMAIN team : <<StepKey(team, i), StepKey(team, i)>> \notin edges
  /\ ~Circular(Keys(team), edges)

CompiledEdges(team) ==
  IF Accepted(team, TeamEdges(team)) THEN TeamEdges(team) ELSE Chain(team)

Compiles(team) == Accepted(team, CompiledEdges(team))
=============================================================================
