--------------------------- MODULE AgentCatalogue ---------------------------
(***************************************************************************)
(* The agents of an office: seeded at every start, enrolled and changed by *)
(* operators, each with capabilities of its own table and a result table   *)
(* made from its output schema (agents/enrollment.py, seed.py, tables.py,  *)
(* registry.py, api/routes/agents.py, models/agent.py, main.py).           *)
(*                                                                         *)
(* Every call is one transaction of several statements, read committed:    *)
(* it reads the agent, writes the columns that changed, deletes the        *)
(* capabilities, inserts them, alters the table, sets enabled, commits.    *)
(* Statements wait for rows and index entries other transactions have      *)
(* written; a DELETE removes the rows it saw when it began.                *)
(***************************************************************************)
EXTENDS Naturals, FiniteSets

CONSTANTS
  Builtin,     \* agents of agents/builtin.py, numbered in seeding order
  FreshIds,    \* ids of enrolled agents (name plus uuid)
  NoId,
  Names,
  Lower,       \* name -> what the unique index keeps of it
  Capabilities,
  Props,       \* properties an output schema may declare
  Types, NoType,
  Shipped,     \* built-in agent -> [name, caps, schema] in the code
  Enrollments, \* [name, caps, schema] operators may send
  Patches,     \* changes operators may send, fields NoChange where omitted
  NoChange,
  Malformed,   \* schemas that are no JSON Schema objects or make no columns
  Models, AnyModel,  \* AnyModel: routed freely ("Auto")
  Calls, MaxCalls,  \* calls at a time; bound: calls made
  MaxStarts,        \* bound: starts of the process
  MaxFaults         \* bound: table creations and commits that fail

Ids == DOMAIN Builtin \cup FreshIds
Schema == [Props -> Types \cup {NoType}]
Record == [name : Names, schema : Schema, enabled : BOOLEAN,
           model : Models \cup {AnyModel}, whole : BOOLEAN]
NoRecord == [name |-> NoId]
NoTable == [p \in Props |-> NoId]

Change == [name : Names \cup {NoChange}, caps : ((SUBSET Capabilities) \ {{}}) \cup {NoChange},
           schema : Schema \cup {NoChange}, enabled : BOOLEAN \cup {NoChange}]

ASSUME CatalogueAssumption ==
  /\ NoId \notin Names \cup Types \cup {NoType} /\ Props # {} /\ Patches \subseteq Change
  /\ \A a, b \in DOMAIN Builtin : a # b => Builtin[a] # Builtin[b]
  /\ Builtin \in [DOMAIN Builtin -> Nat] /\ DOMAIN Builtin \cap FreshIds = {}
  /\ Lower \in [Names -> Names] /\ AnyModel \notin Models /\ NoType \notin Types
  /\ \A a, b \in DOMAIN Builtin : Lower[Shipped[a].name] = Lower[Shipped[b].name] => a = b
  /\ \A e \in Enrollments \cup {Shipped[b] : b \in DOMAIN Builtin} :
       e.name \in Names /\ e.caps \in (SUBSET Capabilities) \ {{}} /\ e.schema \in Schema
  /\ MaxCalls \in Nat /\ MaxStarts \in Nat /\ MaxFaults \in Nat

VARIABLES
  agents,   \* agents, committed: id -> Record or NoRecord
  caps,     \* agent_capabilities, committed: id -> set
  tables,   \* agent_data, committed: id -> column types or NoTable
  call,     \* calls under way
  schemas,  \* history: id -> output schemas a run may have loaded
  made, starts, faults

stored == <<agents, caps, tables, schemas>>
vars == <<agents, caps, tables, call, schemas, made, starts, faults>>

Kinds == {"enroll", "patch", "bind"}
Stages == {"free", "read", "write", "drop", "dropping", "add", "table", "enable", "commit"}
(* want: what was asked for; seen and had: the agent as loaded; new and     *)
(* give: as it is to be; deleted: the capability rows removed.              *)
Idle == [at |-> "free", kind |-> "bind", id |-> NoId, want |-> NoChange,
         seen |-> NoRecord, had |-> {}, new |-> NoRecord, give |-> {}, deleted |-> {}]

NoPatch == [name |-> NoChange, caps |-> NoChange, schema |-> NoChange, enabled |-> NoChange]
Given(x, old) == IF x = NoChange THEN old ELSE x

------------------------------ (* Start and seeding *) -----------------------

(* ensure_agent_table: columns are added, never dropped or retyped.         *)
Widened(table, schema) ==
  [p \in Props |-> IF table = NoTable THEN schema[p]
                   ELSE IF table[p] = NoType THEN schema[p] ELSE table[p]]
Retyped(table, schema) ==
  /\ table # NoTable
  /\ \E p \in Props : schema[p] # NoType /\ table[p] \notin {NoType, schema[p]}

(* mutant: seeding writes the code's own flag                               *)
SeededReset(b) ==
  [name |-> Shipped[b].name, schema |-> Shipped[b].schema, whole |-> TRUE,
   enabled |-> TRUE,
   model |-> IF agents[b] = NoRecord THEN AnyModel ELSE agents[b].model]

(* upsert_agent: enabled is set on insert only, and a binding is kept.      *)
Seeded(b) ==
  [name |-> Shipped[b].name, schema |-> Shipped[b].schema, whole |-> TRUE,
   enabled |-> IF agents[b] = NoRecord THEN TRUE ELSE agents[b].enabled,
   model |-> IF agents[b] = NoRecord THEN AnyModel ELSE agents[b].model]

(* The name an agent has when b's turn comes.                               *)
NameAt(a, b) ==
  IF a \in DOMAIN Builtin /\ Builtin[a] < Builtin[b] THEN Shipped[a].name ELSE agents[a].name
Clash == \E b \in DOMAIN Builtin, a \in Ids :
  a # b /\ NameAt(a, b) # NoId /\ Lower[NameAt(a, b)] = Lower[Shipped[b].name]

(* The process starts: calls under way are rolled back, then one            *)
(* transaction seeds every built-in agent, types that changed being left    *)
(* alone.  One name taken undoes it all, which is logged.                   *)
Start ==
  /\ starts < MaxStarts /\ starts' = starts + 1
  /\ call' = [c \in Calls |-> Idle]
  /\ IF Clash THEN UNCHANGED stored
     ELSE LET b == DOMAIN Builtin IN
          /\ agents' = [a \in Ids |-> IF a \in b THEN Seeded(a) ELSE agents[a]]
          /\ caps' = [a \in Ids |-> IF a \in b THEN Shipped[a].caps ELSE caps[a]]
          /\ tables' = [a \in Ids |-> IF a \in b THEN Widened(tables[a], Shipped[a].schema)
                                                 ELSE tables[a]]
          /\ schemas' = [a \in Ids |-> schemas[a] \cup IF a \in b THEN {Shipped[a].schema} ELSE {}]
  /\ UNCHANGED <<made, faults>>

------------------------------- (* Calls *) ---------------------------------

Init ==
  /\ agents = [a \in Ids |-> NoRecord] /\ caps = [a \in Ids |-> {}]
  /\ tables = [a \in Ids |-> NoTable] /\ schemas = [a \in Ids |-> {}]
  /\ call = [c \in Calls |-> Idle]
  /\ made = 0 /\ starts = 0 /\ faults = 0

Begin(c, kind, id, want) ==
  /\ starts > 0 /\ call[c].at = "free" /\ made < MaxCalls
  /\ call' = [call EXCEPT ![c] =
                [Idle EXCEPT !.at = "read", !.kind = kind, !.id = id, !.want = want]]
  /\ made' = made + 1
  /\ UNCHANGED <<stored, starts, faults>>
Enroll(c) == \E e \in Enrollments, id \in FreshIds :
  /\ agents[id] = NoRecord /\ \A d \in Calls : call[d].id # id
  /\ Begin(c, "enroll", id, e)
Patch(c) == \E p \in Patches, id \in Ids : Begin(c, "patch", id, p)
Bind(c) == \E m \in Models \cup {AnyModel}, id \in Ids : Begin(c, "bind", id, m)

Stage(c, from, to) ==
  call[c].at = from /\ call' = [call EXCEPT ![c] = to]
Own == UNCHANGED <<stored, made, starts, faults>>

Taken(name, but) == \E a \in Ids \ {but} :
  agents[a] # NoRecord /\ Lower[agents[a].name] = Lower[name]

(* What enroll_agent writes: a new agent is enabled and routed freely.      *)
Enrolled(e) == [name |-> e.name, schema |-> e.schema, enabled |-> TRUE,
                model |-> AnyModel, whole |-> TRUE]
(* update_agent, upsert_agent: what is omitted is written as it was loaded, *)
(* the model preference with all its fields.                                *)
Patched(old, p) == [old EXCEPT !.name = Given(p.name, @), !.schema = Given(p.schema, @),
                               !.whole = TRUE]
(* set_model_binding: going back to AnyModel drops the two fields.          *)
Bound(old, m) == [old EXCEPT !.model = m, !.whole = (m # AnyModel)]

(* The request is checked against what is committed and refused, or the     *)
(* agent as it is to be is worked out from the agent as loaded.             *)
Read(c) ==
  LET me == call[c]
      old == agents[me.id]
      refused ==
        CASE me.kind = "enroll" -> me.want.schema \in Malformed \/ Taken(me.want.name, me.id)
          [] me.kind = "patch"  ->
               \/ old = NoRecord \/ me.want.schema \in Malformed
               \/ /\ me.want.name # NoChange /\ Lower[me.want.name] # Lower[old.name]
                  /\ Taken(me.want.name, me.id)
          [] me.kind = "bind"   -> old = NoRecord
      loaded == [me EXCEPT !.at = "write", !.seen = old, !.had = caps[me.id]]
  IN /\ Stage(c, "read",
          IF refused THEN Idle
          ELSE CASE me.kind = "enroll" -> [loaded EXCEPT !.new = Enrolled(me.want),
                                                         !.give = me.want.caps]
                 [] me.kind = "patch"  -> [loaded EXCEPT !.new = Patched(old, me.want),
                                             !.give = Given(me.want.caps, caps[me.id])]
                 [] me.kind = "bind"   -> [loaded EXCEPT !.new = Bound(old, me.want)])
     /\ Own

Wrote(x) == x.at \in {"drop", "dropping", "add", "table", "enable", "commit"} /\ x.new # x.seen
Renamed(x) == x.seen = NoRecord \/ x.new.name # x.seen.name
Dropped(x) == x.at \in {"add", "table", "enable", "commit"} /\ x.kind # "bind"
Added(x) == x.at \in {"table", "enable", "commit"} /\ x.kind # "bind"

(* Whom a call's next statement waits for: writers of its row, of its name  *)
(* in the index, of the capability rows it saw or is to insert.             *)
WaitsFor(c) ==
  LET me == call[c]
  IN {d \in Calls \ {c} : LET other == call[d] IN
       \/ /\ me.at = "write" /\ me.new # me.seen /\ Wrote(other)
          /\ \/ other.id = me.id
             \/ Renamed(me) /\ Renamed(other) /\ Lower[other.new.name] = Lower[me.new.name]
       \/ me.at = "dropping" /\ other.id = me.id /\ other.deleted \cap me.deleted # {}
            /\ Dropped(other)
       \/ me.at = "add" /\ other.id = me.id /\ Added(other) /\ other.give \cap me.give # {}
       \/ me.at = "enable" /\ me.kind = "patch" /\ me.want.enabled \notin {NoChange, me.new.enabled}
            /\ other.id = me.id /\ Wrote(other)}

(* mutant: the table's unique index on lower(name) is missing               *)
WriteUnindexed(c) ==
  LET me == call[c]
  IN /\ WaitsFor(c) = {}
     /\ Stage(c, "write", [me EXCEPT !.at = IF me.kind = "bind" THEN "commit" ELSE "drop"])
     /\ Own

(* The row is inserted or its changed columns are updated; the index        *)
(* refuses a name somebody has committed meanwhile.                         *)
Write(c) ==
  LET me == call[c]
      clash == Renamed(me) /\ Taken(me.new.name, me.id)
  IN /\ WaitsFor(c) = {}
     /\ Stage(c, "write", IF clash THEN Idle
          ELSE [me EXCEPT !.at = IF me.kind = "bind" THEN "commit" ELSE "drop"])
     /\ Own

(* DELETE: the rows seen when it begins, those of them still there when it  *)
(* gets to them.                                                            *)
Drop(c) ==
  /\ Stage(c, "drop", [call[c] EXCEPT !.at = "dropping", !.deleted = caps[call[c].id]])
  /\ Own
Dropping(c) ==
  /\ WaitsFor(c) = {}
  /\ Stage(c, "dropping", [call[c] EXCEPT !.at = "add", !.deleted = @ \cap caps[call[c].id]])
  /\ Own

(* INSERT: a capability somebody has inserted meanwhile is an IntegrityError *)
Add(c) ==
  LET me == call[c]
  IN /\ WaitsFor(c) = {}
     /\ Stage(c, "add", IF me.give \cap (caps[me.id] \ me.deleted) # {} THEN Idle
                        ELSE [me EXCEPT !.at = "table"])
     /\ Own

(* mutant: the type of a column that is there is not looked at              *)
MakeTableLoose(c) ==
  Stage(c, "table", [call[c] EXCEPT !.at = "enable"]) /\ Own

(* ensure_agent_table, strict: a property whose type changed undoes it all. *)
MakeTable(c) ==
  LET me == call[c]
  IN Stage(c, "table", IF Retyped(tables[me.id], me.new.schema) THEN Idle
                       ELSE [me EXCEPT !.at = "enable"]) /\ Own

(* Only a PATCH that names enabled sets it, last.                           *)
Enable(c) ==
  LET me == call[c]
  IN /\ WaitsFor(c) = {}
     /\ Stage(c, "enable", [me EXCEPT !.at = "commit",
          !.new.enabled = IF me.kind = "patch" THEN Given(me.want.enabled, @) ELSE @])
     /\ Own

(* Only the columns that differ from what was loaded are written.           *)
Merged(old, seen, new) ==
  IF seen = NoRecord THEN new
  ELSE LET pref == <<new.model, new.whole>> # <<seen.model, seen.whole>>
       IN [col \in DOMAIN old |->
             IF col \in {"model", "whole"} THEN IF pref THEN new[col] ELSE old[col]
             ELSE IF new[col] # seen[col] THEN new[col] ELSE old[col]]

Commit(c) ==
  LET me == call[c]
      now == Merged(agents[me.id], me.seen, me.new)
  IN /\ Stage(c, "commit", Idle)
     /\ agents' = [agents EXCEPT ![me.id] = now]
     /\ IF me.kind = "bind" THEN UNCHANGED <<caps, tables, schemas>>
        ELSE /\ caps' = [caps EXCEPT ![me.id] = (@ \ me.deleted) \cup me.give]
             /\ tables' = [tables EXCEPT ![me.id] = Widened(@, me.new.schema)]
             /\ schemas' = [schemas EXCEPT ![me.id] = @ \cup {now.schema}]
     /\ UNCHANGED <<made, starts, faults>>

(* A statement or the commit fails; the transaction is rolled back.         *)
Fail(c) ==
  /\ faults < MaxFaults /\ faults' = faults + 1
  /\ call[c].at \in {"table", "commit"}
  /\ call' = [call EXCEPT ![c] = Idle]
  /\ UNCHANGED <<stored, made, starts>>

(* Two transactions wait for each other: the database ends one.             *)
Victim(c) ==
  /\ \E d \in WaitsFor(c) : c \in WaitsFor(d)
  /\ call' = [call EXCEPT ![c] = Idle]
  /\ Own

Next ==
  \/ Start
  \/ \E c \in Calls :
       \/ Enroll(c) \/ Patch(c) \/ Bind(c) \/ Read(c) \/ Write(c) \/ Drop(c) \/ Dropping(c)
       \/ Add(c) \/ MakeTable(c) \/ Enable(c) \/ Commit(c) \/ Fail(c) \/ Victim(c)

Spec == Init /\ [][Next]_vars

------------------------------ (* Properties *) ------------------------------

(* Whatever overlaps or fails, an agent is there whole or not at all: row,   *)
(* at least one capability and a table that has a column for everything its  *)
(* schema declares; and no two agents have names that differ in case only.   *)
NothingHalfEnrolled ==
  /\ agents \in [Ids -> Record \cup {NoRecord}] /\ caps \in [Ids -> SUBSET Capabilities]
  /\ \A a \in Ids :
       /\ (agents[a] = NoRecord) = (caps[a] = {})
       /\ (agents[a] = NoRecord) = (tables[a] = NoTable)
       /\ agents[a] # NoRecord =>
            /\ ~Taken(agents[a].name, a)
            /\ \A p \in Props : agents[a].schema[p] # NoType => tables[a][p] # NoType

(* A run stores its result by the schema it loaded, perhaps before the agent *)
(* was changed: for an enrolled agent the table can always take it, as       *)
(* columns are neither dropped nor retyped (tables.py store_agent_row).      *)
ResultsFit ==
  \A a \in FreshIds : \A s \in schemas[a] : \A p \in Props :
    s[p] # NoType => tables[a][p] = s[p]

(* An agent is enabled and disabled by nothing but a PATCH that says so, and *)
(* neither a start nor a change of anything else that was under way undoes   *)
(* it (seed.py upsert_agent: "Respect an operator who disabled an existing   *)
(* agent").                                                                  *)
TogglesKept ==
  [][\A a \in Ids :
       agents[a] # NoRecord /\ agents'[a].enabled # agents[a].enabled =>
         \E c \in Calls : /\ call[c].kind = "patch" /\ call[c].id = a
                          /\ call[c].want.enabled = agents'[a].enabled]_vars

(* The claim of seed.py:5-8: capabilities are replaced wholesale, so that    *)
(* what a definition no longer has is really gone when its change commits.   *)
CapabilitiesReplaced ==
  [][\A c \in Calls :
       Commit(c) /\ call[c].kind # "bind" => caps'[call[c].id] = call[c].give]_vars
=============================================================================
