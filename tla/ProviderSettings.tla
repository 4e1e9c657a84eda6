-------------------------- MODULE ProviderSettings --------------------------
(***************************************************************************)
(* The vendors an office may call: keys stored through Settings, the       *)
(* routing policy, the registry built from them that every run routes by,  *)
(* and agents bound to one model (api/routes/providers.py and agents.py,   *)
(* services/provider_management.py and provider_connections.py,            *)
(* services/routing_policy.py, providers/registry.py, main.py).            *)
(*                                                                         *)
(* Every settings call has its own session.  It reads a row, asks the      *)
(* vendor, writes the row, reads all rows, replaces the registry and only  *)
(* then commits, and other calls run between any two of these steps.  A    *)
(* written row is locked until the writer's session is over.  A session    *)
(* sees the rows it holds as it loaded and changed them, and writes only   *)
(* the columns it has changed.                                             *)
(***************************************************************************)
EXTENDS Naturals, FiniteSets

CONSTANTS
  Providers,   \* vendors a key can be stored for
  DemoVendor,  \* the one that answers without a key
  Catalogue,   \* vendor -> its models
  EnvKeyed,    \* vendors with a key in the environment
  Production,  \* settings.is_production
  Keys,        \* keys operators have
  NoKey, EnvKey,
  Listings,    \* what vendors report: sets of models, {} for none
  Policies,    \* routing policies operators may set
  NoPolicy,    \* the one in force where none is stored: no order, no blocks
  Agents,      \* agents that can be bound to a model
  Wants,       \* agent -> [required, preferred, context] of its model
  Models, NoModel,
  ModelSpec,   \* model -> [traits, context, cost, latency, order]
  Calls,       \* settings calls that may be under way at a time
  MaxCalls,    \* bound: settings calls made
  MaxFaults    \* bound: failed commits and failed starts

(* A policy: place of a vendor in the priority order (one past the end for  *)
(* vendors not listed) and blocked models.                                  *)
Vendors == Providers \cup {DemoVendor}
Policy == [rank : [Vendors -> Nat], blocked : SUBSET Models]

ASSUME ProviderAssumption ==
  /\ DemoVendor \notin Providers /\ Providers # {} /\ Agents # {}
  /\ Catalogue \in [Vendors -> SUBSET Models]
  /\ \A v, w \in Vendors : v # w => Catalogue[v] \cap Catalogue[w] = {}
  /\ EnvKeyed \subseteq Providers /\ Production \in BOOLEAN
  /\ NoKey \notin Keys \cup {EnvKey} /\ EnvKey \notin Keys
  /\ Listings \subseteq SUBSET Models
  /\ Policies \subseteq Policy /\ NoPolicy \in Policy \ Policies
  /\ Models = UNION {Catalogue[v] : v \in Vendors} /\ NoModel \notin Models
  /\ MaxCalls \in Nat /\ MaxFaults \in Nat

(* Numbers compare, and ids tell models apart.                               *)
ASSUME RoutingAssumption ==
  /\ \A a \in Agents : Wants[a].context \in Nat /\ IsFiniteSet(Wants[a].preferred)
  /\ \A m \in Models : {ModelSpec[m].context, ModelSpec[m].cost, ModelSpec[m].latency,
                        ModelSpec[m].order} \subseteq Nat
  /\ \A m, n \in Models : ModelSpec[m].order = ModelSpec[n].order => m = n

VARIABLES
  rows,      \* provider_connections, committed: vendor -> Row or NoRow
  policy,    \* routing_policy, committed
  binding,   \* agent -> the model it is bound to, or NoModel
  registry,  \* app.state.provider_registry, which is the runner's too
  call,      \* settings calls under way
  clean,     \* history: no two calls overlapped, no commit failed and no
             \* start went wrong since the registry was last built on its own
  made, faults

stored == <<rows, policy, binding>>
vars == <<rows, policy, binding, registry, call, clean, made, faults>>

Row == [key : Keys, status : {"connected", "failed"}, listed : SUBSET Models]
NoRow == [key |-> NoKey, status |-> "disconnected", listed |-> {}]

Kinds  == {"connect", "test", "disconnect", "policy", "bind"}
Stages == {"free", "get", "try", "write", "keys", "lists", "order", "publish", "commit"}

Empty == [keys |-> [p \in Providers |-> NoKey], listed |-> [p \in Providers |-> {}],
          policy |-> NoPolicy]
SomeVendor == CHOOSE p \in Providers : TRUE
SomeAgent  == CHOOSE a \in Agents : TRUE
(* seen and was: the rows a session loaded; now: the vendor's as it has it  *)
(* since; view: what it has read for the registry.                          *)
Free == [at |-> "free", kind |-> "test", p |-> SomeVendor, key |-> NoKey,
         pol |-> NoPolicy, agent |-> SomeAgent, model |-> NoModel,
         seen |-> NoRow, now |-> NoRow, was |-> NoPolicy, bound |-> NoModel, view |-> Empty]

----------------------- (* Building the registry *) ------------------------

(* A stored key comes before the environment's.                             *)
KeyFor(keys, p) ==
  IF keys[p] # NoKey THEN keys[p] ELSE IF p \in EnvKeyed THEN EnvKey ELSE NoKey

(* A stored list of models limits the vendor to the catalogue models on it. *)
Usable(v, p) ==
  IF KeyFor(v.keys, p) = NoKey THEN {}
  ELSE IF v.listed[p] # {} THEN Catalogue[p] \cap v.listed[p] ELSE Catalogue[p]

(* A vendor left without a model is dropped; the demo vendor is there when  *)
(* no other is and this is not production.                                  *)
Build(v) ==
  LET live == {p \in Providers : Usable(v, p) # {}}
  IN [models |-> [p \in Vendors |->
                   IF p # DemoVendor THEN Usable(v, p)
                   ELSE IF live = {} /\ ~Production THEN Catalogue[p] ELSE {}],
      keys   |-> [p \in Providers |-> IF p \in live THEN KeyFor(v.keys, p) ELSE NoKey],
      policy |-> v.policy]

(* What all rows and the policy come to.                                    *)
ViewOf(rs, pol) == [keys   |-> [p \in Providers |-> rs[p].key],
                    listed |-> [p \in Providers |-> rs[p].listed],
                    policy |-> pol]

Offered(r) == UNION {r.models[p] : p \in Vendors}

------------------------------ (* Routing *) -------------------------------

VendorOf(m) == CHOOSE v \in Vendors : m \in Catalogue[v]

Eligible(r, a, pin) ==
  {m \in Offered(r) :
     /\ m \notin r.policy.blocked \/ m = pin
     /\ Wants[a].required \subseteq ModelSpec[m].traits
     /\ ModelSpec[m].context >= Wants[a].context}

(* Vendor priority, the bound model's vendor, traits the agent would like,  *)
(* cost, latency, and the id.                                               *)
Score(r, a, pin, m) ==
  <<r.policy.rank[VendorOf(m)],
    IF pin # NoModel /\ pin \notin Catalogue[VendorOf(m)] THEN 1 ELSE 0,
    Cardinality(Wants[a].preferred \ ModelSpec[m].traits),
    ModelSpec[m].cost, ModelSpec[m].latency, ModelSpec[m].order>>

Less(s, t) ==
  \E i \in 1 .. 6 : s[i] < t[i] /\ \A j \in 1 .. i - 1 : s[j] = t[j]

Best(r, a, pin, S) ==
  CHOOSE m \in S : \A n \in S \ {m} : Less(Score(r, a, pin, m), Score(r, a, pin, n))

(* mutant: a bound model is looked for among the eligible ones only         *)
ChoiceEligible(r, a, pin) ==
  LET all == Eligible(r, a, pin)
  IN IF pin \in all THEN pin ELSE IF all = {} THEN NoModel ELSE Best(r, a, pin, all)

(* rank_models: the bound model if any vendor has it, traits and blocks     *)
(* notwithstanding; then the best of the eligible ones; or none.            *)
Choice(r, a, pin) ==
  LET all == Eligible(r, a, pin)
  IN IF pin \in Offered(r) THEN pin ELSE IF all = {} THEN NoModel ELSE Best(r, a, pin, all)

------------------------------ (* A call *) --------------------------------

Init ==
  /\ rows = [p \in Providers |-> NoRow] /\ policy = NoPolicy
  /\ binding = [a \in Agents |-> NoModel]
  /\ registry = Build(Empty)
  /\ call = [c \in Calls |-> Free]
  /\ clean = TRUE /\ made = 0 /\ faults = 0

UnderWay == {c \in Calls : call[c].at # "free"}

Begin(c, first, args) ==
  /\ call[c].at = "free" /\ made < MaxCalls
  /\ call' = [call EXCEPT ![c] = [args EXCEPT !.at = first]]
  /\ made' = made + 1
  /\ clean' = (clean /\ UnderWay = {})
  /\ UNCHANGED <<stored, registry, faults>>

(* A new key is tried before anything is read.                              *)
Connect(c) == \E p \in Providers, k \in Keys :
  Begin(c, "try", [Free EXCEPT !.kind = "connect", !.p = p, !.key = k])
TestStored(c) == \E p \in Providers : Begin(c, "get", [Free EXCEPT !.p = p])
Disconnect(c) == \E p \in Providers :
  Begin(c, "get", [Free EXCEPT !.kind = "disconnect", !.p = p])
PutPolicy(c) == \E pol \in Policies :
  Begin(c, "get", [Free EXCEPT !.kind = "policy", !.pol = pol])
(* Binding looks at the registry that was there when the request came in; a *)
(* model nobody offers is refused, NoModel returns the agent to Auto.       *)
BindModel(c) == \E a \in Agents, m \in Offered(registry) \cup {NoModel} :
  Begin(c, "get", [Free EXCEPT !.kind = "bind", !.agent = a, !.model = m])

(* From one stage of a call to the next, or to its end.                     *)
Stage(c, from, to) ==
  call[c].at = from /\ call' = [call EXCEPT ![c] = to]
Reading == UNCHANGED <<stored, registry, clean, made, faults>>

(* The row this session works on is loaded.  A test without a key of either *)
(* kind is refused.                                                         *)
Get(c) ==
  LET me == call[c]
      row == rows[me.p]
      next == CASE me.kind = "test"       -> [me EXCEPT !.seen = row, !.at = "try"]
                [] me.kind = "connect"    -> [me EXCEPT !.seen = row, !.at = "write"]
                [] me.kind = "disconnect" -> [me EXCEPT !.seen = row, !.at = "write"]
                [] me.kind = "policy"     -> [me EXCEPT !.was = policy, !.at = "write"]
                [] me.kind = "bind"       -> [me EXCEPT !.bound = binding[me.agent], !.at = "commit"]
      keyless == me.kind = "test" /\ row = NoRow /\ me.p \notin EnvKeyed
  IN Stage(c, "get", IF keyless THEN Free ELSE next) /\ Reading

(* test_provider_key: the vendor lists its models or it does not.  A new    *)
(* key that fails is refused; a stored one is marked and loses its list.    *)
Try(c, good, listed) ==
  LET me == call[c]
      learnt(key) == [key |-> key, status |-> IF good THEN "connected" ELSE "failed",
                      listed |-> listed]
  IN /\ good \/ listed = {}
     /\ Stage(c, "try",
          IF me.kind = "connect"
          THEN IF good THEN [me EXCEPT !.now = learnt(me.key), !.at = "get"] ELSE Free
          ELSE [me EXCEPT !.at = "write",
                  !.now = IF me.seen = NoRow THEN NoRow ELSE learnt(me.seen.key)])
     /\ Reading

OwnRow(me) == me.kind \in {"connect", "disconnect"} \/ (me.kind = "test" /\ me.seen # NoRow)
Wrote(me)  == me.at \in {"keys", "lists", "order", "publish", "commit"}
Locked(me) == \E d \in Calls :
  /\ Wrote(call[d])
  /\ \/ me.kind = "policy" /\ call[d].kind = "policy"
     \/ OwnRow(me) /\ OwnRow(call[d]) /\ call[d].p = me.p

(* mutant: a test that finds its row gone writes its columns all the same   *)
ConflictOnInsert(me) ==
  me.kind = "connect" /\ (me.seen = NoRow) # (rows[me.p] = NoRow)

(* Inserting a row somebody has inserted meanwhile fails, and so does       *)
(* changing one that is gone; deleting one that is gone does not.           *)
Conflict(me) ==
  \/ me.kind = "connect" /\ (me.seen = NoRow) # (rows[me.p] = NoRow)
  \/ me.kind = "test" /\ me.seen # NoRow /\ rows[me.p] = NoRow
  \/ me.kind = "policy" /\ me.was = NoPolicy /\ policy # NoPolicy

Write(c) ==
  LET me == call[c]
  IN /\ ~Locked(me)
     /\ Stage(c, "write", IF Conflict(me) THEN Free ELSE [me EXCEPT !.at = "keys"])
     /\ Reading

(* load_connection_secrets, load_discovered_models and get_policy, one      *)
(* after the other: what is committed, but this session's row as it has it. *)
Mine(me) == IF OwnRow(me) THEN [rows EXCEPT ![me.p] = me.now] ELSE rows
ReadKeys(c) ==
  LET me == call[c]
  IN Stage(c, "keys", [me EXCEPT !.at = "lists",
       !.view.keys = ViewOf(Mine(me), policy).keys]) /\ Reading
ReadLists(c) ==
  LET me == call[c]
  IN Stage(c, "lists", [me EXCEPT !.at = "order",
       !.view.listed = ViewOf(Mine(me), policy).listed]) /\ Reading
ReadPolicy(c) ==
  LET me == call[c]
  IN Stage(c, "order", [me EXCEPT !.at = "publish",
       !.view.policy = IF me.kind = "policy" THEN me.pol ELSE policy]) /\ Reading

(* mutant: the registry is built from what is committed, without the row    *)
(* this call is about to commit                                             *)
PublishCommitted(c) ==
  /\ Stage(c, "publish", [call[c] EXCEPT !.at = "commit"])
  /\ registry' = Build(ViewOf(rows, policy))
  /\ UNCHANGED <<stored, clean, made, faults>>

(* rebuild_app_registry, and the runner's replace_providers.                *)
Publish(c) ==
  /\ Stage(c, "publish", [call[c] EXCEPT !.at = "commit"])
  /\ registry' = Build(call[c].view)
  /\ UNCHANGED <<stored, clean, made, faults>>

(* The columns that differ from what was loaded are written.                *)
Merged(old, seen, now) ==
  [col \in DOMAIN old |-> IF now[col] # seen[col] THEN now[col] ELSE old[col]]

Commit(c) ==
  LET me == call[c]
  IN /\ Stage(c, "commit", Free)
     /\ rows' = IF ~OwnRow(me) THEN rows
                ELSE IF me.kind = "disconnect" \/ me.seen = NoRow
                THEN [rows EXCEPT ![me.p] = me.now]
                ELSE [rows EXCEPT ![me.p] = Merged(@, me.seen, me.now)]
     /\ policy' = IF me.kind = "policy" THEN Merged(policy, me.was, me.pol) ELSE policy
     /\ binding' = IF me.kind = "bind" /\ me.model # me.bound
                   THEN [binding EXCEPT ![me.agent] = me.model] ELSE binding
     /\ UNCHANGED <<registry, clean, made, faults>>

(* The commit fails after the registry was replaced.                        *)
CommitFails(c) ==
  /\ faults < MaxFaults /\ faults' = faults + 1
  /\ Stage(c, "commit", Free)
  /\ clean' = FALSE
  /\ UNCHANGED <<stored, registry, made>>

------------------------- (* Starting *) ------------------------

(* The process starts again: calls under way are gone; the registry is      *)
(* built from the environment and then from the rows, unless they cannot be *)
(* read, which is only logged.                                              *)
Restart(readable) ==
  /\ UnderWay # {} \/ ~clean
  /\ readable \/ faults < MaxFaults
  /\ faults' = IF readable THEN faults ELSE faults + 1
  /\ registry' = Build(IF readable THEN ViewOf(rows, policy) ELSE Empty)
  /\ clean' = readable
  /\ call' = [c \in Calls |-> Free]
  /\ UNCHANGED <<stored, made>>

Next ==
  \/ \E c \in Calls :
       \/ Connect(c) \/ TestStored(c) \/ Disconnect(c) \/ PutPolicy(c) \/ BindModel(c)
       \/ Get(c) \/ \E good \in BOOLEAN, listed \in Listings : Try(c, good, listed)
       \/ Write(c) \/ ReadKeys(c) \/ ReadLists(c) \/ ReadPolicy(c)
       \/ Publish(c) \/ Commit(c) \/ CommitFails(c)
  \/ \E readable \in BOOLEAN : Restart(readable)

Spec == Init /\ [][Next]_vars

------------------------------ (* Properties *) -----------------------------

(* Whatever calls overlap, fail or are cut short, rows, registry and calls   *)
(* stay well formed; a disconnected vendor is not half a row.                *)
ProviderTypeOK ==
  /\ rows \in [Providers -> Row \cup {NoRow}] /\ policy \in Policy
  /\ binding \in [Agents -> Models \cup {NoModel}]
  /\ registry.models[DemoVendor] \subseteq Catalogue[DemoVendor]
  /\ \A p \in Providers : /\ registry.models[p] \subseteq Catalogue[p]
                          /\ (registry.keys[p] = NoKey) = (registry.models[p] = {})
  /\ \A c \in Calls : /\ call[c].at \in Stages /\ call[c].kind \in Kinds
                      /\ {call[c].seen, call[c].now} \subseteq Row \cup {NoRow}

(* Once settings calls have ended, and if none overlapped or lost its        *)
(* commit, the registry that every run routes by is what a fresh start would *)
(* build from the rows, though each call built it from its own uncommitted   *)
(* session (provider_management.py rebuild_app_registry).                    *)
RegistryCurrent ==
  clean /\ UnderWay = {} => registry = Build(ViewOf(rows, policy))

(* A model a run would pick while nothing is unsettled: its vendor has a key *)
(* and, if the vendor listed models, listed it; it is the demo vendor's only *)
(* if nobody has one; an agent bound to a model that can be had gets it, and *)
(* one that is not bound never gets a blocked model, nor one without what it *)
(* requires, nor one of a vendor that comes after a vendor with a model it   *)
(* could have had (registry.py rank_models).                                 *)
Sound(a, pin, m) ==
  LET keyed == {n \in Models \ Catalogue[DemoVendor] :
                 LET p == VendorOf(n)
                 IN /\ rows[p] # NoRow \/ p \in EnvKeyed
                    /\ rows[p].listed = {} \/ n \in rows[p].listed}
      have == IF keyed = {} /\ ~Production THEN Catalogue[DemoVendor] ELSE keyed
      fits(n) == /\ n \notin policy.blocked
                 /\ Wants[a].required \subseteq ModelSpec[n].traits
                 /\ Wants[a].context <= ModelSpec[n].context
  IN /\ m \in have \/ (m = NoModel /\ \A n \in have : ~fits(n))
     /\ pin \in have => m = pin
     /\ m \in have \ {pin} =>
          /\ fits(m)
          /\ \A n \in have : fits(n) =>
               policy.rank[VendorOf(m)] <= policy.rank[VendorOf(n)]

RoutedSoundly ==
  clean /\ UnderWay = {} =>
    \A a \in Agents : Sound(a, binding[a], Choice(registry, a, binding[a]))
=============================================================================
