--------------------------- MODULE ProviderProofs ---------------------------
(***************************************************************************)
(* Of any vendors, keys, listings and policies, and of any number of       *)
(* settings calls at a time: rows are never half written, and where no two *)
(* calls overlapped and none lost its commit, the registry is the one a    *)
(* fresh start would build.                                                *)
(***************************************************************************)
EXTENDS ProviderSettings, FiniteSetTheorems, WellFoundedInduction, TLAPS

AnyRow == Row \cup {NoRow}
View == [keys : [Providers -> Keys \cup {NoKey}], listed : [Providers -> SUBSET Models],
         policy : Policy]
CallRecord ==
  [at : Stages, kind : Kinds, p : Providers, key : Keys \cup {NoKey}, pol : Policy,
   agent : Agents, model : Models \cup {NoModel}, seen : AnyRow, now : AnyRow,
   was : Policy, bound : Models \cup {NoModel}, view : View]

(* What a call of each kind holds at each stage.                             *)
Sane(me) ==
  /\ me.kind = "connect" /\ me.at = "try" => me.key \in Keys
  /\ me.kind = "connect" /\ me.at \notin {"free", "try"} => me.now \in Row
  /\ me.kind = "test" /\ me.at \notin {"free", "get", "try"} /\ me.seen # NoRow => me.now \in Row
  /\ me.kind = "disconnect" => me.now = NoRow
  /\ me.at = "try" => me.kind \in {"connect", "test"}
  /\ me.kind = "bind" => me.at \in {"free", "get", "commit"}

RegistryOK(r) ==
  /\ r.models[DemoVendor] \subseteq Catalogue[DemoVendor]
  /\ \A p \in Providers : /\ r.models[p] \subseteq Catalogue[p]
                          /\ (r.keys[p] = NoKey) = (r.models[p] = {})

TypeInv ==
  /\ rows \in [Providers -> AnyRow] /\ policy \in Policy
  /\ binding \in [Agents -> Models \cup {NoModel}]
  /\ RegistryOK(registry)
  /\ call \in [Calls -> CallRecord]
  /\ \A c \in Calls : Sane(call[c])

(* A row somebody has written and not committed is nobody else's, and is     *)
(* there exactly if the writer found it there.                               *)
Holds(me) == OwnRow(me) /\ Wrote(me)
LockInv ==
  /\ \A c, d \in Calls : c # d /\ Holds(call[c]) /\ Holds(call[d]) => call[c].p # call[d].p
  /\ \A c \in Calls : Holds(call[c]) /\ call[c].kind # "disconnect" =>
       (call[c].seen = NoRow) = (rows[call[c].p] = NoRow)

(* The policy that a call leaves in force.                                   *)
PolicyAfter(me) == IF me.kind = "policy" THEN me.pol ELSE policy

(* While one call is under way at a time: what it loaded is still there,     *)
(* what it has read for the registry is what its commit will make of rows    *)
(* and policy, and until it replaces the registry that is of what is         *)
(* committed.                                                                *)
Loaded(me) == me.at \in {"write", "keys", "lists", "order", "publish", "commit"}
                \/ (me.kind = "test" /\ me.at = "try")
Consistent(me) ==
  /\ Loaded(me) => /\ me.kind \in {"connect", "test", "disconnect"} => me.seen = rows[me.p]
                   /\ me.kind = "policy" => me.was = policy
  /\ me.at \in {"lists", "order", "publish"} => me.view.keys = ViewOf(Mine(me), policy).keys
  /\ me.at \in {"order", "publish"} => me.view.listed = ViewOf(Mine(me), policy).listed
  /\ me.at = "publish" => me.view.policy = PolicyAfter(me)
  /\ me.at = "commit" => registry = IF me.kind = "bind" THEN Build(ViewOf(rows, policy))
                                    ELSE Build(ViewOf(Mine(me), PolicyAfter(me)))
QuietInv ==
  clean =>
    /\ \A c, d \in UnderWay : c = d
    /\ \A c \in UnderWay : Consistent(call[c])
    /\ (\A c \in UnderWay : call[c].at # "commit") => registry = Build(ViewOf(rows, policy))

IInv == TypeInv /\ LockInv /\ QuietInv

-----------------------------------------------------------------------------
(* Data.                                                                     *)

LEMMA FreeType == Free \in CallRecord /\ Sane(Free) /\ Empty \in View
<1>1. SomeVendor \in Providers /\ SomeAgent \in Agents
  BY ProviderAssumption DEF SomeVendor, SomeAgent
<1>2. Empty \in View /\ NoPolicy \in Policy
  BY ProviderAssumption DEF Empty, View
<1> QED  BY <1>1, <1>2 DEF Free, CallRecord, Sane, Stages, Kinds, AnyRow

LEMMA ViewType ==
  ASSUME NEW rs \in [Providers -> AnyRow], NEW pol \in Policy
  PROVE  ViewOf(rs, pol) \in View
<1>1. \A p \in Providers : rs[p].key \in Keys \cup {NoKey} /\ rs[p].listed \in SUBSET Models
  BY DEF AnyRow, Row, NoRow
<1> QED  BY <1>1 DEF ViewOf, View

LEMMA BuildType ==
  ASSUME NEW v \in View
  PROVE  RegistryOK(Build(v))
<1>1. \A p \in Providers : Usable(v, p) \subseteq Catalogue[p]
  BY DEF Usable
<1>2. \A p \in Providers : Usable(v, p) # {} => KeyFor(v.keys, p) # NoKey
  BY DEF Usable
<1>3. DemoVendor \in Vendors /\ Providers \subseteq Vendors /\ DemoVendor \notin Providers
  BY ProviderAssumption DEF Vendors
<1>4. Build(v).models[DemoVendor] \subseteq Catalogue[DemoVendor]
  BY <1>3 DEF Build
<1>5. ASSUME NEW p \in Providers
      PROVE  /\ Build(v).models[p] = Usable(v, p)
             /\ Build(v).keys[p] = IF Usable(v, p) # {} THEN KeyFor(v.keys, p) ELSE NoKey
  BY <1>3 DEF Build
<1> QED  BY <1>1, <1>2, <1>4, <1>5 DEF RegistryOK

(* Writing the changed columns of a row that is as it was loaded writes all. *)
LEMMA MergedRow ==
  /\ \A old, now \in AnyRow : Merged(old, old, now) = now
  /\ \A old, seen, now \in Row : Merged(old, seen, now) \in Row
<1>1. ASSUME NEW old \in AnyRow, NEW seen \in AnyRow, NEW now \in AnyRow
      PROVE  Merged(old, seen, now) =
               [key    |-> IF now.key # seen.key THEN now.key ELSE old.key,
                status |-> IF now.status # seen.status THEN now.status ELSE old.status,
                listed |-> IF now.listed # seen.listed THEN now.listed ELSE old.listed]
  BY DEF Merged, AnyRow, Row, NoRow
<1>2. ASSUME NEW old \in AnyRow, NEW now \in AnyRow PROVE Merged(old, old, now) = now
  BY <1>1 DEF AnyRow, Row, NoRow
<1>3. ASSUME NEW old \in Row, NEW seen \in Row, NEW now \in Row
      PROVE  Merged(old, seen, now) \in Row
  <2> DEFINE k == IF now.key # seen.key THEN now.key ELSE old.key
             t == IF now.status # seen.status THEN now.status ELSE old.status
             l == IF now.listed # seen.listed THEN now.listed ELSE old.listed
  <2>1. k \in Keys /\ t \in {"connected", "failed"} /\ l \in SUBSET Models
    BY DEF Row
  <2>2. Merged(old, seen, now) = [key |-> k, status |-> t, listed |-> l]
    BY <1>1 DEF AnyRow
  <2> HIDE DEF k, t, l
  <2> QED  BY <2>1, <2>2 DEF Row
<1> QED  BY <1>2, <1>3

LEMMA MergedPolicy ==
  /\ \A old, new \in Policy : Merged(old, old, new) = new
  /\ \A old, was, new \in Policy : Merged(old, was, new) \in Policy
<1>1. ASSUME NEW old \in Policy, NEW was \in Policy, NEW new \in Policy
      PROVE  Merged(old, was, new) =
               [rank    |-> IF new.rank # was.rank THEN new.rank ELSE old.rank,
                blocked |-> IF new.blocked # was.blocked THEN new.blocked ELSE old.blocked]
  BY DEF Merged, Policy
<1>2. ASSUME NEW old \in Policy, NEW new \in Policy PROVE Merged(old, old, new) = new
  <2> DEFINE r == IF new.rank # old.rank THEN new.rank ELSE old.rank
             b == IF new.blocked # old.blocked THEN new.blocked ELSE old.blocked
  <2>0. Merged(old, old, new) = [rank |-> r, blocked |-> b]
    BY <1>1
  <2>1. new = [rank |-> new.rank, blocked |-> new.blocked]
    BY DEF Policy
  <2>2. r = new.rank /\ b = new.blocked
    OBVIOUS
  <2> HIDE DEF r, b
  <2> QED  BY <2>0, <2>1, <2>2, Zenon
<1>3. ASSUME NEW old \in Policy, NEW was \in Policy, NEW new \in Policy
      PROVE  Merged(old, was, new) \in Policy
  <2> DEFINE r == IF new.rank # was.rank THEN new.rank ELSE old.rank
             b == IF new.blocked # was.blocked THEN new.blocked ELSE old.blocked
  <2>1. r \in [Vendors -> Nat] /\ b \in SUBSET Models
    BY DEF Policy
  <2>2. Merged(old, was, new) = [rank |-> r, blocked |-> b]
    BY <1>1
  <2> HIDE DEF r, b
  <2> QED  BY <2>1, <2>2 DEF Policy
<1> QED  BY <1>2, <1>3

-----------------------------------------------------------------------------
(* Types.                                                                    *)

LEMMA InitType == Init => TypeInv
<1> SUFFICES ASSUME Init PROVE TypeInv
  OBVIOUS
<1>1. RegistryOK(registry)
  BY FreeType, BuildType DEF Init
<1> QED  BY <1>1, FreeType, ProviderAssumption DEF Init, TypeInv, AnyRow

(* A step of one call that leaves it well formed.                            *)
LEMMA StageType ==
  ASSUME TypeInv, NEW c \in Calls, NEW to \in CallRecord, Sane(to),
         call' = [call EXCEPT ![c] = to]
  PROVE  call' \in [Calls -> CallRecord] /\ \A d \in Calls : Sane(call'[d])
  BY DEF TypeInv

(* How a call begins.                                                        *)
Begins(c) == Connect(c) \/ TestStored(c) \/ Disconnect(c) \/ PutPolicy(c) \/ BindModel(c)

LEMMA BeginShape ==
  ASSUME TypeInv, NEW c \in Calls, Begins(c)
  PROVE  \E first \in {"try", "get"}, args \in CallRecord :
           /\ Begin(c, first, args) /\ Sane([args EXCEPT !.at = first])
           /\ first = "try" => args.kind = "connect"
<1>0. Free \in CallRecord
  BY FreeType
<1>1. CASE Connect(c)
  <2>1. PICK p \in Providers, k \in Keys :
          Begin(c, "try", [Free EXCEPT !.kind = "connect", !.p = p, !.key = k])
    BY <1>1 DEF Connect
  <2> DEFINE args == [Free EXCEPT !.kind = "connect", !.p = p, !.key = k]
  <2>2. args \in CallRecord /\ Sane([args EXCEPT !.at = "try"]) /\ args.kind = "connect"
    BY <1>0 DEF CallRecord, Kinds, Sane
  <2> HIDE DEF args
  <2> QED  BY <2>1, <2>2 DEF args
<1>2. CASE TestStored(c)
  <2>1. PICK p \in Providers : Begin(c, "get", [Free EXCEPT !.p = p])
    BY <1>2 DEF TestStored
  <2> DEFINE args == [Free EXCEPT !.p = p]
  <2>2. args \in CallRecord /\ Sane([args EXCEPT !.at = "get"])
    BY <1>0 DEF CallRecord, Sane, Free
  <2> HIDE DEF args
  <2> QED  BY <2>1, <2>2 DEF args
<1>3. CASE Disconnect(c)
  <2>1. PICK p \in Providers : Begin(c, "get", [Free EXCEPT !.kind = "disconnect", !.p = p])
    BY <1>3 DEF Disconnect
  <2> DEFINE args == [Free EXCEPT !.kind = "disconnect", !.p = p]
  <2>2. args \in CallRecord /\ Sane([args EXCEPT !.at = "get"])
    BY <1>0 DEF CallRecord, Kinds, Sane, Free
  <2> HIDE DEF args
  <2> QED  BY <2>1, <2>2 DEF args
<1>4. CASE PutPolicy(c)
  <2>1. PICK pol \in Policies : Begin(c, "get", [Free EXCEPT !.kind = "policy", !.pol = pol])
    BY <1>4 DEF PutPolicy
  <2> DEFINE args == [Free EXCEPT !.kind = "policy", !.pol = pol]
  <2>2. args \in CallRecord /\ Sane([args EXCEPT !.at = "get"])
    BY <1>0, ProviderAssumption DEF CallRecord, Kinds, Sane
  <2> HIDE DEF args
  <2> QED  BY <2>1, <2>2 DEF args
<1>5. CASE BindModel(c)
  <2>0. Offered(registry) \subseteq Models
    BY ProviderAssumption DEF Offered, TypeInv, RegistryOK, Vendors
  <2>1. PICK a \in Agents, m \in Models \cup {NoModel} :
          Begin(c, "get", [Free EXCEPT !.kind = "bind", !.agent = a, !.model = m])
    BY <1>5, <2>0 DEF BindModel
  <2> DEFINE args == [Free EXCEPT !.kind = "bind", !.agent = a, !.model = m]
  <2>2. args \in CallRecord /\ Sane([args EXCEPT !.at = "get"])
    BY <1>0 DEF CallRecord, Kinds, Sane
  <2> HIDE DEF args
  <2> QED  BY <2>1, <2>2 DEF args
<1> QED  BY <1>1, <1>2, <1>3, <1>4, <1>5 DEF Begins

(* How a call goes on from loading and from the vendor's answer.              *)
LEMMA GetShape ==
  ASSUME TypeInv, NEW c \in Calls, Get(c)
  PROVE  LET me == call[c] IN
         /\ me.at = "get" /\ Reading
         /\ \/ call' = [call EXCEPT ![c] = Free]
            \/ /\ me.kind = "test"
               /\ call' = [call EXCEPT ![c] = [me EXCEPT !.seen = rows[me.p], !.at = "try"]]
            \/ /\ me.kind \in {"connect", "disconnect"}
               /\ call' = [call EXCEPT ![c] = [me EXCEPT !.seen = rows[me.p], !.at = "write"]]
            \/ /\ me.kind = "policy"
               /\ call' = [call EXCEPT ![c] = [me EXCEPT !.was = policy, !.at = "write"]]
            \/ /\ me.kind = "bind"
               /\ call' = [call EXCEPT ![c] =
                            [me EXCEPT !.bound = binding[me.agent], !.at = "commit"]]
<1>1. call[c].kind \in Kinds
  BY DEF TypeInv, CallRecord
<1> QED  BY <1>1 DEF Get, Stage, Kinds

LEMMA TryShape ==
  ASSUME TypeInv, NEW c \in Calls, NEW good \in BOOLEAN, NEW listed \in Listings,
         Try(c, good, listed)
  PROVE  LET me == call[c] IN
         /\ me.at = "try" /\ Reading
         /\ \/ call' = [call EXCEPT ![c] = Free]
            \/ \E row \in Row : /\ me.kind = "connect"
                                /\ call' = [call EXCEPT ![c] = [me EXCEPT !.now = row, !.at = "get"]]
            \/ \E row \in AnyRow :
                 /\ me.kind = "test" /\ (me.seen # NoRow => row \in Row)
                 /\ call' = [call EXCEPT ![c] = [me EXCEPT !.at = "write", !.now = row]]
<1> DEFINE me == call[c]
           learnt(key) == [key |-> key, status |-> IF good THEN "connected" ELSE "failed",
                           listed |-> listed]
<1>0. me \in CallRecord /\ Sane(me)
  BY DEF TypeInv
<1>1. me.at = "try" /\ me.kind \in {"connect", "test"} /\ listed \in SUBSET Models /\ Reading
  BY <1>0, ProviderAssumption DEF Try, Stage, Sane
<1>2. (IF good THEN "connected" ELSE "failed") \in {"connected", "failed"}
  OBVIOUS
<1>3. \A k \in Keys : learnt(k) \in Row
  BY <1>1, <1>2 DEF Row
<1>4. NoRow \in AnyRow /\ Row \subseteq AnyRow
  BY DEF AnyRow
<1>5. CASE me.kind = "connect"
  <2>1. learnt(me.key) \in Row
    BY <1>0, <1>1, <1>3, <1>5 DEF Sane
  <2>2. \/ call' = [call EXCEPT ![c] = Free]
        \/ call' = [call EXCEPT ![c] = [me EXCEPT !.now = learnt(me.key), !.at = "get"]]
    BY <1>5 DEF Try, Stage
  <2> HIDE DEF learnt
  <2> QED  BY <1>1, <1>5, <2>1, <2>2
<1>6. CASE me.kind = "test"
  <2> DEFINE row == IF me.seen = NoRow THEN NoRow ELSE learnt(me.seen.key)
  <2>1. me.seen # NoRow => me.seen.key \in Keys
    BY <1>0 DEF CallRecord, AnyRow, Row
  <2>2. row \in AnyRow /\ (me.seen # NoRow => row \in Row)
    BY <1>3, <1>4, <2>1
  <2>3. call' = [call EXCEPT ![c] = [me EXCEPT !.at = "write", !.now = row]]
    BY <1>6 DEF Try, Stage
  <2> HIDE DEF row, learnt
  <2> QED  BY <1>1, <1>6, <2>2, <2>3
<1> QED  BY <1>1, <1>5, <1>6

(* What a call that only reads goes on with.                                 *)
LEMMA ReadingType ==
  ASSUME TypeInv, NEW c \in Calls
  PROVE  /\ Get(c) => TypeInv'
         /\ \A good \in BOOLEAN, listed \in Listings : Try(c, good, listed) => TypeInv'
         /\ Write(c) \/ ReadKeys(c) \/ ReadLists(c) \/ ReadPolicy(c) => TypeInv'
<1> DEFINE me == call[c]
<1>0. me \in CallRecord /\ Sane(me) /\ rows \in [Providers -> AnyRow] /\ policy \in Policy
      /\ binding \in [Agents -> Models \cup {NoModel}]
  BY DEF TypeInv
<1>1. ASSUME NEW to \in CallRecord, Sane(to), call' = [call EXCEPT ![c] = to], Reading
      PROVE  TypeInv'
  BY <1>1, StageType DEF TypeInv, Reading, stored
<1>2. rows[me.p] \in AnyRow /\ binding[me.agent] \in Models \cup {NoModel}
  BY <1>0 DEF CallRecord
<1>3. ASSUME Get(c) PROVE TypeInv'
  <2> DEFINE row == rows[me.p]
  <2>1. row \in AnyRow
    BY <1>2
  <2> HIDE DEF row
  <2>2. /\ [me EXCEPT !.seen = row, !.at = "try"] \in CallRecord
        /\ [me EXCEPT !.seen = row, !.at = "write"] \in CallRecord
    BY <1>0, <2>1 DEF CallRecord, Stages
  <2>3. /\ [me EXCEPT !.was = policy, !.at = "write"] \in CallRecord
        /\ [me EXCEPT !.bound = binding[me.agent], !.at = "commit"] \in CallRecord
    BY <1>0, <1>2 DEF CallRecord, Stages
  <2>4. me.at = "get" /\ Reading
    BY <1>3, GetShape
  <2>5. /\ me.kind = "test" => Sane([me EXCEPT !.seen = row, !.at = "try"])
        /\ me.kind \in {"connect", "disconnect"} =>
             Sane([me EXCEPT !.seen = row, !.at = "write"])
        /\ me.kind = "policy" => Sane([me EXCEPT !.was = policy, !.at = "write"])
        /\ me.kind = "bind" => Sane([me EXCEPT !.bound = binding[me.agent], !.at = "commit"])
    BY <1>0, <2>4 DEF Sane, CallRecord
  <2> QED  BY <1>1, <1>3, <2>2, <2>3, <2>4, <2>5, GetShape, FreeType DEF row
<1>4. ASSUME NEW good \in BOOLEAN, NEW listed \in Listings, Try(c, good, listed)
      PROVE  TypeInv'
  <2>1. me.at = "try" /\ Reading
    BY <1>4, TryShape
  <2>2. ASSUME NEW row \in Row, me.kind = "connect"
        PROVE  /\ [me EXCEPT !.now = row, !.at = "get"] \in CallRecord
               /\ Sane([me EXCEPT !.now = row, !.at = "get"])
    <3>1. [me EXCEPT !.now = row, !.at = "get"] \in CallRecord
      BY <1>0, <2>2 DEF CallRecord, Stages, AnyRow
    <3>2. Sane([me EXCEPT !.now = row, !.at = "get"])
      BY <1>0, <2>2 DEF CallRecord, Sane
    <3> QED  BY <3>1, <3>2
  <2>3. ASSUME NEW row \in AnyRow, me.kind = "test", me.seen # NoRow => row \in Row
        PROVE  /\ [me EXCEPT !.at = "write", !.now = row] \in CallRecord
               /\ Sane([me EXCEPT !.at = "write", !.now = row])
    <3>1. [me EXCEPT !.at = "write", !.now = row] \in CallRecord
      BY <1>0, <2>3 DEF CallRecord, Stages
    <3>2. Sane([me EXCEPT !.at = "write", !.now = row])
      BY <1>0, <2>3 DEF CallRecord, Sane
    <3> QED  BY <3>1, <3>2
  <2> QED  BY <1>1, <1>4, <2>1, <2>2, <2>3, TryShape, FreeType
<1>5. ASSUME Write(c) PROVE TypeInv'
  <2>1. me.at = "write" /\ Reading
    BY <1>5 DEF Write, Stage
  <2>2. [me EXCEPT !.at = "keys"] \in CallRecord /\ Sane([me EXCEPT !.at = "keys"])
    BY <1>0, <2>1 DEF CallRecord, Stages, Sane
  <2>3. \/ call' = [call EXCEPT ![c] = Free]
        \/ call' = [call EXCEPT ![c] = [me EXCEPT !.at = "keys"]]
    BY <1>5 DEF Write, Stage
  <2> QED  BY <1>1, <2>1, <2>2, <2>3, FreeType
<1>6. Mine(me) \in [Providers -> AnyRow]
  BY <1>0 DEF Mine, CallRecord
<1>7. ViewOf(Mine(me), policy) \in View
  BY <1>0, <1>6, ViewType
<1>8. ASSUME ReadKeys(c) PROVE TypeInv'
  <2> DEFINE k == ViewOf(Mine(me), policy).keys
  <2>1. k \in [Providers -> Keys \cup {NoKey}]
    BY <1>7 DEF View
  <2>2. me.at = "keys" /\ Reading /\ call' = [call EXCEPT ![c] = [me EXCEPT !.at = "lists", !.view.keys = k]]
    BY <1>8 DEF ReadKeys, Stage
  <2> HIDE DEF k
  <2>3. /\ [me EXCEPT !.at = "lists", !.view.keys = k] \in CallRecord
        /\ Sane([me EXCEPT !.at = "lists", !.view.keys = k])
    BY <1>0, <2>1, <2>2 DEF CallRecord, Stages, Sane, View
  <2> QED  BY <1>1, <2>2, <2>3
<1>9. ASSUME ReadLists(c) PROVE TypeInv'
  <2> DEFINE k == ViewOf(Mine(me), policy).listed
  <2>1. k \in [Providers -> SUBSET Models]
    BY <1>7 DEF View
  <2>2. me.at = "lists" /\ Reading /\ call' = [call EXCEPT ![c] = [me EXCEPT !.at = "order", !.view.listed = k]]
    BY <1>9 DEF ReadLists, Stage
  <2> HIDE DEF k
  <2>3. /\ [me EXCEPT !.at = "order", !.view.listed = k] \in CallRecord
        /\ Sane([me EXCEPT !.at = "order", !.view.listed = k])
    BY <1>0, <2>1, <2>2 DEF CallRecord, Stages, Sane, View
  <2> QED  BY <1>1, <2>2, <2>3
<1>10. ASSUME ReadPolicy(c) PROVE TypeInv'
  <2> DEFINE k == IF me.kind = "policy" THEN me.pol ELSE policy
  <2>1. k \in Policy
    BY <1>0 DEF CallRecord
  <2>2. me.at = "order" /\ Reading /\ call' = [call EXCEPT ![c] = [me EXCEPT !.at = "publish", !.view.policy = k]]
    BY <1>10 DEF ReadPolicy, Stage
  <2> HIDE DEF k
  <2>3. /\ [me EXCEPT !.at = "publish", !.view.policy = k] \in CallRecord
        /\ Sane([me EXCEPT !.at = "publish", !.view.policy = k])
    BY <1>0, <2>1, <2>2 DEF CallRecord, Stages, Sane, View
  <2> QED  BY <1>1, <2>2, <2>3
<1> QED  BY <1>3, <1>4, <1>5, <1>8, <1>9, <1>10

LEMMA NextType == TypeInv /\ LockInv /\ [Next]_vars => TypeInv'
<1> SUFFICES ASSUME TypeInv, LockInv, [Next]_vars PROVE TypeInv'
  OBVIOUS
<1>0. /\ rows \in [Providers -> AnyRow] /\ policy \in Policy
      /\ binding \in [Agents -> Models \cup {NoModel}]
      /\ RegistryOK(registry) /\ \A c \in Calls : call[c] \in CallRecord /\ Sane(call[c])
  BY DEF TypeInv
<1>2. ASSUME NEW c \in Calls, Begins(c) PROVE TypeInv'
  <2>1. PICK first \in {"try", "get"}, args \in CallRecord :
          Begin(c, first, args) /\ Sane([args EXCEPT !.at = first])
    BY <1>2, BeginShape
  <2>2. [args EXCEPT !.at = first] \in CallRecord
    BY DEF CallRecord, Stages
  <2>3. call' = [call EXCEPT ![c] = [args EXCEPT !.at = first]] /\ UNCHANGED <<stored, registry>>
    BY <2>1 DEF Begin
  <2> QED  BY <1>0, <2>1, <2>2, <2>3, StageType DEF TypeInv, stored
<1>3. ASSUME NEW c \in Calls,
             \/ Get(c) \/ Write(c) \/ ReadKeys(c) \/ ReadLists(c) \/ ReadPolicy(c)
             \/ \E good \in BOOLEAN, listed \in Listings : Try(c, good, listed)
      PROVE  TypeInv'
  BY <1>3, ReadingType
<1>4. ASSUME NEW c \in Calls, Publish(c) PROVE TypeInv'
  <2>1. call[c].at = "publish" /\ call' = [call EXCEPT ![c] = [call[c] EXCEPT !.at = "commit"]]
    BY <1>4 DEF Publish, Stage
  <2>2. [call[c] EXCEPT !.at = "commit"] \in CallRecord /\ Sane([call[c] EXCEPT !.at = "commit"])
    BY <1>0, <2>1 DEF CallRecord, Stages, Sane
  <2>3. registry' = Build(call[c].view) /\ UNCHANGED stored /\ call[c].view \in View
    BY <1>0, <1>4 DEF Publish, CallRecord
  <2>4. RegistryOK(registry')
    BY <2>3, BuildType
  <2> QED  BY <1>0, <2>1, <2>2, <2>3, <2>4, StageType DEF TypeInv, stored
<1>5. ASSUME NEW c \in Calls, Commit(c) PROVE TypeInv'
  <2> DEFINE me == call[c]
  <2>0. me \in CallRecord /\ Sane(me) /\ me.at = "commit"
    BY <1>0, <1>5 DEF Commit, Stage
  <2>1. call' = [call EXCEPT ![c] = Free] /\ UNCHANGED registry
    BY <1>5 DEF Commit, Stage
  <2>2. rows' \in [Providers -> AnyRow]
    <3>1. CASE ~OwnRow(me)
      BY <1>0, <1>5, <3>1 DEF Commit
    <3>2. CASE OwnRow(me) /\ (me.kind = "disconnect" \/ me.seen = NoRow)
      <4>1. rows' = [rows EXCEPT ![me.p] = me.now]
        BY <1>5, <3>2 DEF Commit
      <4>2. me.now \in AnyRow
        BY <2>0 DEF CallRecord
      <4> QED  BY <1>0, <4>1, <4>2
    <3>3. CASE OwnRow(me) /\ me.kind # "disconnect" /\ me.seen # NoRow
      <4>1. rows' = [rows EXCEPT ![me.p] = Merged(rows[me.p], me.seen, me.now)]
        BY <1>5, <3>3 DEF Commit
      <4>2. me.now \in Row /\ me.seen \in Row
        BY <2>0, <3>3 DEF Sane, OwnRow, CallRecord, AnyRow
      <4>3. Holds(me)
        BY <2>0, <3>3 DEF Holds, Wrote
      <4>4. rows[me.p] \in Row
        BY <1>0, <2>0, <3>3, <4>3 DEF LockInv, CallRecord, AnyRow
      <4>5. Merged(rows[me.p], me.seen, me.now) \in Row
        BY <4>2, <4>4, MergedRow
      <4> QED  BY <1>0, <4>1, <4>5 DEF AnyRow
    <3> QED  BY <3>1, <3>2, <3>3
  <2>3. policy' \in Policy
    <3>1. policy' = policy \/ policy' = Merged(policy, me.was, me.pol)
      BY <1>5 DEF Commit
    <3>2. me.was \in Policy /\ me.pol \in Policy
      BY <2>0 DEF CallRecord
    <3>3. Merged(policy, me.was, me.pol) \in Policy
      BY <1>0, <3>2, MergedPolicy, Zenon
    <3> QED  BY <1>0, <3>1, <3>3
  <2>4. binding' \in [Agents -> Models \cup {NoModel}]
    <3>1. me.model \in Models \cup {NoModel}
      BY <2>0 DEF CallRecord
    <3>2. binding' = binding \/ binding' = [binding EXCEPT ![me.agent] = me.model]
      BY <1>5 DEF Commit
    <3> QED  BY <1>0, <3>1, <3>2
  <2>5. call' \in [Calls -> CallRecord] /\ \A d \in Calls : Sane(call'[d])
    BY <2>1, StageType, FreeType
  <2> QED  BY <1>0, <2>1, <2>2, <2>3, <2>4, <2>5 DEF TypeInv
<1>6. ASSUME NEW c \in Calls, CommitFails(c) PROVE TypeInv'
  <2>1. call' = [call EXCEPT ![c] = Free] /\ UNCHANGED <<stored, registry>>
    BY <1>6 DEF CommitFails, Stage
  <2> QED  BY <1>0, <2>1, StageType, FreeType DEF TypeInv, stored
<1>7. ASSUME NEW readable \in BOOLEAN, Restart(readable) PROVE TypeInv'
  <2> DEFINE v == IF readable THEN ViewOf(rows, policy) ELSE Empty
  <2>1. v \in View
    BY <1>0, ViewType, FreeType
  <2>2. registry' = Build(v) /\ call' = [c \in Calls |-> Free] /\ UNCHANGED stored
    BY <1>7 DEF Restart
  <2> HIDE DEF v
  <2>3. RegistryOK(registry')
    BY <2>1, <2>2, BuildType
  <2> QED  BY <1>0, <2>2, <2>3, FreeType DEF TypeInv, stored
<1>8. CASE UNCHANGED vars
  BY <1>8 DEF vars, TypeInv
<1> QED  BY <1>2, <1>3, <1>4, <1>5, <1>6, <1>7, <1>8 DEF Next, Begins

-----------------------------------------------------------------------------
(* Locks.                                                                    *)

LEMMA InitLock == Init => LockInv
  BY DEF Init, LockInv, Holds, Wrote, Free

(* A step that neither writes a row nor changes whose row is held.           *)
LEMMA LockKept ==
  ASSUME TypeInv, LockInv, NEW c \in Calls, NEW to,
         call' = [call EXCEPT ![c] = to], UNCHANGED rows,
         Holds(to) => /\ Holds(call[c]) /\ to.p = call[c].p
                      /\ to.seen = call[c].seen /\ to.kind = call[c].kind
  PROVE  LockInv'
<1>1. \A d \in Calls : call'[d] = IF d = c THEN to ELSE call[d]
  BY DEF TypeInv
<1>2. \A d \in Calls : Holds(call'[d]) =>
        /\ Holds(call[d]) /\ call'[d].p = call[d].p
        /\ call'[d].seen = call[d].seen /\ call'[d].kind = call[d].kind
  BY <1>1
<1> QED  BY <1>2 DEF LockInv, Holds, OwnRow, Wrote

LEMMA NextLock == TypeInv /\ LockInv /\ [Next]_vars => LockInv'
<1> SUFFICES ASSUME TypeInv, LockInv, [Next]_vars PROVE LockInv'
  OBVIOUS
<1>0. ~Holds(Free) /\ \A c \in Calls : call[c] \in CallRecord
  BY DEF Holds, Wrote, Free, TypeInv
<1>2. ASSUME NEW c \in Calls, Begins(c) PROVE LockInv'
  <2>1. PICK first \in {"try", "get"}, args \in CallRecord : Begin(c, first, args)
    BY <1>2, BeginShape
  <2>2. call' = [call EXCEPT ![c] = [args EXCEPT !.at = first]] /\ UNCHANGED rows
    BY <2>1 DEF Begin, stored
  <2>3. ~Holds([args EXCEPT !.at = first])
    BY DEF Holds, Wrote, CallRecord
  <2> QED  BY <2>2, <2>3, LockKept
<1>3. ASSUME NEW c \in Calls,
             Get(c) \/ \E good \in BOOLEAN, listed \in Listings : Try(c, good, listed)
      PROVE  LockInv'
  <2>1. Reading
    BY <1>3, GetShape, TryShape
  <2>2. PICK to : call' = [call EXCEPT ![c] = to] /\ ~Holds(to)
    <3> DEFINE me == call[c]
    <3>0. me \in CallRecord
      BY <1>0
    <3>1. CASE Get(c)
      <4>1. \A row : /\ ~Holds([me EXCEPT !.seen = row, !.at = "try"])
                     /\ ~Holds([me EXCEPT !.seen = row, !.at = "write"])
                     /\ ~Holds([me EXCEPT !.was = row, !.at = "write"])
        BY <3>0 DEF CallRecord, Holds, Wrote
      <4>2. me.kind = "bind" => \A m : ~Holds([me EXCEPT !.bound = m, !.at = "commit"])
        BY <3>0 DEF CallRecord, Holds, OwnRow
      <4> QED  BY <1>0, <3>1, <4>1, <4>2, GetShape
    <3>2. CASE \E good \in BOOLEAN, listed \in Listings : Try(c, good, listed)
      <4>1. \A row : /\ ~Holds([me EXCEPT !.now = row, !.at = "get"])
                     /\ ~Holds([me EXCEPT !.at = "write", !.now = row])
        BY <3>0 DEF CallRecord, Holds, Wrote
      <4> QED  BY <1>0, <3>2, <4>1, TryShape
    <3> QED  BY <1>3, <3>1, <3>2
  <2> QED  BY <2>1, <2>2, LockKept DEF Reading, stored
<1>4. ASSUME NEW c \in Calls, Write(c) PROVE LockInv'
  <2> DEFINE me == call[c]
             to == [me EXCEPT !.at = "keys"]
  <2>0. me \in CallRecord /\ UNCHANGED rows /\ ~Locked(me) /\ me.at = "write"
    BY <1>0, <1>4 DEF Write, Stage, Reading, stored
  <2>1. CASE Conflict(me)
    BY <1>0, <1>4, <2>0, <2>1, LockKept DEF Write, Stage
  <2>2. CASE ~Conflict(me)
    <3>1. call' = [call EXCEPT ![c] = to]
      BY <1>4, <2>2 DEF Write, Stage
    <3>2. /\ to.p = me.p /\ to.kind = me.kind /\ to.seen = me.seen
          /\ OwnRow(to) = OwnRow(me) /\ Wrote(to)
      BY <2>0 DEF CallRecord, OwnRow, Wrote
    <3>3. \A d \in Calls : Holds(call[d]) /\ OwnRow(me) => call[d].p # me.p
      BY <2>0 DEF Locked, Holds
    <3>4. OwnRow(me) /\ me.kind # "disconnect" => (me.seen = NoRow) = (rows[me.p] = NoRow)
      BY <2>0, <2>2 DEF Conflict, OwnRow
    <3>5. \A d \in Calls : call'[d] = IF d = c THEN to ELSE call[d]
      BY <3>1 DEF TypeInv
    <3> HIDE DEF to, me
    <3>6. \A d \in Calls : call'[d] = (IF d = c THEN to ELSE call[d])
                           /\ (d # c => Holds(call'[d]) = Holds(call[d]))
      BY <3>5
    <3>7. Holds(call'[c]) => OwnRow(me)
      BY <3>2, <3>5 DEF Holds
    <3>8. ASSUME NEW d \in Calls, NEW e \in Calls, d # e, Holds(call'[d]), Holds(call'[e])
          PROVE  call'[d].p # call'[e].p
      <4>1. CASE d = c
        BY <3>2, <3>3, <3>5, <3>7, <3>8, <4>1
      <4>2. CASE e = c
        BY <3>2, <3>3, <3>5, <3>7, <3>8, <4>2
      <4>3. CASE d # c /\ e # c
        BY <3>5, <3>8, <4>3 DEF LockInv
      <4> QED  BY <4>1, <4>2, <4>3
    <3>9. ASSUME NEW d \in Calls, Holds(call'[d]), call'[d].kind # "disconnect"
          PROVE  (call'[d].seen = NoRow) = (rows'[call'[d].p] = NoRow)
      BY <2>0, <3>2, <3>4, <3>5, <3>7, <3>9 DEF LockInv
    <3>10. \A d \in Calls : Holds(call[d])' = Holds(call'[d])
      BY DEF Holds, OwnRow, Wrote
    <3> QED  BY <3>8, <3>9, <3>10 DEF LockInv
  <2> QED  BY <2>1, <2>2
<1>5. ASSUME NEW c \in Calls, ReadKeys(c) \/ ReadLists(c) \/ ReadPolicy(c) \/ Publish(c)
      PROVE  LockInv'
  <2> DEFINE me == call[c]
  <2>0. call \in [Calls -> CallRecord] /\ me \in CallRecord
    BY DEF TypeInv
  <2>1. PICK to : /\ call' = [call EXCEPT ![c] = to] /\ UNCHANGED rows
                  /\ to.p = me.p /\ to.seen = me.seen /\ to.kind = me.kind
    <3> DEFINE Kept(to) == to.p = me.p /\ to.seen = me.seen /\ to.kind = me.kind
    <3>0. UNCHANGED rows
      BY <1>5 DEF ReadKeys, ReadLists, ReadPolicy, Publish, Reading, stored
    <3>1. CASE ReadKeys(c)
      <4> DEFINE to == [me EXCEPT !.at = "lists", !.view.keys = ViewOf(Mine(me), policy).keys]
      <4>1. call' = [call EXCEPT ![c] = to]
        BY <3>1 DEF ReadKeys, Stage
      <4>2. Kept(to)
        BY <2>0 DEF CallRecord
      <4> QED  BY <3>0, <4>1, <4>2
    <3>2. CASE ReadLists(c)
      <4> DEFINE to == [me EXCEPT !.at = "order",
                                  !.view.listed = ViewOf(Mine(me), policy).listed]
      <4>1. call' = [call EXCEPT ![c] = to]
        BY <3>2 DEF ReadLists, Stage
      <4>2. Kept(to)
        BY <2>0 DEF CallRecord
      <4> QED  BY <3>0, <4>1, <4>2
    <3>3. CASE ReadPolicy(c)
      <4> DEFINE to == [me EXCEPT !.at = "publish",
                          !.view.policy = IF me.kind = "policy" THEN me.pol ELSE policy]
      <4>1. call' = [call EXCEPT ![c] = to]
        BY <3>3 DEF ReadPolicy, Stage
      <4>2. Kept(to)
        BY <2>0 DEF CallRecord
      <4> QED  BY <3>0, <4>1, <4>2
    <3>4. CASE Publish(c)
      <4> DEFINE to == [me EXCEPT !.at = "commit"]
      <4>1. call' = [call EXCEPT ![c] = to]
        BY <3>4 DEF Publish, Stage
      <4>2. Kept(to)
        BY <2>0 DEF CallRecord
      <4> QED  BY <3>0, <4>1, <4>2
    <3> QED  BY <1>5, <3>1, <3>2, <3>3, <3>4
  <2>2. Wrote(call[c])
    BY <1>5 DEF ReadKeys, ReadLists, ReadPolicy, Publish, Stage, Wrote
  <2>3. Holds(to) => Holds(call[c])
    BY <2>1, <2>2 DEF Holds, OwnRow
  <2> QED  BY <2>1, <2>3, LockKept
<1>6. ASSUME NEW c \in Calls, Commit(c) PROVE LockInv'
  <2> DEFINE me == call[c]
  <2>1. call' = [call EXCEPT ![c] = Free] /\ Wrote(me)
    BY <1>6 DEF Commit, Stage, Wrote
  <2>2. \A d \in Calls : call'[d] = IF d = c THEN Free ELSE call[d]
    BY <2>1 DEF TypeInv
  <2>3. \A d \in Calls : Holds(call'[d]) => d # c /\ Holds(call[d]) /\ call'[d] = call[d]
    BY <1>0, <2>2
  <2>4. \A d \in Calls : Holds(call'[d]) => rows'[call[d].p] = rows[call[d].p]
    <3>1. CASE OwnRow(me)
      <4>1. \A d \in Calls : Holds(call'[d]) => call[d].p # me.p /\ call[d].p \in Providers
        BY <1>0, <2>1, <2>3, <3>1 DEF LockInv, Holds, CallRecord
      <4>2. \A p \in Providers \ {me.p} : rows'[p] = rows[p]
        BY <1>6, <3>1 DEF Commit, TypeInv
      <4> QED  BY <4>1, <4>2
    <3>2. CASE ~OwnRow(me)
      BY <1>6, <3>2 DEF Commit
    <3> QED  BY <3>1, <3>2
  <2>5. LockInv' 
    BY <2>3, <2>4 DEF LockInv, Holds, OwnRow, Wrote
  <2> QED  BY <2>5
<1>7. ASSUME NEW c \in Calls, CommitFails(c) PROVE LockInv'
  BY <1>0, <1>7, LockKept DEF CommitFails, Stage, stored
<1>8. ASSUME NEW readable \in BOOLEAN, Restart(readable) PROVE LockInv'
  BY <1>8 DEF Restart, LockInv, Holds, Wrote, Free
<1>9. CASE UNCHANGED vars
  BY <1>9 DEF vars, stored, LockInv, Holds, OwnRow, Wrote
<1> QED  BY <1>2, <1>3, <1>4, <1>5, <1>6, <1>7, <1>8, <1>9 DEF Next, Begins

-----------------------------------------------------------------------------
(* The registry while one call is under way at a time.                       *)

LEMMA InitQuiet == Init => QuietInv
<1> SUFFICES ASSUME Init PROVE QuietInv
  OBVIOUS
<1>1. UnderWay = {}
  BY DEF Init, UnderWay, Free
<1>2. ViewOf(rows, policy) = Empty
  BY DEF Init, ViewOf, Empty, NoRow
<1> QED  BY <1>1, <1>2 DEF Init, QuietInv

(* A step of the only call that leaves rows and registry alone.              *)
LEMMA QuietStep ==
  ASSUME TypeInv, QuietInv, NEW c \in Calls, NEW to, call[c].at \notin {"free", "commit"},
         call' = [call EXCEPT ![c] = to], Reading,
         clean /\ to.at # "free" => Consistent(to),
         to.at = "commit" => to.kind = "bind"
  PROVE  QuietInv'
<1> SUFFICES ASSUME clean PROVE QuietInv'
  BY DEF QuietInv, Reading
<1>1. \A d \in Calls : call'[d] = IF d = c THEN to ELSE call[d]
  BY DEF TypeInv
<1>2. \A d \in UnderWay : d = c
  BY DEF QuietInv, UnderWay
<1>3. \A d \in UnderWay' : d = c /\ to.at # "free"
  BY <1>1, <1>2 DEF UnderWay
<1>4. registry = Build(ViewOf(rows, policy))
  BY <1>2 DEF QuietInv
<1>5. to.at # "free" => Consistent(to)'
  BY DEF Consistent, Loaded, Mine, OwnRow, PolicyAfter, Reading, stored
<1>6. \A d \in UnderWay' : d \in Calls /\ Consistent(call[d])'
  <2>1. \A d \in UnderWay' : d \in Calls /\ call'[d] = to
    BY <1>1, <1>3 DEF UnderWay
  <2> QED  BY <1>3, <1>5, <2>1
<1> QED  BY <1>3, <1>4, <1>6 DEF QuietInv, Reading, stored

(* The rows as the only session sees them are those its commit leaves.       *)
LEMMA NextQuiet == TypeInv /\ LockInv /\ QuietInv /\ [Next]_vars => QuietInv'
<1> SUFFICES ASSUME TypeInv, LockInv, QuietInv, [Next]_vars PROVE QuietInv'
  OBVIOUS
<1>0. /\ rows \in [Providers -> AnyRow] /\ policy \in Policy
      /\ \A c \in Calls : call[c] \in CallRecord /\ Sane(call[c])
  BY DEF TypeInv
<1>1. ASSUME NEW c \in Calls, call[c].at # "free", clean
      PROVE  Consistent(call[c])
  BY <1>1 DEF QuietInv, UnderWay
<1>2. ASSUME NEW c \in Calls, Begins(c) PROVE QuietInv'
  <2>1. PICK first \in {"try", "get"}, args \in CallRecord :
          Begin(c, first, args) /\ (first = "try" => args.kind = "connect")
    BY <1>2, BeginShape
  <2> SUFFICES ASSUME clean' PROVE QuietInv'
    BY DEF QuietInv
  <2> DEFINE to == [args EXCEPT !.at = first]
  <2>2. /\ call' = [call EXCEPT ![c] = to] /\ UNCHANGED <<rows, policy, registry>>
        /\ clean /\ UnderWay = {}
    BY <2>1 DEF Begin, stored
  <2>3. to.at = first /\ to.kind = args.kind
    BY DEF CallRecord
  <2> HIDE DEF to
  <2>4. \A d \in Calls : call'[d] = IF d = c THEN to ELSE call[d]
    BY <2>2 DEF TypeInv
  <2>5. UnderWay' \subseteq {c}
    BY <2>2, <2>4 DEF UnderWay
  <2>6. registry = Build(ViewOf(rows, policy))
    BY <2>2 DEF QuietInv
  <2>7. Consistent(to)'
    BY <2>1, <2>3 DEF Consistent, Loaded
  <2>8. \A d \in UnderWay' : Consistent(call[d])'
    BY <2>4, <2>5, <2>7 DEF UnderWay
  <2> QED  BY <2>2, <2>5, <2>6, <2>8 DEF QuietInv
<1>3. ASSUME NEW c \in Calls, Get(c) PROVE QuietInv'
  <2> DEFINE me == call[c]
  <2>0. me \in CallRecord /\ me.at = "get" /\ Reading
    BY <1>0, <1>3, GetShape
  <2>1. /\ me.kind = "test" => Consistent([me EXCEPT !.seen = rows[me.p], !.at = "try"])
        /\ me.kind \in {"connect", "disconnect"} =>
             Consistent([me EXCEPT !.seen = rows[me.p], !.at = "write"])
        /\ me.kind = "policy" => Consistent([me EXCEPT !.was = policy, !.at = "write"])
    BY <2>0 DEF CallRecord, Consistent, Loaded
  <2>2. clean => registry = Build(ViewOf(rows, policy))
    BY <2>0 DEF QuietInv, UnderWay
  <2>3. me.kind = "bind" /\ clean =>
          Consistent([me EXCEPT !.bound = binding[me.agent], !.at = "commit"])
    BY <2>0, <2>2 DEF CallRecord, Consistent, Loaded
  <2>4. Free.at = "free" /\ me.at \notin {"free", "commit"}
    BY <2>0 DEF Free
  <2>5. \A x : /\ [me EXCEPT !.seen = x, !.at = "try"].at = "try"
               /\ [me EXCEPT !.seen = x, !.at = "write"].at = "write"
               /\ [me EXCEPT !.was = x, !.at = "write"].at = "write"
               /\ [me EXCEPT !.bound = x, !.at = "commit"].kind = me.kind
    BY <2>0 DEF CallRecord
  <2>6. CASE call' = [call EXCEPT ![c] = Free]
    BY <2>0, <2>4, <2>6, QuietStep
  <2>7. CASE /\ me.kind = "test"
             /\ call' = [call EXCEPT ![c] = [me EXCEPT !.seen = rows[me.p], !.at = "try"]]
    BY <2>0, <2>1, <2>4, <2>5, <2>7, QuietStep
  <2>8. CASE /\ me.kind \in {"connect", "disconnect"}
             /\ call' = [call EXCEPT ![c] = [me EXCEPT !.seen = rows[me.p], !.at = "write"]]
    BY <2>0, <2>1, <2>4, <2>5, <2>8, QuietStep
  <2>9. CASE /\ me.kind = "policy"
             /\ call' = [call EXCEPT ![c] = [me EXCEPT !.was = policy, !.at = "write"]]
    BY <2>0, <2>1, <2>4, <2>5, <2>9, QuietStep
  <2>10. CASE /\ me.kind = "bind"
              /\ call' = [call EXCEPT ![c] =
                           [me EXCEPT !.bound = binding[me.agent], !.at = "commit"]]
    BY <2>0, <2>3, <2>4, <2>5, <2>10, QuietStep
  <2> QED  BY <1>3, <2>6, <2>7, <2>8, <2>9, <2>10, GetShape
<1>4. ASSUME NEW c \in Calls, NEW good \in BOOLEAN, NEW listed \in Listings,
             Try(c, good, listed)
      PROVE  QuietInv'
  <2> DEFINE me == call[c]
  <2>0. me \in CallRecord /\ me.at = "try" /\ Reading
    BY <1>0, <1>4, TryShape
  <2>1. CASE call' = [call EXCEPT ![c] = Free]
    BY <2>0, <2>1, QuietStep DEF Free
  <2>2. ASSUME NEW row \in Row, me.kind = "connect",
               call' = [call EXCEPT ![c] = [me EXCEPT !.now = row, !.at = "get"]]
        PROVE  QuietInv'
    <3> DEFINE to == [me EXCEPT !.now = row, !.at = "get"]
    <3>1. to.at = "get" /\ Consistent(to)
      BY <2>0, <2>2 DEF CallRecord, Consistent, Loaded
    <3> HIDE DEF to
    <3> QED  BY <2>0, <2>2, <3>1, QuietStep DEF to
  <2>3. ASSUME NEW row \in AnyRow, me.kind = "test",
               call' = [call EXCEPT ![c] = [me EXCEPT !.at = "write", !.now = row]]
        PROVE  QuietInv'
    <3> DEFINE to == [me EXCEPT !.at = "write", !.now = row]
    <3>1. /\ to.at = "write" /\ to.kind = me.kind /\ to.seen = me.seen /\ to.p = me.p
          /\ to.was = me.was
      BY <2>0 DEF CallRecord
    <3>2. clean => me.seen = rows[me.p]
      BY <1>1, <2>0, <2>3 DEF Consistent, Loaded
    <3> HIDE DEF to
    <3>3. clean => Consistent(to)
      BY <2>3, <3>1, <3>2 DEF Consistent
    <3> QED  BY <2>0, <2>3, <3>1, <3>3, QuietStep DEF to
  <2> QED  BY <1>4, <2>1, <2>2, <2>3, TryShape
<1>5. ASSUME NEW c \in Calls, NEW from \in {"write", "keys", "lists", "order"}, NEW to,
             call[c].at = from, call' = [call EXCEPT ![c] = to], Reading,
             to = Free \/ (to.at \in Stages \ {"commit", "free"} /\ (clean => Consistent(to)))
      PROVE  QuietInv'
  BY <1>5, QuietStep DEF Free, Stages
<1>6. ASSUME NEW c \in Calls, Write(c) PROVE QuietInv'
  <2> DEFINE me == call[c]
             to == [me EXCEPT !.at = "keys"]
  <2>0. me \in CallRecord /\ me.at = "write" /\ Reading
    BY <1>0, <1>6 DEF Write, Stage
  <2>1. /\ to.at = "keys" /\ to.kind = me.kind /\ to.seen = me.seen /\ to.p = me.p
        /\ to.was = me.was
    BY <2>0 DEF CallRecord
  <2>2. call' = [call EXCEPT ![c] = Free] \/ call' = [call EXCEPT ![c] = to]
    BY <1>6 DEF Write, Stage
  <2> HIDE DEF to
  <2>3. clean => Consistent(to)
    BY <1>1, <2>0, <2>1 DEF Consistent, Loaded
  <2> QED  BY <1>5, <2>0, <2>1, <2>2, <2>3 DEF Stages
<1>7. ASSUME NEW c \in Calls, ReadKeys(c) PROVE QuietInv'
  <2> DEFINE me == call[c]
             k  == ViewOf(Mine(me), policy).keys
             to == [me EXCEPT !.at = "lists", !.view.keys = k]
  <2>0. me \in CallRecord /\ me.at = "keys" /\ Reading /\ call' = [call EXCEPT ![c] = to]
    BY <1>0, <1>7 DEF ReadKeys, Stage
  <2> HIDE DEF k
  <2>1. /\ to.at = "lists" /\ to.kind = me.kind /\ to.seen = me.seen /\ to.p = me.p
        /\ to.was = me.was /\ to.now = me.now /\ to.pol = me.pol /\ to.view.keys = k
    BY <2>0 DEF CallRecord, View
  <2> HIDE DEF to
  <2>2. Mine(to) = Mine(me)
    BY <2>1 DEF Mine, OwnRow
  <2>3. clean => Consistent(to)
    BY <1>1, <2>0, <2>1, <2>2 DEF Consistent, Loaded, k
  <2> QED  BY <1>5, <2>0, <2>1, <2>3 DEF Stages
<1>8. ASSUME NEW c \in Calls, ReadLists(c) PROVE QuietInv'
  <2> DEFINE me == call[c]
             k  == ViewOf(Mine(me), policy).listed
             to == [me EXCEPT !.at = "order", !.view.listed = k]
  <2>0. me \in CallRecord /\ me.at = "lists" /\ Reading /\ call' = [call EXCEPT ![c] = to]
    BY <1>0, <1>8 DEF ReadLists, Stage
  <2> HIDE DEF k
  <2>1. /\ to.at = "order" /\ to.kind = me.kind /\ to.seen = me.seen /\ to.p = me.p
        /\ to.was = me.was /\ to.now = me.now /\ to.pol = me.pol /\ to.view.listed = k
        /\ to.view.keys = me.view.keys
    BY <2>0 DEF CallRecord, View
  <2> HIDE DEF to
  <2>2. Mine(to) = Mine(me)
    BY <2>1 DEF Mine, OwnRow
  <2>3. clean => Consistent(to)
    BY <1>1, <2>0, <2>1, <2>2 DEF Consistent, Loaded, k
  <2> QED  BY <1>5, <2>0, <2>1, <2>3 DEF Stages
<1>9. ASSUME NEW c \in Calls, ReadPolicy(c) PROVE QuietInv'
  <2> DEFINE me == call[c]
             k  == IF me.kind = "policy" THEN me.pol ELSE policy
             to == [me EXCEPT !.at = "publish", !.view.policy = k]
  <2>0. me \in CallRecord /\ me.at = "order" /\ Reading /\ call' = [call EXCEPT ![c] = to]
    BY <1>0, <1>9 DEF ReadPolicy, Stage
  <2> HIDE DEF k
  <2>1. /\ to.at = "publish" /\ to.kind = me.kind /\ to.seen = me.seen /\ to.p = me.p
        /\ to.was = me.was /\ to.now = me.now /\ to.pol = me.pol /\ to.view.policy = k
        /\ to.view.keys = me.view.keys /\ to.view.listed = me.view.listed
    BY <2>0 DEF CallRecord, View
  <2> HIDE DEF to
  <2>2. Mine(to) = Mine(me)
    BY <2>1 DEF Mine, OwnRow
  <2>3. clean => Consistent(to)
    BY <1>1, <2>0, <2>1, <2>2 DEF Consistent, Loaded, PolicyAfter, k
  <2> QED  BY <1>5, <2>0, <2>1, <2>3 DEF Stages
<1>10. ASSUME NEW c \in Calls, Publish(c) PROVE QuietInv'
  <2> SUFFICES ASSUME clean' PROVE QuietInv'
    BY DEF QuietInv
  <2> DEFINE me == call[c]
  <2>t. PICK to : to = [me EXCEPT !.at = "commit"]
    OBVIOUS
  <2>0. /\ me \in CallRecord /\ Sane(me) /\ me.at = "publish" /\ call' = [call EXCEPT ![c] = to]
        /\ registry' = Build(me.view) /\ UNCHANGED stored /\ clean
    BY <1>0, <1>10, <2>t DEF Publish, Stage
  <2>1. Consistent(me)
    BY <1>1, <2>0
  <2>2. me.view = ViewOf(Mine(me), PolicyAfter(me))
    <3>1. me.view = [keys |-> me.view.keys, listed |-> me.view.listed, policy |-> me.view.policy]
      BY <2>0 DEF CallRecord, View
    <3> QED  BY <2>0, <2>1, <3>1 DEF Consistent, ViewOf
  <2>3. /\ to.at = "commit" /\ to.kind = me.kind /\ to.seen = me.seen /\ to.p = me.p
        /\ to.was = me.was /\ to.now = me.now /\ to.pol = me.pol
    BY <2>0, <2>t DEF CallRecord
  <2>4. me.kind # "bind"
    BY <2>0 DEF Sane
  <2>5. Mine(to)' = Mine(me) /\ PolicyAfter(to)' = PolicyAfter(me)
    BY <2>0, <2>3 DEF Mine, OwnRow, PolicyAfter, stored
  <2>6. Consistent(to)'
    BY <2>0, <2>1, <2>2, <2>3, <2>4, <2>5 DEF Consistent, Loaded, stored
  <2>7. \A d \in Calls : call'[d] = IF d = c THEN to ELSE call[d]
    BY <2>0 DEF TypeInv
  <2>8. UnderWay' = {c}
    BY <2>0, <2>3, <2>7 DEF UnderWay, QuietInv
  <2>9. \A d \in UnderWay' : Consistent(call[d])' /\ call'[d].at = "commit"
    BY <2>3, <2>6, <2>7, <2>8
  <2> QED  BY <2>8, <2>9 DEF QuietInv
<1>11. ASSUME NEW c \in Calls, Commit(c) PROVE QuietInv'
  <2> SUFFICES ASSUME clean' PROVE QuietInv'
    BY DEF QuietInv
  <2> DEFINE me == call[c]
  <2>0. /\ me \in CallRecord /\ Sane(me) /\ me.at = "commit"
        /\ call' = [call EXCEPT ![c] = Free] /\ UNCHANGED registry /\ clean
    BY <1>0, <1>11 DEF Commit, Stage
  <2>1. Consistent(me)
    BY <1>1, <2>0
  <2>2. \A d \in Calls : call'[d] = IF d = c THEN Free ELSE call[d]
    BY <2>0 DEF TypeInv
  <2>3. UnderWay' = {}
    BY <2>0, <2>2 DEF UnderWay, QuietInv, Free
  <2>4. rows' = Mine(me)
    <3>1. CASE ~OwnRow(me)
      BY <1>11, <3>1 DEF Commit, Mine
    <3>2. CASE OwnRow(me) /\ (me.kind = "disconnect" \/ me.seen = NoRow)
      BY <1>11, <3>2 DEF Commit, Mine
    <3>3. CASE OwnRow(me) /\ me.kind # "disconnect" /\ me.seen # NoRow
      <4>1. rows' = [rows EXCEPT ![me.p] = Merged(rows[me.p], me.seen, me.now)]
        BY <1>11, <3>3 DEF Commit
      <4>2. me.seen = rows[me.p]
        BY <2>0, <2>1, <3>3 DEF Consistent, Loaded, OwnRow
      <4>3. me.seen \in AnyRow /\ me.now \in AnyRow
        BY <2>0 DEF CallRecord
      <4>4. Merged(rows[me.p], me.seen, me.now) = me.now
        BY <4>2, <4>3, MergedRow
      <4> QED  BY <3>3, <4>1, <4>4 DEF Mine
    <3> QED  BY <3>1, <3>2, <3>3
  <2>5. policy' = PolicyAfter(me)
    <3>1. CASE me.kind = "policy"
      <4>1. policy' = Merged(policy, me.was, me.pol) /\ me.was = policy
        BY <1>11, <2>0, <2>1, <3>1 DEF Commit, Consistent, Loaded
      <4>2. me.pol \in Policy
        BY <2>0 DEF CallRecord
      <4>3. Merged(policy, policy, me.pol) = me.pol
        BY <1>0, <4>2, MergedPolicy
      <4> QED  BY <3>1, <4>1, <4>3 DEF PolicyAfter
    <3>2. CASE me.kind # "policy"
      BY <1>11, <3>2 DEF Commit, PolicyAfter
    <3> QED  BY <3>1, <3>2
  <2>6. registry = Build(ViewOf(Mine(me), PolicyAfter(me)))
    <3>1. CASE me.kind = "bind"
      BY <2>0, <2>1, <3>1 DEF Consistent, Mine, OwnRow, PolicyAfter
    <3>2. CASE me.kind # "bind"
      BY <2>0, <2>1, <3>2 DEF Consistent
    <3> QED  BY <3>1, <3>2
  <2>7. registry' = Build(ViewOf(rows', policy'))
    BY <2>0, <2>4, <2>5, <2>6
  <2> QED  BY <2>3, <2>7 DEF QuietInv, Build, ViewOf, Usable, KeyFor
<1>12. ASSUME NEW c \in Calls, CommitFails(c) PROVE QuietInv'
  BY <1>12 DEF CommitFails, QuietInv
<1>13. ASSUME NEW readable \in BOOLEAN, Restart(readable) PROVE QuietInv'
  <2> SUFFICES ASSUME clean' PROVE QuietInv'
    BY DEF QuietInv
  <2>1. /\ call' = [c \in Calls |-> Free] /\ UNCHANGED stored
        /\ registry' = Build(ViewOf(rows, policy))
    BY <1>13 DEF Restart
  <2>2. UnderWay' = {}
    BY <2>1 DEF UnderWay, Free
  <2>3. rows' = rows /\ policy' = policy
    BY <2>1 DEF stored
  <2> QED  BY <2>1, <2>2, <2>3 DEF QuietInv
<1>14. CASE UNCHANGED vars
  BY <1>14 DEF vars, stored, QuietInv, UnderWay, Consistent, Loaded, Mine, OwnRow, PolicyAfter
<1> QED  BY <1>2, <1>3, <1>4, <1>6, <1>7, <1>8, <1>9, <1>10, <1>11, <1>12, <1>13, <1>14
         DEF Next, Begins

-----------------------------------------------------------------------------
(* The results.                                                              *)

LEMMA Invariant == Spec => []IInv
<1>1. Init => IInv
  BY InitType, InitLock, InitQuiet DEF IInv
<1>2. IInv /\ [Next]_vars => IInv'
  BY NextType, NextLock, NextQuiet DEF IInv
<1> QED  BY <1>1, <1>2, PTL DEF Spec

(* However many settings calls overlap, fail or are cut short: no row is     *)
(* left half written and the registry never offers a model without a key.    *)
THEOREM ProviderTypeCorrect == Spec => []ProviderTypeOK
<1>1. IInv => ProviderTypeOK
  <2> SUFFICES ASSUME TypeInv PROVE ProviderTypeOK
    BY DEF IInv
  <2>1. \A c \in Calls : /\ call[c].at \in Stages /\ call[c].kind \in Kinds
                         /\ {call[c].seen, call[c].now} \subseteq Row \cup {NoRow}
    BY DEF TypeInv, CallRecord, AnyRow
  <2> QED  BY <2>1 DEF TypeInv, RegistryOK, ProviderTypeOK, AnyRow
<1> QED  BY <1>1, Invariant, PTL

(* Every settings call replaces the registry before it commits, from what    *)
(* its own session sees; once it has ended, the registry is what a fresh     *)
(* start would build.                                                        *)
THEOREM RegistryStaysCurrent == Spec => []RegistryCurrent
<1>1. IInv => RegistryCurrent
  BY DEF IInv, QuietInv, RegistryCurrent
<1> QED  BY <1>1, Invariant, PTL

-----------------------------------------------------------------------------
(* Routing.                                                                  *)

LEMMA LeastNumber ==
  ASSUME NEW S \in SUBSET Nat, S # {}
  PROVE  \E m \in S : \A k \in S : m <= k
<1>1. PICK m \in S : \A k \in S : ~ (<<k, m>> \in OpToRel(<, Nat))
  BY NatLessThanWellFounded, WFMin, Zenon
<1>2. \A k \in S : ~ (k < m)
  BY <1>1 DEF OpToRel
<1>3. \A k \in S : m <= k
  BY <1>2
<1> QED  BY <1>3

(* Of things scored by six numbers, the last of which tells them apart, one  *)
(* comes before all others.                                                  *)
LEMMA FirstByScore ==
  ASSUME NEW S, S # {}, NEW f, \A m \in S : \A i \in 1 .. 6 : f[m][i] \in Nat,
         \A m, n \in S : f[m][6] = f[n][6] => m = n
  PROVE  \E m \in S : \A n \in S \ {m} : Less(f[m], f[n])
<1> DEFINE L(T, i) == {m \in T : \A n \in T : f[m][i] <= f[n][i]}
<1>1. ASSUME NEW T \in SUBSET S, T # {}, NEW i \in 1 .. 6 PROVE L(T, i) # {} /\ L(T, i) \subseteq S
  <2> DEFINE N == {f[m][i] : m \in T}
  <2>1. N \in SUBSET Nat /\ N # {}
    BY <1>1
  <2> HIDE DEF N
  <2>2. PICK k \in N : \A n \in N : k <= n
    BY <2>1, LeastNumber
  <2>3. PICK m \in T : k = f[m][i]
    BY DEF N
  <2>4. m \in L(T, i)
    BY <2>2, <2>3 DEF N
  <2> QED  BY <2>4
<1> DEFINE S1 == L(S, 1)  S2 == L(S1, 2)  S3 == L(S2, 3)
           S4 == L(S3, 4)  S5 == L(S4, 5)  S6 == L(S5, 6)
<1>2. /\ S1 # {} /\ S1 \subseteq S /\ S2 # {} /\ S2 \subseteq S
      /\ S3 # {} /\ S3 \subseteq S
  <2> HIDE DEF L
  <2> QED  BY <1>1
<1>3. /\ S4 # {} /\ S4 \subseteq S /\ S5 # {} /\ S5 \subseteq S
      /\ S6 # {} /\ S6 \subseteq S
  <2>1. S3 \in SUBSET S /\ S3 # {}
    BY <1>2
  <2> HIDE DEF L, S3
  <2> QED  BY <1>1, <2>1
<1>4. PICK m \in S6 : m \in S
  BY <1>3
<1>5. m \in S5 /\ m \in S4 /\ m \in S3 /\ m \in S2 /\ m \in S1
  OBVIOUS
<1>6. ASSUME NEW T \in SUBSET S, NEW i \in 1 .. 6, m \in L(T, i), NEW n \in T
      PROVE  f[m][i] < f[n][i] \/ (f[m][i] = f[n][i] /\ n \in L(T, i))
  <2>1. \A k \in T : f[m][i] <= f[k][i]
    BY <1>6
  <2>2. f[m][i] \in Nat /\ f[n][i] \in Nat
    BY <1>4, <1>6
  <2>3. CASE f[m][i] = f[n][i]
    BY <2>1, <2>3
  <2>4. CASE f[m][i] # f[n][i]
    BY <2>1, <2>2, <2>4
  <2> QED  BY <2>3, <2>4
<1>7. ASSUME NEW n \in S \ {m} PROVE Less(f[m], f[n])
  <2> HIDE DEF L
  <2>1. f[m][1] < f[n][1] \/ (f[m][1] = f[n][1] /\ n \in S1)
    BY <1>4, <1>5, <1>6
  <2>2. n \in S1 => f[m][2] < f[n][2] \/ (f[m][2] = f[n][2] /\ n \in S2)
    BY <1>2, <1>5, <1>6
  <2>3. n \in S2 => f[m][3] < f[n][3] \/ (f[m][3] = f[n][3] /\ n \in S3)
    BY <1>2, <1>5, <1>6
  <2>4. n \in S3 => f[m][4] < f[n][4] \/ (f[m][4] = f[n][4] /\ n \in S4)
    BY <1>2, <1>5, <1>6
  <2>5. n \in S4 => f[m][5] < f[n][5] \/ (f[m][5] = f[n][5] /\ n \in S5)
    BY <1>3, <1>5, <1>6
  <2>6. n \in S5 => f[m][6] < f[n][6] \/ f[m][6] = f[n][6]
    BY <1>3, <1>4, <1>6
  <2>7. f[m][6] # f[n][6]
    BY <1>4
  <2>8. \A i \in 1 .. 6 : (f[m][i] < f[n][i] /\ \A j \in 1 .. i - 1 : f[m][j] = f[n][j])
                            => Less(f[m], f[n])
    BY DEF Less
  <2> HIDE DEF S1, S2, S3, S4, S5, S6
  <2>9. \/ f[m][1] < f[n][1]
        \/ f[m][1] = f[n][1] /\ f[m][2] < f[n][2]
        \/ f[m][1] = f[n][1] /\ f[m][2] = f[n][2] /\ f[m][3] < f[n][3]
        \/ f[m][1] = f[n][1] /\ f[m][2] = f[n][2] /\ f[m][3] = f[n][3] /\ f[m][4] < f[n][4]
        \/ /\ f[m][1] = f[n][1] /\ f[m][2] = f[n][2] /\ f[m][3] = f[n][3]
           /\ f[m][4] = f[n][4] /\ f[m][5] < f[n][5]
        \/ /\ f[m][1] = f[n][1] /\ f[m][2] = f[n][2] /\ f[m][3] = f[n][3]
           /\ f[m][4] = f[n][4] /\ f[m][5] = f[n][5] /\ f[m][6] < f[n][6]
    BY <2>1, <2>2, <2>3, <2>4, <2>5, <2>6, <2>7
  <2> QED  BY <2>8, <2>9
<1> QED  BY <1>4, <1>7

LEMMA VendorIs ==
  ASSUME NEW m \in Models
  PROVE  /\ VendorOf(m) \in Vendors /\ m \in Catalogue[VendorOf(m)]
         /\ \A v \in Vendors : m \in Catalogue[v] => v = VendorOf(m)
<1>1. \E v \in Vendors : m \in Catalogue[v]
  BY ProviderAssumption
<1>2. VendorOf(m) \in Vendors /\ m \in Catalogue[VendorOf(m)]
  BY <1>1 DEF VendorOf
<1>3. \A v \in Vendors : m \in Catalogue[v] => v = VendorOf(m)
  BY <1>2, ProviderAssumption
<1> QED  BY <1>2, <1>3

LEMMA ScoreType ==
  ASSUME NEW r, r.policy \in Policy, NEW a \in Agents, NEW pin, NEW m \in Models
  PROVE  /\ \A i \in 1 .. 6 : Score(r, a, pin, m)[i] \in Nat
         /\ Score(r, a, pin, m)[1] = r.policy.rank[VendorOf(m)]
         /\ Score(r, a, pin, m)[6] = ModelSpec[m].order
<1> DEFINE s == Score(r, a, pin, m)
<1>1. s[1] = r.policy.rank[VendorOf(m)] /\ s[1] \in Nat
  BY VendorIs DEF Score, Policy
<1>2. s[2] \in Nat
  BY DEF Score
<1>3. s[3] \in Nat
  <2>1. IsFiniteSet(Wants[a].preferred \ ModelSpec[m].traits)
    BY RoutingAssumption, FS_Difference
  <2> QED  BY <2>1, FS_CardinalityType DEF Score
<1>4. s[4] \in Nat /\ s[5] \in Nat /\ s[6] \in Nat /\ s[6] = ModelSpec[m].order
  BY RoutingAssumption DEF Score
<1>5. \A i \in 1 .. 6 : i = 1 \/ i = 2 \/ i = 3 \/ i = 4 \/ i = 5 \/ i = 6
  OBVIOUS
<1> HIDE DEF s
<1>6. \A i \in 1 .. 6 : s[i] \in Nat
  BY <1>1, <1>2, <1>3, <1>4, <1>5
<1> QED  BY <1>1, <1>4, <1>6 DEF s

(* The best of some models is one of them, and of no later vendor than any.  *)
LEMMA BestIs ==
  ASSUME NEW r, r.policy \in Policy, NEW a \in Agents, NEW pin,
         NEW S \in SUBSET Models, S # {}
  PROVE  /\ Best(r, a, pin, S) \in S
         /\ \A n \in S : r.policy.rank[VendorOf(Best(r, a, pin, S))]
                           <= r.policy.rank[VendorOf(n)]
<1> DEFINE f == [m \in Models |-> Score(r, a, pin, m)]
           b == Best(r, a, pin, S)
<1>1. \A m \in S : f[m] = Score(r, a, pin, m)
  OBVIOUS
<1>2. \A m \in S : \A i \in 1 .. 6 : f[m][i] \in Nat
  BY <1>1, ScoreType
<1>3. \A m, n \in S : f[m][6] = f[n][6] => m = n
  BY <1>1, ScoreType, RoutingAssumption
<1> HIDE DEF f
<1>4. \E m \in S : \A n \in S \ {m} : Less(f[m], f[n])
  BY <1>2, <1>3, FirstByScore
<1>5. \E m \in S : \A n \in S \ {m} : Less(Score(r, a, pin, m), Score(r, a, pin, n))
  BY <1>1, <1>4
<1>6. b \in S /\ \A n \in S \ {b} : Less(Score(r, a, pin, b), Score(r, a, pin, n))
  BY <1>5 DEF Best
<1> HIDE DEF b
<1>7. ASSUME NEW n \in S
      PROVE  r.policy.rank[VendorOf(b)] <= r.policy.rank[VendorOf(n)]
  <2> DEFINE s == Score(r, a, pin, b)
             t == Score(r, a, pin, n)
  <2>1. /\ s[1] \in Nat /\ s[1] = r.policy.rank[VendorOf(b)]
        /\ t[1] \in Nat /\ t[1] = r.policy.rank[VendorOf(n)]
    BY <1>6, ScoreType
  <2> HIDE DEF s, t
  <2>2. CASE n = b
    BY <2>1, <2>2
  <2>3. CASE n # b
    <3>1. Less(s, t)
      BY <1>6, <2>3 DEF s, t
    <3>2. s[1] < t[1] \/ s[1] = t[1]
      BY <3>1 DEF Less
    <3> QED  BY <2>1, <3>2
  <2> QED  BY <2>2, <2>3
<1> QED  BY <1>6, <1>7 DEF b

(* What the registry built from rows and policy offers.                      *)
LEMMA OfferedIs ==
  ASSUME TypeInv, registry = Build(ViewOf(rows, policy))
  PROVE  LET keyed == {n \in Models \ Catalogue[DemoVendor] :
                        LET p == VendorOf(n)
                        IN /\ rows[p] # NoRow \/ p \in EnvKeyed
                           /\ rows[p].listed = {} \/ n \in rows[p].listed}
         IN Offered(registry) = IF keyed = {} /\ ~Production THEN Catalogue[DemoVendor]
                                ELSE keyed
<1> DEFINE v == ViewOf(rows, policy)
           live == {p \in Providers : Usable(v, p) # {}}
           Keyed(n) == LET p == VendorOf(n)
                       IN /\ rows[p] # NoRow \/ p \in EnvKeyed
                          /\ rows[p].listed = {} \/ n \in rows[p].listed
           keyed == {n \in Models \ Catalogue[DemoVendor] : Keyed(n)}
<1>0. /\ rows \in [Providers -> AnyRow] /\ Vendors = Providers \cup {DemoVendor}
      /\ DemoVendor \notin Providers /\ NoKey \notin Keys \cup {EnvKey}
  BY ProviderAssumption DEF TypeInv, Vendors
<1>1. ASSUME NEW p \in Providers
      PROVE  Usable(v, p) = IF rows[p] = NoRow /\ p \notin EnvKeyed THEN {}
                            ELSE {n \in Catalogue[p] : rows[p].listed = {} \/ n \in rows[p].listed}
  <2>1. v.keys[p] = rows[p].key /\ v.listed[p] = rows[p].listed
    BY DEF ViewOf
  <2>2. rows[p] = NoRow <=> rows[p].key = NoKey
    BY <1>0 DEF AnyRow, Row, NoRow
  <2>3. KeyFor(v.keys, p) = NoKey <=> (rows[p] = NoRow /\ p \notin EnvKeyed)
    BY <1>0, <2>1, <2>2 DEF KeyFor
  <2> HIDE DEF v
  <2> QED  BY <2>1, <2>3 DEF Usable
<1>2. ASSUME NEW n \in Models \ Catalogue[DemoVendor], NEW p \in Providers, n \in Catalogue[p]
      PROVE  n \in Usable(v, p) <=> Keyed(n)
  <2>1. p = VendorOf(n)
    BY <1>0, <1>2, VendorIs
  <2> HIDE DEF v
  <2> QED  BY <1>1, <1>2, <2>1
<1>3. ASSUME NEW p \in Providers PROVE Catalogue[p] \subseteq Models \ Catalogue[DemoVendor]
  BY <1>0, <1>3, ProviderAssumption
<1>4. ASSUME NEW n \in Models \ Catalogue[DemoVendor]
      PROVE  \E p \in Providers : n \in Catalogue[p]
  BY <1>0, VendorIs
<1>5. \A p \in Providers : Usable(v, p) \subseteq Catalogue[p]
  BY DEF Usable
<1> HIDE DEF v, Keyed
<1>6. UNION {Usable(v, p) : p \in Providers} = keyed
  BY <1>2, <1>3, <1>4, <1>5
<1>7. live = {} <=> keyed = {}
  BY <1>6
<1>8. /\ \A p \in Providers : registry.models[p] = Usable(v, p)
      /\ registry.models[DemoVendor] = IF live = {} /\ ~Production THEN Catalogue[DemoVendor]
                                       ELSE {}
  BY <1>0 DEF Build, v
<1> DEFINE usable == UNION {Usable(v, p) : p \in Providers}
<1>9. \A n : n \in Offered(registry) <=> n \in usable \/ n \in registry.models[DemoVendor]
  <2>1. \A n : n \in Offered(registry) <=>
              (\E p \in Providers : n \in registry.models[p]) \/ n \in registry.models[DemoVendor]
    BY <1>0 DEF Offered
  <2>2. \A n : n \in usable <=> \E p \in Providers : n \in registry.models[p]
    BY <1>8
  <2> HIDE DEF usable
  <2> QED  BY <2>1, <2>2
<1>10. Offered(registry) = IF keyed = {} /\ ~Production THEN Catalogue[DemoVendor] ELSE keyed
  <2>1. usable = keyed
    BY <1>6
  <2> HIDE DEF keyed, live, usable
  <2>2. CASE keyed = {} /\ ~Production
    BY <1>7, <1>8, <1>9, <2>1, <2>2
  <2>3. CASE ~(keyed = {} /\ ~Production)
    BY <1>7, <1>8, <1>9, <2>1, <2>3
  <2> QED  BY <2>2, <2>3
<1> QED  BY <1>10 DEF keyed, Keyed

(* A run picks its model by the registry; while nothing is unsettled that is *)
(* a model of a vendor with a key, the pinned one if there is one, and else  *)
(* one that fits the agent and comes as early as any that fits.              *)
THEOREM RoutedSoundlyAlways == Spec => []RoutedSoundly
<1>1. IInv => RoutedSoundly
  <2> SUFFICES ASSUME IInv, clean, UnderWay = {}, NEW a \in Agents
               PROVE  Sound(a, binding[a], Choice(registry, a, binding[a]))
    BY DEF RoutedSoundly
  <2> DEFINE pin == binding[a]
             have == Offered(registry)
             all == Eligible(registry, a, pin)
             m == Choice(registry, a, pin)
             fits(n) == /\ n \notin policy.blocked
                        /\ Wants[a].required \subseteq ModelSpec[n].traits
                        /\ Wants[a].context <= ModelSpec[n].context
  <2>1. TypeInv /\ registry = Build(ViewOf(rows, policy))
    BY DEF IInv, QuietInv
  <2>2. registry.policy = policy /\ policy \in Policy
    BY <2>1 DEF Build, ViewOf, TypeInv
  <2>3. have \subseteq Models /\ NoModel \notin have
    BY <2>1, ProviderAssumption DEF TypeInv, RegistryOK, Offered, Vendors
  <2>4. \A n \in have \ {pin} : n \in all <=> fits(n)
    BY <2>2, <2>3, RoutingAssumption DEF Eligible
  <2>5. \A n \in have : fits(n) => n \in all
    BY <2>2, <2>3, RoutingAssumption DEF Eligible
  <2>6. all \subseteq have /\ all \in SUBSET Models
    BY <2>3 DEF Eligible
  <2>7. pin \in have => m = pin
    BY DEF Choice
  <2>8. pin \notin have /\ all = {} => m = NoModel
    BY DEF Choice
  <2>9. pin \notin have /\ all # {} =>
          m \in all /\ \A n \in all : policy.rank[VendorOf(m)] <= policy.rank[VendorOf(n)]
    <3> HIDE DEF all, have
    <3>1. pin \notin have /\ all # {} => m = Best(registry, a, pin, all)
      BY DEF Choice, all, have
    <3> HIDE DEF m
    <3> QED  BY <2>2, <2>6, <3>1, BestIs
  <2> HIDE DEF pin, have, all, m, fits
  <2>10. /\ m \in have \/ (m = NoModel /\ \A n \in have : ~fits(n))
         /\ pin \in have => m = pin
         /\ m \in have \ {pin} =>
              /\ fits(m)
              /\ \A n \in have : fits(n) =>
                   policy.rank[VendorOf(m)] <= policy.rank[VendorOf(n)]
    BY <2>3, <2>4, <2>5, <2>6, <2>7, <2>8, <2>9
  <2> QED  BY <2>1, <2>10, OfferedIs DEF Sound, pin, have, m, fits
<1> QED  BY <1>1, Invariant, PTL
=============================================================================
