-------------------------- MODULE CatalogueProofs --------------------------
(***************************************************************************)
(* Of any agents, schemas and changes, and any number of overlapping calls *)
(* and starts: no agent is half there, no two have one name, every result  *)
(* fits its agent's table, and nothing but a PATCH enables or disables.    *)
(***************************************************************************)
EXTENDS AgentCatalogue, TLAPS

Want == Enrollments \cup Patches \cup Models \cup {AnyModel, NoChange}
AnyRecord == Record \cup {NoRecord}
CallRecord ==
  [at : Stages, kind : Kinds, id : Ids \cup {NoId}, want : Want, seen : AnyRecord,
   had : SUBSET Capabilities, new : AnyRecord, give : SUBSET Capabilities,
   deleted : SUBSET Capabilities]

Late(me) == me.at \notin {"free", "read"}

(* What a call of each kind holds at each stage.                             *)
Sane(me) ==
  /\ me.at # "free" =>
       /\ me.id \in Ids
       /\ me.kind = "enroll" => me.id \in FreshIds /\ me.want \in Enrollments
       /\ me.kind = "patch"  => me.want \in Patches
       /\ me.kind = "bind"   => me.want \in Models \cup {AnyModel}
  /\ Late(me) =>
       /\ me.new \in Record /\ (me.seen = NoRecord) = (me.kind = "enroll")
       /\ me.kind = "bind" => /\ me.at \in {"write", "commit"}
                              /\ me.new.name = me.seen.name
                              /\ me.new.schema = me.seen.schema
                              /\ me.new.enabled = me.seen.enabled
       /\ me.kind # "bind" => me.give # {}
       /\ me.kind = "patch" => /\ me.new.enabled \in {me.seen.enabled, me.want.enabled}
                               /\ me.at # "commit" => me.new.enabled = me.seen.enabled

(* What a call may rely on of what is committed: who enrolls, the agent      *)
(* being there, the name being free, the table taking the schema.            *)
Owner(me) ==
  /\ me.at # "free" /\ me.kind = "enroll" => agents[me.id] = NoRecord
  /\ Late(me) /\ me.kind # "enroll" =>
       /\ agents[me.id] # NoRecord
       /\ me.id \in FreshIds => me.seen.schema \in schemas[me.id]
  /\ Wrote(me) /\ Renamed(me) => ~Taken(me.new.name, me.id)
  /\ me.at \in {"enable", "commit"} /\ me.kind # "bind" /\ me.id \in FreshIds =>
       ~Retyped(tables[me.id], me.new.schema)

(* What locks keep apart: two enrollments, writers of one row, and writers   *)
(* of one name.                                                              *)
Apart(x, y) ==
  /\ x.at # "free" /\ y.at # "free" /\ x.kind = "enroll" /\ y.kind = "enroll" => x.id # y.id
  /\ Wrote(x) /\ Wrote(y) => x.id # y.id
  /\ Wrote(x) /\ Wrote(y) /\ Renamed(x) /\ Renamed(y) => Lower[x.new.name] # Lower[y.new.name]

TypeInv ==
  /\ agents \in [Ids -> AnyRecord] /\ caps \in [Ids -> SUBSET Capabilities]
  /\ tables \in [Ids -> Schema \cup {NoTable}] /\ schemas \in [Ids -> SUBSET Schema]
  /\ call \in [Calls -> CallRecord]

(* What is committed of one agent.                                           *)
Whole(a) ==
  /\ (agents[a] = NoRecord) = (caps[a] = {})
  /\ (agents[a] = NoRecord) = (tables[a] = NoTable)
  /\ agents[a] # NoRecord =>
       \A p \in Props : agents[a].schema[p] # NoType => tables[a][p] # NoType
  /\ a \in FreshIds =>
       /\ agents[a] = NoRecord => schemas[a] = {}
       /\ agents[a] # NoRecord => agents[a].schema \in schemas[a]
       /\ \A s \in schemas[a] : \A p \in Props : s[p] # NoType => tables[a][p] = s[p]

NamesApart == \A a \in Ids : agents[a] # NoRecord => ~Taken(agents[a].name, a)

CallInv ==
  /\ \A c \in Calls : Sane(call[c]) /\ Owner(call[c])
  /\ \A c, d \in Calls : c # d => Apart(call[c], call[d])

IInv == TypeInv /\ (\A a \in Ids : Whole(a)) /\ NamesApart /\ CallInv

-----------------------------------------------------------------------------
(* Data.                                                                     *)

LEMMA Distinct ==
  /\ NoRecord \notin Record /\ NoTable \notin Schema
  /\ Idle \in CallRecord /\ Sane(Idle) /\ Owner(Idle)
  /\ \A x : Apart(Idle, x) /\ Apart(x, Idle)
<1>1. NoRecord \notin Record
  BY CatalogueAssumption DEF NoRecord, Record
<1>2. NoTable \notin Schema
  BY CatalogueAssumption DEF NoTable, Schema
<1>3. Idle \in CallRecord
  BY DEF Idle, CallRecord, Stages, Kinds, Want, AnyRecord
<1>4. Idle.at = "free"
  BY DEF Idle
<1> QED  BY <1>1, <1>2, <1>3, <1>4 DEF Sane, Owner, Apart, Late, Wrote

LEMMA WidenedType ==
  ASSUME NEW t \in Schema \cup {NoTable}, NEW s \in Schema
  PROVE  /\ Widened(t, s) \in Schema
         /\ \A p \in Props : /\ s[p] # NoType => Widened(t, s)[p] # NoType
                             /\ t # NoTable /\ t[p] # NoType => Widened(t, s)[p] = t[p]
                             /\ ~Retyped(t, s) /\ s[p] # NoType => Widened(t, s)[p] = s[p]
<1>1. ASSUME NEW p \in Props, t # NoTable PROVE t[p] \in Types \cup {NoType}
  BY <1>1 DEF Schema
<1>2. Widened(t, s) \in Schema
  BY <1>1 DEF Widened, Schema
<1>3. ASSUME NEW p \in Props
      PROVE  Widened(t, s)[p] = IF t = NoTable THEN s[p] ELSE IF t[p] = NoType THEN s[p] ELSE t[p]
  BY DEF Widened
<1> HIDE DEF Widened
<1> QED  BY <1>2, <1>3 DEF Retyped

(* A call goes on; nothing is committed.                                     *)
LEMMA CallStep ==
  ASSUME IInv, UNCHANGED stored, NEW c \in Calls, NEW to \in CallRecord,
         call' = [call EXCEPT ![c] = to],
         Sane(to), Owner(to), \A d \in Calls \ {c} : Apart(to, call[d]) /\ Apart(call[d], to)
  PROVE  IInv'
<1>1. \A d \in Calls : call'[d] = IF d = c THEN to ELSE call[d]
  BY DEF IInv, TypeInv
<1>2. TypeInv' /\ NamesApart' /\ \A a \in Ids : Whole(a)'
  BY DEF IInv, TypeInv, NamesApart, Whole, Taken, stored
<1>3. \A d \in Calls : Sane(call'[d]) /\ Owner(call'[d])
  BY <1>1 DEF IInv, CallInv
<1>4. \A d, e \in Calls : d # e => Apart(call'[d], call'[e])
  BY <1>1 DEF IInv, CallInv
<1>5. \A d \in Calls : Owner(call[d])'
  BY <1>3 DEF Owner, Taken, stored, Late, Wrote, Renamed, Retyped
<1>6. CallInv'
  BY <1>3, <1>4, <1>5 DEF CallInv, Sane, Apart, Late, Wrote, Renamed
<1> QED  BY <1>2, <1>6 DEF IInv

LEMMA CallEnds ==
  ASSUME IInv, UNCHANGED stored, NEW c \in Calls, call' = [call EXCEPT ![c] = Idle]
  PROVE  IInv'
  BY CallStep, Distinct

-----------------------------------------------------------------------------
(* Each step of a call.                                                      *)

LEMMA InitInv == Init => IInv
<1> SUFFICES ASSUME Init PROVE IInv
  OBVIOUS
<1>1. TypeInv
  BY Distinct DEF Init, TypeInv, AnyRecord
<1>2. \A a \in Ids : Whole(a)
  BY DEF Init, Whole
<1>3. NamesApart
  BY DEF Init, NamesApart
<1>4. CallInv
  BY Distinct DEF Init, CallInv
<1> QED  BY <1>1, <1>2, <1>3, <1>4 DEF IInv

(* A call begins: an enrollment's id is nobody else's.                       *)
LEMMA Begun ==
  ASSUME IInv, NEW c \in Calls, NEW kind \in Kinds, NEW id \in Ids, NEW want \in Want,
         Begin(c, kind, id, want),
         kind = "enroll" => /\ id \in FreshIds /\ want \in Enrollments
                            /\ agents[id] = NoRecord /\ \A d \in Calls : call[d].id # id,
         kind = "patch" => want \in Patches,
         kind = "bind" => want \in Models \cup {AnyModel}
  PROVE  IInv'
<1>1. PICK to : to = [Idle EXCEPT !.at = "read", !.kind = kind, !.id = id, !.want = want]
  OBVIOUS
<1>2. to \in CallRecord
  BY <1>1 DEF CallRecord, Stages, AnyRecord, Idle
<1>3. to.at = "read" /\ to.kind = kind /\ to.id = id /\ to.want = want
  BY <1>1 DEF Idle
<1>5. call' = [call EXCEPT ![c] = to] /\ UNCHANGED stored
  BY <1>1 DEF Begin
<1>6. Sane(to) /\ Owner(to)
  BY <1>3 DEF Sane, Owner, Late, Wrote
<1>7. \A d \in Calls \ {c} : Apart(to, call[d]) /\ Apart(call[d], to)
  BY <1>3 DEF Apart, Wrote
<1> QED  BY <1>2, <1>5, <1>6, <1>7, CallStep

LEMMA Starts == ASSUME IInv, NEW c \in Calls, Enroll(c) \/ Patch(c) \/ Bind(c) PROVE IInv'
<1>1. CASE Enroll(c)
  <2>1. PICK e \in Enrollments, id \in FreshIds :
          /\ agents[id] = NoRecord /\ \A d \in Calls : call[d].id # id
          /\ Begin(c, "enroll", id, e)
    BY <1>1 DEF Enroll
  <2>2. "enroll" \in Kinds /\ id \in Ids /\ e \in Want
    BY DEF Kinds, Ids, Want
  <2> QED  BY <2>1, <2>2, Begun
<1>2. CASE Patch(c)
  <2>1. PICK p \in Patches, id \in Ids :
          Begin(c, "patch", id, p)
    BY <1>2 DEF Patch
  <2>2. "patch" \in Kinds /\ p \in Want
    BY DEF Kinds, Want
  <2> QED  BY <2>1, <2>2, Begun
<1>3. CASE Bind(c)
  <2>1. PICK m \in Models \cup {AnyModel}, id \in Ids :
          Begin(c, "bind", id, m)
    BY <1>3 DEF Bind
  <2>2. "bind" \in Kinds /\ m \in Want
    BY DEF Kinds, Want
  <2> QED  BY <2>1, <2>2, Begun
<1> QED  BY <1>1, <1>2, <1>3

(* What a call that is not refused goes on with.                             *)
LEMMA NewAgent ==
  /\ \A e \in Enrollments : Enrolled(e) \in Record /\ e.caps # {} /\ e.caps \subseteq Capabilities
  /\ \A p \in Patches, have \in (SUBSET Capabilities) \ {{}} :
       Given(p.caps, have) \in (SUBSET Capabilities) \ {{}}
  /\ \A old \in Record :
       /\ \A p \in Patches : Patched(old, p) \in Record /\ Patched(old, p).enabled = old.enabled
       /\ \A m \in Models \cup {AnyModel} :
            /\ Bound(old, m) \in Record /\ Bound(old, m).name = old.name
            /\ Bound(old, m).schema = old.schema /\ Bound(old, m).enabled = old.enabled
<1>1. ASSUME NEW e \in Enrollments 
      PROVE  e.name \in Names /\ e.caps \in (SUBSET Capabilities) \ {{}} /\ e.schema \in Schema
  BY CatalogueAssumption
<1>2. ASSUME NEW e \in Enrollments PROVE Enrolled(e) \in Record
  BY <1>1 DEF Enrolled, Record
<1>3. ASSUME NEW p \in Patches
      PROVE  /\ p.name \in Names \cup {NoChange} /\ p.schema \in Schema \cup {NoChange}
             /\ p.caps \in ((SUBSET Capabilities) \ {{}}) \cup {NoChange}
  <2>1. p \in Change
    BY CatalogueAssumption
  <2> QED  BY <2>1 DEF Change
<1>4. ASSUME NEW old \in Record, NEW p \in Patches
      PROVE  Patched(old, p) \in Record /\ Patched(old, p).enabled = old.enabled
  BY <1>3 DEF Patched, Given, Record
<1>5. ASSUME NEW old \in Record, NEW m \in Models \cup {AnyModel}
      PROVE  /\ Bound(old, m) \in Record /\ Bound(old, m).name = old.name
             /\ Bound(old, m).schema = old.schema /\ Bound(old, m).enabled = old.enabled
  BY DEF Bound, Record
<1> QED  BY <1>1, <1>2, <1>3, <1>4, <1>5 DEF Given

LEMMA CallType == ASSUME TypeInv, NEW c \in Calls
  PROVE  /\ call[c] \in CallRecord
         /\ \A x \in CallRecord, at \in Stages :
              /\ [x EXCEPT !.at = at] \in CallRecord
              /\ \A old \in AnyRecord, had \in SUBSET Capabilities, new \in Record,
                    give \in SUBSET Capabilities :
                   [x EXCEPT !.at = at, !.seen = old, !.had = had, !.new = new, !.give = give]
                     \in CallRecord
<1>1. call[c] \in CallRecord
  BY DEF TypeInv
<1>2. ASSUME NEW x \in CallRecord, NEW at \in Stages PROVE [x EXCEPT !.at = at] \in CallRecord
  BY DEF CallRecord
<1>3. ASSUME NEW x \in CallRecord, NEW at \in Stages, NEW old \in AnyRecord,
             NEW had \in SUBSET Capabilities, NEW new \in Record, NEW give \in SUBSET Capabilities
      PROVE  [x EXCEPT !.at = at, !.seen = old, !.had = had, !.new = new, !.give = give] \in CallRecord
  BY DEF CallRecord, AnyRecord
<1> QED  BY <1>1, <1>2, <1>3

(* What a call loads agrees with what it is: an enrollment finds no agent,   *)
(* the others go on with one that is there.                                  *)
LEMMA Loads ==
  ASSUME IInv, NEW c \in Calls, call[c].at = "read", UNCHANGED stored,
         NEW new \in Record, NEW give \in SUBSET Capabilities,
         (agents[call[c].id] = NoRecord) = (call[c].kind = "enroll"),
         call[c].kind # "bind" => give # {},
         call[c].kind = "patch" => new.enabled = agents[call[c].id].enabled,
         call[c].kind = "bind" => /\ new.name = agents[call[c].id].name
                                  /\ new.schema = agents[call[c].id].schema
                                  /\ new.enabled = agents[call[c].id].enabled,
         call' = [call EXCEPT ![c] = [call[c] EXCEPT !.at = "write", !.seen = agents[call[c].id],
                                        !.had = caps[call[c].id], !.new = new, !.give = give]]
  PROVE  IInv'
<1>1. call[c] \in CallRecord /\ Sane(call[c]) /\ Owner(call[c])
  BY DEF IInv, TypeInv, CallInv
<1>2. call[c].id \in Ids
  BY <1>1 DEF Sane
<1>3. agents[call[c].id] \in AnyRecord /\ caps[call[c].id] \in SUBSET Capabilities
  BY <1>2 DEF IInv, TypeInv
<1>4. PICK to : to = [call[c] EXCEPT !.at = "write", !.seen = agents[call[c].id],
                                     !.had = caps[call[c].id], !.new = new, !.give = give]
  OBVIOUS
<1>5. to \in CallRecord
  BY <1>1, <1>3, <1>4, CallType DEF IInv, Stages
<1>6. /\ to.at = "write" /\ to.seen = agents[call[c].id] /\ to.new = new /\ to.give = give
      /\ to.kind = call[c].kind /\ to.id = call[c].id /\ to.want = call[c].want
  BY <1>1, <1>4 DEF CallRecord
<1>7. Sane(to)
  BY <1>1, <1>6 DEF Sane, Late
<1>8. Owner(to)
  BY <1>1, <1>2, <1>6 DEF Owner, Late, Wrote, IInv, Whole
<1>9. \A d \in Calls \ {c} : Apart(to, call[d]) /\ Apart(call[d], to)
  <2>1. \A d \in Calls \ {c} : Apart(call[c], call[d]) /\ Apart(call[d], call[c])
    BY DEF IInv, CallInv
  <2> QED  BY <1>6, <2>1 DEF Apart, Wrote
<1> QED  BY <1>4, <1>5, <1>7, <1>8, <1>9, CallStep

LEMMA Reads == ASSUME IInv, NEW c \in Calls, Read(c) PROVE IInv'
<1> DEFINE id == call[c].id
           old == agents[id]
           want == call[c].want
<1>1. call[c] \in CallRecord /\ Sane(call[c]) /\ Owner(call[c]) /\ call[c].at = "read"
  BY DEF IInv, TypeInv, CallInv, Read, Stage
<1>2. id \in Ids /\ old \in AnyRecord /\ caps[id] \in SUBSET Capabilities /\ UNCHANGED stored
  BY <1>1 DEF Sane, IInv, TypeInv, Read, Own
<1>3. CASE call' = [call EXCEPT ![c] = Idle]
  BY <1>2, <1>3, CallEnds
<1>4. CASE call[c].kind = "enroll" /\ call' # [call EXCEPT ![c] = Idle]
  <2>1. want \in Enrollments /\ old = NoRecord
    BY <1>1, <1>4 DEF Sane, Owner
  <2>2. Enrolled(want) \in Record /\ want.caps \in SUBSET Capabilities /\ want.caps # {}
    BY <2>1, NewAgent
  <2>3. call' = [call EXCEPT ![c] = [call[c] EXCEPT !.at = "write", !.seen = old, !.had = caps[id],
                                       !.new = Enrolled(want), !.give = want.caps]]
    BY <1>1, <1>4 DEF Read, Stage, CallRecord
  <2> QED  BY <1>1, <1>2, <1>4, <2>1, <2>2, <2>3, Loads
<1>5. CASE call[c].kind = "patch" /\ call' # [call EXCEPT ![c] = Idle]
  <2>1. old # NoRecord
    BY <1>5 DEF Read, Stage
  <2>2. want \in Patches /\ old \in Record /\ caps[id] # {}
    BY <1>1, <1>2, <1>5, <2>1 DEF Sane, AnyRecord, IInv, Whole
  <2>3. /\ Patched(old, want) \in Record /\ Patched(old, want).enabled = old.enabled
        /\ Given(want.caps, caps[id]) \in (SUBSET Capabilities) \ {{}}
    BY <1>2, <2>2, NewAgent
  <2>4. call' = [call EXCEPT ![c] = [call[c] EXCEPT !.at = "write", !.seen = old, !.had = caps[id],
                     !.new = Patched(old, want), !.give = Given(want.caps, caps[id])]]
    BY <1>1, <1>5 DEF Read, Stage, CallRecord
  <2> QED  BY <1>1, <1>2, <1>5, <2>1, <2>3, <2>4, Loads
<1>6. CASE call[c].kind = "bind" /\ call' # [call EXCEPT ![c] = Idle]
  <2>1. old # NoRecord
    BY <1>6 DEF Read, Stage
  <2>2. want \in Models \cup {AnyModel} /\ old \in Record
    BY <1>1, <1>2, <1>6, <2>1 DEF Sane, AnyRecord
  <2>3. /\ Bound(old, want) \in Record /\ Bound(old, want).name = old.name
        /\ Bound(old, want).schema = old.schema /\ Bound(old, want).enabled = old.enabled
    BY <2>2, NewAgent
  <2>4. call' = [call EXCEPT ![c] = [call[c] EXCEPT !.at = "write", !.seen = old, !.had = caps[id],
                                       !.new = Bound(old, want), !.give = call[c].give]]
    BY <1>1, <1>6 DEF Read, Stage, CallRecord
  <2>5. call[c].give \in SUBSET Capabilities
    BY <1>1 DEF CallRecord
  <2> QED  BY <1>1, <1>2, <1>6, <2>1, <2>3, <2>4, <2>5, Loads
<1> QED  BY <1>1, <1>3, <1>4, <1>5, <1>6 DEF CallRecord, Kinds

LEMMA Writes == ASSUME IInv, NEW c \in Calls, Write(c) PROVE IInv'
<1>1. call[c] \in CallRecord /\ Sane(call[c]) /\ Owner(call[c]) /\ call[c].at = "write"
  BY DEF IInv, TypeInv, CallInv, Write, Stage
<1>2. UNCHANGED stored
  BY DEF Write, Own
<1>3. CASE call' = [call EXCEPT ![c] = Idle]
  BY <1>2, <1>3, CallEnds
<1>4. CASE call' # [call EXCEPT ![c] = Idle]
  <2>1. PICK to : to = [call[c] EXCEPT !.at = IF call[c].kind = "bind" THEN "commit" ELSE "drop"]
    OBVIOUS
  <2>2. /\ call' = [call EXCEPT ![c] = to] /\ WaitsFor(c) = {}
        /\ ~(Renamed(call[c]) /\ Taken(call[c].new.name, call[c].id))
    BY <1>4, <2>1 DEF Write, Stage
  <2>3. to \in CallRecord
    BY <1>1, <2>1, CallType DEF IInv, Stages
  <2>4. /\ to.at = IF call[c].kind = "bind" THEN "commit" ELSE "drop"
        /\ to.seen = call[c].seen /\ to.new = call[c].new /\ to.give = call[c].give
        /\ to.kind = call[c].kind /\ to.id = call[c].id /\ to.want = call[c].want
    BY <1>1, <2>1 DEF CallRecord
  <2>5. Sane(to)
    BY <1>1, <2>4 DEF Sane, Late
  <2>6. Owner(to)
    BY <1>1, <2>2, <2>4 DEF Owner, Late, Wrote, Renamed
  <2>7. \A d \in Calls \ {c} : Apart(to, call[d]) /\ Apart(call[d], to)
    <3>1. \A d \in Calls \ {c} : Apart(call[c], call[d]) /\ Apart(call[d], call[c])
      BY DEF IInv, CallInv
    <3>2. ASSUME NEW d \in Calls \ {c}, call[c].new # call[c].seen, Wrote(call[d])
          PROVE  /\ call[d].id # call[c].id
                 /\ ~(/\ Renamed(call[c]) /\ Renamed(call[d])
                      /\ Lower[call[d].new.name] = Lower[call[c].new.name])
      BY <1>1, <2>2, <3>2 DEF WaitsFor
    <3> QED  BY <1>1, <2>4, <3>1, <3>2 DEF Apart, Wrote, Renamed
  <2> QED  BY <1>2, <2>2, <2>3, <2>5, <2>6, <2>7, CallStep
<1> QED  BY <1>3, <1>4

(* A statement that neither takes a lock nor frees one.                      *)
LEMMA Onward ==
  ASSUME IInv, NEW c \in Calls, UNCHANGED stored, NEW at \in {"dropping", "add", "table", "enable"},
         call[c].at \in {"drop", "dropping", "add", "table"},
         NEW deleted \in SUBSET Capabilities,
         call' = [call EXCEPT ![c] = [call[c] EXCEPT !.at = at, !.deleted = deleted]],
         at = "enable" => ~Retyped(tables[call[c].id], call[c].new.schema)
  PROVE  IInv'
<1>1. call[c] \in CallRecord /\ Sane(call[c]) /\ Owner(call[c])
  BY DEF IInv, TypeInv, CallInv
<1>2. PICK to : to = [call[c] EXCEPT !.at = at, !.deleted = deleted]
  OBVIOUS
<1>3. to \in CallRecord
  BY <1>1, <1>2 DEF CallRecord, Stages
<1>4. /\ to.at = at /\ to.seen = call[c].seen /\ to.new = call[c].new /\ to.give = call[c].give
      /\ to.kind = call[c].kind /\ to.id = call[c].id /\ to.want = call[c].want
  BY <1>1, <1>2 DEF CallRecord
<1>5. call[c].kind # "bind" /\ (Wrote(to) = Wrote(call[c])) /\ (Renamed(to) = Renamed(call[c]))
  BY <1>1, <1>4 DEF Sane, Late, Wrote, Renamed
<1>6. Sane(to)
  BY <1>1, <1>4, <1>5 DEF Sane, Late
<1>7. Owner(to)
  BY <1>1, <1>4, <1>5 DEF Owner, Late
<1>8. \A d \in Calls \ {c} : Apart(to, call[d]) /\ Apart(call[d], to)
  <2>1. \A d \in Calls \ {c} : Apart(call[c], call[d]) /\ Apart(call[d], call[c])
    BY DEF IInv, CallInv
  <2> QED  BY <1>4, <1>5, <2>1 DEF Apart
<1> QED  BY <1>2, <1>3, <1>6, <1>7, <1>8, CallStep

LEMMA Statements ==
  ASSUME IInv, NEW c \in Calls, Drop(c) \/ Dropping(c) \/ Add(c) \/ MakeTable(c)
  PROVE  IInv'
<1>1. /\ call[c] \in CallRecord /\ Sane(call[c]) /\ call[c].at # "free" /\ UNCHANGED stored
  BY DEF IInv, TypeInv, CallInv, Drop, Dropping, Add, MakeTable, Stage, Own
<1>2. call[c].id \in Ids /\ caps[call[c].id] \in SUBSET Capabilities
  BY <1>1 DEF Sane, IInv, TypeInv
<1>3. \A at \in Stages :
        [call[c] EXCEPT !.at = at] = [call[c] EXCEPT !.at = at, !.deleted = call[c].deleted]
  BY <1>1 DEF CallRecord
<1>4. call[c].deleted \in SUBSET Capabilities
  BY <1>1 DEF CallRecord
<1>5. CASE Drop(c)
  BY <1>1, <1>2, <1>5, Onward DEF Drop, Stage
<1>6. CASE Dropping(c)
  <2>1. PICK left \in SUBSET Capabilities : left = call[c].deleted \cap caps[call[c].id]
    BY <1>2, <1>4
  <2>2. call' = [call EXCEPT ![c] = [call[c] EXCEPT !.at = "add", !.deleted = left]]
    BY <1>1, <1>6, <2>1 DEF Dropping, Stage, CallRecord
  <2> QED  BY <1>1, <1>6, <2>2, Onward DEF Dropping, Stage
<1>7. CASE Add(c)
  <2>1. CASE call' = [call EXCEPT ![c] = Idle]
    BY <1>1, <2>1, CallEnds
  <2>2. CASE call' = [call EXCEPT ![c] = [call[c] EXCEPT !.at = "table"]]
    <3>1. call' = [call EXCEPT ![c] = [call[c] EXCEPT !.at = "table", !.deleted = call[c].deleted]]
      BY <1>3, <2>2 DEF Stages
    <3> QED  BY <1>1, <1>4, <1>7, <3>1, Onward DEF Add, Stage
  <2> QED  BY <1>7, <2>1, <2>2 DEF Add, Stage
<1>8. CASE MakeTable(c)
  <2>1. CASE call' = [call EXCEPT ![c] = Idle]
    BY <1>1, <2>1, CallEnds
  <2>2. CASE /\ call' = [call EXCEPT ![c] = [call[c] EXCEPT !.at = "enable"]]
             /\ ~Retyped(tables[call[c].id], call[c].new.schema)
    <3>1. call' = [call EXCEPT ![c] = [call[c] EXCEPT !.at = "enable", !.deleted = call[c].deleted]]
      BY <1>3, <2>2 DEF Stages
    <3> QED  BY <1>1, <1>4, <1>8, <2>2, <3>1, Onward DEF MakeTable, Stage
  <2> QED  BY <1>8, <2>1, <2>2 DEF MakeTable, Stage
<1> QED  BY <1>5, <1>6, <1>7, <1>8

(* Setting enabled may write the row for the first time: then it is locked.  *)
LEMMA Enables == ASSUME IInv, NEW c \in Calls, Enable(c) PROVE IInv'
<1>1. call[c] \in CallRecord /\ Sane(call[c]) /\ Owner(call[c]) /\ call[c].at = "enable"
  BY DEF IInv, TypeInv, CallInv, Enable, Stage
<1>2. PICK flag : flag = IF call[c].kind = "patch" THEN Given(call[c].want.enabled, call[c].new.enabled)
                                                   ELSE call[c].new.enabled
  OBVIOUS
<1>3. PICK to : to = [call[c] EXCEPT !.at = "commit", !.new.enabled = flag]
  OBVIOUS
<1>4. call' = [call EXCEPT ![c] = to] /\ WaitsFor(c) = {} /\ UNCHANGED stored
  BY <1>2, <1>3 DEF Enable, Stage, Own
<1>5. call[c].new \in Record /\ call[c].kind # "bind"
  BY <1>1 DEF Sane, Late
<1>6. flag \in BOOLEAN
  <2>1. call[c].new.enabled \in BOOLEAN
    BY <1>5 DEF Record
  <2>2. ASSUME call[c].kind = "patch" PROVE call[c].want.enabled \in BOOLEAN \cup {NoChange}
    <3>1. call[c].want \in Change
      BY <1>1, <2>2, CatalogueAssumption DEF Sane
    <3> QED  BY <3>1 DEF Change
  <2> QED  BY <1>2, <2>1, <2>2 DEF Given
<1>7. [call[c].new EXCEPT !.enabled = flag] \in Record
  BY <1>5, <1>6 DEF Record
<1>8. /\ to.at = "commit" /\ to.seen = call[c].seen /\ to.give = call[c].give
      /\ to.kind = call[c].kind /\ to.id = call[c].id /\ to.want = call[c].want
      /\ to.new = [call[c].new EXCEPT !.enabled = flag]
  BY <1>1, <1>3 DEF CallRecord
<1>9. /\ to.new.enabled = flag /\ to.new.name = call[c].new.name
      /\ to.new.schema = call[c].new.schema
  BY <1>5, <1>8 DEF Record
<1>10. to \in CallRecord
  BY <1>1, <1>3, <1>7 DEF CallRecord, Stages, AnyRecord
<1>11. Sane(to)
  BY <1>1, <1>2, <1>5, <1>7, <1>8, <1>9 DEF Sane, Late, Given
<1>12. Renamed(to) = Renamed(call[c])
  BY <1>8, <1>9 DEF Renamed
<1>13. Renamed(call[c]) => Wrote(call[c])
  BY <1>1, <1>5, Distinct DEF Renamed, Wrote
<1>14. Owner(to)
  BY <1>1, <1>5, <1>8, <1>9, <1>12, <1>13 DEF Owner, Late
<1>15. ASSUME NEW d \in Calls \ {c}, Wrote(to), Wrote(call[d]) PROVE call[d].id # to.id
  <2>1. CASE Wrote(call[c])
    BY <1>8, <1>15, <2>1 DEF IInv, CallInv, Apart
  <2>2. CASE ~Wrote(call[c])
    <3>1. call[c].new = call[c].seen
      BY <1>1, <2>2 DEF Wrote
    <3>2. flag # call[c].new.enabled
      BY <1>5, <1>8, <1>15, <3>1 DEF Wrote, Record
    <3>3. call[c].kind = "patch" /\ call[c].want.enabled \notin {NoChange, call[c].new.enabled}
      BY <1>2, <3>2 DEF Given
    <3> QED  BY <1>1, <1>4, <1>8, <1>15, <3>3 DEF WaitsFor
  <2> QED  BY <2>1, <2>2
<1>16. \A d \in Calls \ {c} : Apart(to, call[d]) /\ Apart(call[d], to)
  <2>1. \A d \in Calls \ {c} : Apart(call[c], call[d]) /\ Apart(call[d], call[c])
    BY DEF IInv, CallInv
  <2> QED  BY <1>1, <1>8, <1>9, <1>12, <1>13, <1>15, <2>1 DEF Apart
<1> QED  BY <1>4, <1>10, <1>11, <1>14, <1>16, CallStep

-----------------------------------------------------------------------------
(* A call commits.                                                           *)

LEMMA MergedType ==
  ASSUME NEW old \in Record, NEW seen \in Record, NEW new \in Record
  PROVE  /\ Merged(old, seen, new) \in Record
         /\ Merged(old, seen, new).name = IF new.name # seen.name THEN new.name ELSE old.name
         /\ Merged(old, seen, new).schema =
              IF new.schema # seen.schema THEN new.schema ELSE old.schema
         /\ Merged(old, seen, new).enabled =
              IF new.enabled # seen.enabled THEN new.enabled ELSE old.enabled
<1>1. DOMAIN old = {"name", "schema", "enabled", "model", "whole"}
  BY DEF Record
<1>2. seen # NoRecord
  BY Distinct
<1>3. PICK pref : pref = (<<new.model, new.whole>> # <<seen.model, seen.whole>>)
  OBVIOUS
<1>4. Merged(old, seen, new) =
        [col \in {"name", "schema", "enabled", "model", "whole"} |->
           IF col \in {"model", "whole"} THEN IF pref THEN new[col] ELSE old[col]
           ELSE IF new[col] # seen[col] THEN new[col] ELSE old[col]]
  BY <1>1, <1>2, <1>3 DEF Merged
<1>5. PICK m : m = Merged(old, seen, new)
  OBVIOUS
<1>6. /\ m.name = IF new.name # seen.name THEN new.name ELSE old.name
      /\ m.schema = IF new.schema # seen.schema THEN new.schema ELSE old.schema
      /\ m.enabled = IF new.enabled # seen.enabled THEN new.enabled ELSE old.enabled
      /\ m.model = IF pref THEN new.model ELSE old.model
      /\ m.whole = IF pref THEN new.whole ELSE old.whole
  BY <1>4, <1>5
<1>7. m = [name |-> m.name, schema |-> m.schema, enabled |-> m.enabled, model |-> m.model,
           whole |-> m.whole]
  BY <1>4, <1>5
<1>8. /\ m.name \in Names /\ m.schema \in Schema /\ m.enabled \in BOOLEAN
      /\ m.model \in Models \cup {AnyModel} /\ m.whole \in BOOLEAN
  BY <1>6 DEF Record
<1>9. m \in Record
  BY <1>7, <1>8 DEF Record
<1> QED  BY <1>5, <1>6, <1>9

(* What a commit stores of its agent: the row, and what it is worked from.   *)
LEMMA Stored ==
  ASSUME IInv, NEW c \in Calls, Commit(c), NEW id \in Ids, id = call[c].id,
         NEW me, me = call[c], NEW now, now = Merged(agents[id], me.seen, me.new)
  PROVE  /\ me \in CallRecord /\ Sane(me) /\ Owner(me) /\ me.at = "commit" /\ me.id = id
         /\ now \in Record /\ me.new \in Record
         /\ me.kind = "enroll" => now = me.new /\ me.seen = NoRecord /\ agents[id] = NoRecord
         /\ me.kind # "enroll" =>
              /\ agents[id] \in Record /\ me.seen \in Record
              /\ now.name = IF me.new.name # me.seen.name THEN me.new.name ELSE agents[id].name
              /\ now.schema = IF me.new.schema # me.seen.schema THEN me.new.schema
                              ELSE agents[id].schema
              /\ now.enabled = IF me.new.enabled # me.seen.enabled THEN me.new.enabled
                               ELSE agents[id].enabled
         /\ agents' = [agents EXCEPT ![id] = now]
         /\ me.kind = "bind" => UNCHANGED <<caps, tables, schemas>>
         /\ me.kind # "bind" =>
              /\ caps' = [caps EXCEPT ![id] = (@ \ me.deleted) \cup me.give]
              /\ tables' = [tables EXCEPT ![id] = Widened(@, me.new.schema)]
              /\ schemas' = [schemas EXCEPT ![id] = @ \cup {now.schema}]
<1>1. me \in CallRecord /\ Sane(me) /\ Owner(me) /\ me.at = "commit" /\ me.id = id
  BY DEF IInv, TypeInv, CallInv, Commit, Stage
<1>2. me.new \in Record /\ (me.seen = NoRecord) = (me.kind = "enroll")
  BY <1>1 DEF Sane, Late
<1>3. ASSUME me.kind = "enroll" PROVE now = me.new /\ me.seen = NoRecord /\ agents[id] = NoRecord
  BY <1>1, <1>2, <1>3 DEF Owner, Merged
<1>4. ASSUME me.kind # "enroll" PROVE agents[id] \in Record /\ me.seen \in Record
  BY <1>1, <1>2, <1>4 DEF Owner, Late, IInv, TypeInv, AnyRecord, CallRecord
<1>5. now \in Record
  BY <1>2, <1>3, <1>4, MergedType
<1>6. /\ agents' = [agents EXCEPT ![id] = now]
      /\ me.kind = "bind" => UNCHANGED <<caps, tables, schemas>>
      /\ me.kind # "bind" =>
           /\ caps' = [caps EXCEPT ![id] = (@ \ me.deleted) \cup me.give]
           /\ tables' = [tables EXCEPT ![id] = Widened(@, me.new.schema)]
           /\ schemas' = [schemas EXCEPT ![id] = @ \cup {now.schema}]
  BY <1>1 DEF Commit
<1> QED  BY <1>1, <1>2, <1>3, <1>4, <1>5, <1>6, MergedType

LEMMA Commits == ASSUME IInv, NEW c \in Calls, Commit(c) PROVE IInv'
<1>1. call[c].id \in Ids /\ call' = [call EXCEPT ![c] = Idle]
  BY DEF IInv, CallInv, Sane, Commit, Stage
<1> PICK id \in Ids : id = call[c].id
  BY <1>1
<1>2. PICK me, now : me = call[c] /\ now = Merged(agents[id], me.seen, me.new)
  OBVIOUS
<1> DEFINE What ==
         /\ me \in CallRecord /\ Sane(me) /\ Owner(me) /\ me.at = "commit" /\ me.id = id
         /\ now \in Record /\ me.new \in Record
         /\ me.kind = "enroll" => now = me.new /\ me.seen = NoRecord /\ agents[id] = NoRecord
         /\ me.kind # "enroll" =>
              /\ agents[id] \in Record /\ me.seen \in Record
              /\ now.name = IF me.new.name # me.seen.name THEN me.new.name ELSE agents[id].name
              /\ now.schema = IF me.new.schema # me.seen.schema THEN me.new.schema
                              ELSE agents[id].schema
           Put ==
         /\ agents' = [agents EXCEPT ![id] = now]
         /\ me.kind = "bind" => UNCHANGED <<caps, tables, schemas>>
         /\ me.kind # "bind" =>
              /\ caps' = [caps EXCEPT ![id] = (@ \ me.deleted) \cup me.give]
              /\ tables' = [tables EXCEPT ![id] = Widened(@, me.new.schema)]
              /\ schemas' = [schemas EXCEPT ![id] = @ \cup {now.schema}]
<1>3. What /\ Put
  BY <1>2, Stored
<1>4. TypeInv
  BY DEF IInv
<1>5. now # NoRecord
  BY <1>3, Distinct
<1>6. ASSUME me.kind # "bind" PROVE Widened(tables[id], me.new.schema) \in Schema
  BY <1>3, <1>4, WidenedType DEF TypeInv, Record
<1>7. /\ \A a \in Ids : agents'[a] = IF a = id THEN now ELSE agents[a]
      /\ \A a \in Ids : a # id \/ me.kind = "bind" =>
           caps'[a] = caps[a] /\ tables'[a] = tables[a] /\ schemas'[a] = schemas[a]
      /\ me.kind # "bind" => /\ caps'[id] = (caps[id] \ me.deleted) \cup me.give
                             /\ tables'[id] = Widened(tables[id], me.new.schema)
                             /\ schemas'[id] = schemas[id] \cup {now.schema}
  BY <1>3, <1>4 DEF TypeInv
<1>8. TypeInv'
  <2>1. agents' \in [Ids -> AnyRecord]
    BY <1>3, <1>4 DEF TypeInv, AnyRecord
  <2>2. caps' \in [Ids -> SUBSET Capabilities]
    <3>1. me.give \in SUBSET Capabilities
      BY <1>3 DEF CallRecord
    <3> QED  BY <1>3, <1>4, <3>1 DEF TypeInv
  <2>3. tables' \in [Ids -> Schema \cup {NoTable}]
    BY <1>3, <1>4, <1>6 DEF TypeInv
  <2>4. schemas' \in [Ids -> SUBSET Schema]
    <3>1. now.schema \in Schema
      BY <1>3 DEF Record
    <3> QED  BY <1>3, <1>4, <3>1 DEF TypeInv
  <2>5. call' \in [Calls -> CallRecord]
    BY <1>1, <1>4, Distinct DEF TypeInv
  <2> QED  BY <2>1, <2>2, <2>3, <2>4, <2>5 DEF TypeInv
<1> HIDE DEF Put
<1>9. \A a \in Ids \ {id} : Whole(a)'
  BY <1>5, <1>7 DEF IInv, Whole
<1>10. Whole(id)'
  <2>1. Whole(id)
    BY DEF IInv
  <2>2. CASE me.kind = "bind"
    <3>1. now.schema = agents[id].schema /\ agents[id] # NoRecord
      BY <1>3, <2>2, Distinct DEF Sane, Late
    <3> QED  BY <1>5, <1>7, <2>1, <2>2, <3>1 DEF Whole
  <2>3. CASE me.kind # "bind"
    <3>1. me.new.schema \in Schema /\ tables[id] \in Schema \cup {NoTable} /\ me.give # {}
      BY <1>3, <1>4, <2>3 DEF Record, TypeInv, Sane, Late
    <3>2. PICK wide : wide = Widened(tables[id], me.new.schema)
      OBVIOUS
    <3>3. /\ wide \in Schema
          /\ \A p \in Props :
               /\ me.new.schema[p] # NoType => wide[p] # NoType
               /\ tables[id] # NoTable /\ tables[id][p] # NoType => wide[p] = tables[id][p]
               /\ ~Retyped(tables[id], me.new.schema) /\ me.new.schema[p] # NoType =>
                    wide[p] = me.new.schema[p]
      BY <3>1, <3>2, WidenedType
    <3>4. now.schema = me.new.schema \/ (agents[id] # NoRecord /\ now.schema = agents[id].schema)
      BY <1>3, Distinct
    <3>5. /\ agents'[id] = now /\ tables'[id] = wide /\ schemas'[id] = schemas[id] \cup {now.schema}
          /\ caps'[id] # {} /\ wide # NoTable
      BY <1>7, <2>3, <3>1, <3>2, <3>3, Distinct
    <3>6. \A p \in Props : now.schema[p] # NoType => wide[p] # NoType
      BY <2>1, <3>3, <3>4 DEF Whole
    <3>7. ASSUME id \in FreshIds, NEW s \in schemas[id] \cup {now.schema}, NEW p \in Props,
                 s[p] # NoType
          PROVE  wide[p] = s[p]
      <4>1. CASE s \in schemas[id]
        <5>1. agents[id] # NoRecord /\ tables[id] # NoTable
          BY <2>1, <3>7, <4>1 DEF Whole
        <5> QED  BY <2>1, <3>3, <3>7, <4>1, <5>1 DEF Whole
      <4>2. CASE s \notin schemas[id]
        <5>1. s = me.new.schema
          BY <2>1, <3>4, <3>7, <4>2 DEF Whole
        <5>2. ~Retyped(tables[id], me.new.schema)
          BY <1>3, <2>3, <3>7 DEF Owner
        <5> QED  BY <3>3, <3>7, <5>1, <5>2
      <4> QED  BY <4>1, <4>2
    <3> QED  BY <1>5, <3>5, <3>6, <3>7 DEF Whole
  <2> QED  BY <2>2, <2>3
<1>11. Renamed(me) => Wrote(me)
  BY <1>3, Distinct DEF Renamed, Wrote
<1>12. \/ Renamed(me) /\ now.name = me.new.name
       \/ agents[id] # NoRecord /\ now.name = agents[id].name
  BY <1>3, Distinct DEF Renamed
<1>13. ~Taken(now.name, id)
  BY <1>2, <1>3, <1>11, <1>12 DEF Owner, IInv, NamesApart
<1>14. NamesApart'
  <2>1. ASSUME NEW a \in Ids, NEW b \in Ids \ {a}, agents'[a] # NoRecord, agents'[b] # NoRecord
        PROVE  Lower[agents'[b].name] # Lower[agents'[a].name]
    BY <1>7, <1>13, <2>1 DEF IInv, NamesApart, Taken
  <2> QED  BY <2>1 DEF NamesApart, Taken
<1>15. ASSUME NEW d \in Calls \ {c} PROVE Owner(call[d])'
  <2>1. call[d] \in CallRecord /\ Sane(call[d]) /\ Owner(call[d])
    BY DEF IInv, TypeInv, CallInv
  <2>2. Apart(me, call[d]) /\ Apart(call[d], me)
    BY <1>2 DEF IInv, CallInv
  <2>3. call'[d] = call[d]
    BY <1>1, <1>4 DEF TypeInv
  <2>4. ASSUME call[d].at # "free", call[d].kind = "enroll" PROVE agents'[call[d].id] = NoRecord
    <3>1. call[d].id \in Ids /\ agents[call[d].id] = NoRecord
      BY <2>1, <2>4 DEF Sane, Owner
    <3>2. call[d].id # id
      BY <1>3, <2>2, <2>4, <3>1, Distinct DEF Apart
    <3> QED  BY <1>7, <3>1, <3>2
  <2>5. ASSUME Late(call[d]), call[d].kind # "enroll"
        PROVE  /\ agents'[call[d].id] # NoRecord
               /\ call[d].id \in FreshIds => call[d].seen.schema \in schemas'[call[d].id]
    <3>1. call[d].id \in Ids /\ agents[call[d].id] # NoRecord
      BY <2>1, <2>5 DEF Sane, Owner, Late
    <3>2. call[d].id \in FreshIds => call[d].seen.schema \in schemas[call[d].id]
      BY <2>1, <2>5 DEF Owner
    <3> QED  BY <1>5, <1>7, <3>1, <3>2
  <2>6. ASSUME Wrote(call[d]), Renamed(call[d]) PROVE ~Taken(call[d].new.name, call[d].id)'
    <3>1. ~Taken(call[d].new.name, call[d].id)
      BY <2>1, <2>6 DEF Owner
    <3>2. Lower[now.name] # Lower[call[d].new.name] \/ call[d].id = id
      BY <1>11, <1>12, <2>2, <2>6, <3>1 DEF Apart, Taken
    <3>3. ASSUME NEW a \in Ids \ {call[d].id}, agents'[a] # NoRecord
          PROVE  Lower[agents'[a].name] # Lower[call[d].new.name]
      BY <1>7, <3>1, <3>2, <3>3 DEF Taken
    <3> QED  BY <2>3, <3>3 DEF Taken
  <2>7. ASSUME call[d].at \in {"enable", "commit"}, call[d].kind # "bind", call[d].id \in FreshIds
        PROVE  ~Retyped(tables'[call[d].id], call[d].new.schema)
    <3>1. ~Retyped(tables[call[d].id], call[d].new.schema) /\ call[d].id \in Ids
      BY <2>1, <2>7 DEF Owner, Ids
    <3>2. CASE call[d].id # id \/ me.kind = "bind"
      BY <1>7, <3>1, <3>2
    <3>3. CASE call[d].id = id /\ me.kind # "bind"
      <4>1. Late(call[d]) /\ Late(me)
        BY <1>3, <2>7 DEF Late
      <4>2. me.kind # "enroll" /\ call[d].kind # "enroll"
        <5>1. me.kind = "enroll" => call[d].kind # "enroll"
          BY <1>3, <2>2, <2>7, <3>3 DEF Apart
        <5>2. me.kind = "enroll" => agents[id] = NoRecord
          BY <1>3
        <5>3. call[d].kind # "enroll" => agents[id] # NoRecord
          BY <2>1, <3>3, <4>1 DEF Owner
        <5>4. call[d].kind = "enroll" => agents[id] = NoRecord
          BY <2>1, <2>7, <3>3 DEF Owner
        <5>5. me.kind # "enroll" => agents[id] # NoRecord
          BY <1>3, Distinct
        <5> QED  BY <5>1, <5>2, <5>3, <5>4, <5>5
      <4>3. \/ call[d].new.schema = call[d].seen.schema
            \/ me.new.schema = me.seen.schema
        <5>1. ~(Wrote(me) /\ Wrote(call[d]))
          BY <1>3, <2>2, <3>3 DEF Apart
        <5> QED  BY <1>3, <2>7, <5>1 DEF Wrote
      <4>4. me.seen.schema \in schemas[id] /\ call[d].seen.schema \in schemas'[id]
        BY <1>3, <2>5, <2>7, <3>3, <4>1, <4>2 DEF Owner
      <4>5. CASE call[d].new.schema = call[d].seen.schema
        BY <1>10, <2>7, <3>3, <4>4, <4>5 DEF Whole, Retyped
      <4>6. CASE me.new.schema = me.seen.schema
        <5>1. Whole(id) /\ tables[id] # NoTable
          BY <4>4, <2>7, <3>3 DEF IInv, Whole
        <5>2. ASSUME NEW p \in Props PROVE tables'[id][p] = tables[id][p]
          <6>1. me.new.schema[p] # NoType => tables[id][p] = me.new.schema[p]
            BY <2>7, <3>3, <4>4, <4>6, <5>1 DEF Whole
          <6>2. tables'[id][p] = IF tables[id][p] = NoType THEN me.new.schema[p] ELSE tables[id][p]
            BY <1>7, <3>3, <5>1 DEF Widened
          <6> QED  BY <6>1, <6>2
        <5> QED  BY <3>1, <3>3, <5>1, <5>2 DEF Retyped
      <4> QED  BY <4>3, <4>5, <4>6
    <3> QED  BY <3>2, <3>3
  <2> QED  BY <2>3, <2>4, <2>5, <2>6, <2>7 DEF Owner, Late, Wrote, Renamed
<1>16. CallInv'
  <2>1. \A d \in Calls : call'[d] = IF d = c THEN Idle ELSE call[d]
    BY <1>1, <1>4 DEF TypeInv
  <2>2. \A d \in Calls : Sane(call'[d])
    BY <2>1, Distinct DEF IInv, CallInv
  <2>3. \A d \in Calls : Owner(call[d])'
    BY <2>1, <1>15 DEF Owner, Idle, Late, Wrote
  <2>4. \A d, e \in Calls : d # e => Apart(call'[d], call'[e])
    BY <2>1, Distinct DEF IInv, CallInv
  <2> QED  BY <2>2, <2>3, <2>4 DEF CallInv, Sane, Apart, Late, Wrote, Renamed
<1> QED  BY <1>8, <1>9, <1>10, <1>14, <1>16 DEF IInv

-----------------------------------------------------------------------------
(* The process starts: no call is under way, and the built-in agents are as  *)
(* they are shipped, enabled and bound as they were.                         *)
LEMMA SeededType ==
  ASSUME IInv, NEW b \in DOMAIN Builtin
  PROVE  /\ Seeded(b) \in Record /\ Seeded(b).name = Shipped[b].name
         /\ Seeded(b).schema = Shipped[b].schema
         /\ agents[b] # NoRecord => Seeded(b).enabled = agents[b].enabled
         /\ Shipped[b].caps \in (SUBSET Capabilities) \ {{}} /\ Shipped[b].schema \in Schema
<1>1. /\ Shipped[b].name \in Names /\ Shipped[b].schema \in Schema
      /\ Shipped[b].caps \in (SUBSET Capabilities) \ {{}}
  BY CatalogueAssumption
<1>2. agents[b] # NoRecord => agents[b] \in Record
  BY DEF IInv, TypeInv, Ids, AnyRecord
<1> QED  BY <1>1, <1>2 DEF Seeded, Record

LEMMA Seeds == ASSUME IInv, Start PROVE IInv'
<1>1. call' = [c \in Calls |-> Idle] /\ TypeInv
  BY DEF Start, IInv
<1>2. CallInv' /\ call' \in [Calls -> CallRecord]
  <2>1. \A c \in Calls : call'[c] = Idle
    BY <1>1
  <2>2. Idle.at = "free"
    BY DEF Idle
  <2>3. \A c \in Calls : Sane(call'[c]) /\ Owner(call[c])'
    BY <2>1, <2>2, Distinct DEF Owner, Late, Wrote
  <2>4. \A c, d \in Calls : Apart(call'[c], call'[d])
    BY <2>1, Distinct
  <2> QED  BY <1>1, <2>3, <2>4, Distinct DEF CallInv, Sane, Apart, Late, Wrote, Renamed
<1>3. CASE Clash
  <2>1. UNCHANGED stored
    BY <1>3 DEF Start
  <2> QED  BY <1>1, <1>2, <2>1 DEF IInv, TypeInv, NamesApart, Whole, Taken, stored
<1>4. CASE ~Clash
  <2>1. /\ agents' = [a \in Ids |-> IF a \in DOMAIN Builtin THEN Seeded(a) ELSE agents[a]]
        /\ caps' = [a \in Ids |-> IF a \in DOMAIN Builtin THEN Shipped[a].caps ELSE caps[a]]
        /\ tables' = [a \in Ids |-> IF a \in DOMAIN Builtin
                                    THEN Widened(tables[a], Shipped[a].schema) ELSE tables[a]]
        /\ schemas' = [a \in Ids |-> schemas[a] \cup
                                     IF a \in DOMAIN Builtin THEN {Shipped[a].schema} ELSE {}]
    BY <1>4 DEF Start
  <2>2. ASSUME NEW a \in DOMAIN Builtin
        PROVE  /\ a \in Ids /\ a \notin FreshIds
               /\ agents'[a] \in Record /\ agents'[a] # NoRecord
               /\ agents'[a].name = Shipped[a].name /\ agents'[a].schema = Shipped[a].schema
               /\ caps'[a] \in (SUBSET Capabilities) \ {{}}
               /\ tables'[a] \in Schema
               /\ schemas'[a] = schemas[a] \cup {Shipped[a].schema} /\ Shipped[a].schema \in Schema
               /\ \A p \in Props : Shipped[a].schema[p] # NoType => tables'[a][p] # NoType
    <3>1. a \in Ids /\ a \notin FreshIds
      BY CatalogueAssumption DEF Ids
    <3>2. tables[a] \in Schema \cup {NoTable}
      BY <1>1, <3>1 DEF TypeInv
    <3> QED  BY <2>1, <3>1, <3>2, SeededType, WidenedType, Distinct
  <2>3. ASSUME NEW a \in Ids \ DOMAIN Builtin
        PROVE  /\ agents'[a] = agents[a] /\ caps'[a] = caps[a] /\ tables'[a] = tables[a]
               /\ schemas'[a] = schemas[a]
    BY <2>1
  <2>4. TypeInv'
    <3>1. \A a \in Ids : /\ agents'[a] \in AnyRecord /\ caps'[a] \in SUBSET Capabilities
                         /\ tables'[a] \in Schema \cup {NoTable} /\ schemas'[a] \in SUBSET Schema
      BY <1>1, <2>2, <2>3 DEF TypeInv, AnyRecord
    <3>2. agents' \in [Ids -> AnyRecord]
      BY <2>1, <3>1
    <3>3. caps' \in [Ids -> SUBSET Capabilities]
      BY <2>1, <3>1
    <3>4. tables' \in [Ids -> Schema \cup {NoTable}]
      BY <2>1, <3>1
    <3>5. schemas' \in [Ids -> SUBSET Schema]
      BY <2>1, <3>1
    <3> QED  BY <1>2, <3>2, <3>3, <3>4, <3>5 DEF TypeInv
  <2>5. \A a \in Ids : Whole(a)'
    <3>1. ASSUME NEW a \in DOMAIN Builtin PROVE Whole(a)'
      BY <2>2, Distinct DEF Whole
    <3>2. ASSUME NEW a \in Ids \ DOMAIN Builtin PROVE Whole(a)'
      BY <2>3 DEF IInv, Whole
    <3> QED  BY <3>1, <3>2
  <2>6. NamesApart'
    <3>1. ASSUME NEW a \in DOMAIN Builtin, NEW b \in Ids \ {a}, agents'[b] # NoRecord
          PROVE  Lower[agents'[b].name] # Lower[agents'[a].name]
      <4>1. CASE b \in DOMAIN Builtin
        BY <2>2, <4>1, CatalogueAssumption
      <4>2. CASE b \notin DOMAIN Builtin
        <5>1. agents[b] \in Record /\ agents'[b] = agents[b]
          BY <1>1, <2>3, <3>1, <4>2 DEF TypeInv, AnyRecord
        <5>2. agents[b].name # NoId
          BY <5>1, CatalogueAssumption DEF Record
        <5>3. NameAt(b, a) = agents[b].name
          BY <4>2 DEF NameAt
        <5>4. Lower[agents[b].name] # Lower[Shipped[a].name]
          BY <1>4, <5>2, <5>3 DEF Clash
        <5> QED  BY <2>2, <5>1, <5>4
      <4> QED  BY <4>1, <4>2
    <3>2. ASSUME NEW a \in Ids \ DOMAIN Builtin, NEW b \in Ids \ (DOMAIN Builtin \cup {a}),
                 agents'[a] # NoRecord, agents'[b] # NoRecord
          PROVE  Lower[agents'[b].name] # Lower[agents'[a].name]
      BY <2>3, <3>2 DEF IInv, NamesApart, Taken
    <3>3. ASSUME NEW a \in Ids, NEW b \in Ids \ {a}, agents'[a] # NoRecord, agents'[b] # NoRecord
          PROVE  Lower[agents'[b].name] # Lower[agents'[a].name]
      <4>1. CASE a \in DOMAIN Builtin
        BY <3>1, <3>3, <4>1
      <4>2. CASE b \in DOMAIN Builtin
        BY <3>1, <3>3, <4>2
      <4>3. CASE a \notin DOMAIN Builtin /\ b \notin DOMAIN Builtin
        BY <3>2, <3>3, <4>3
      <4> QED  BY <4>1, <4>2, <4>3
    <3> QED  BY <3>3 DEF NamesApart, Taken
  <2> QED  BY <1>2, <2>4, <2>5, <2>6 DEF IInv
<1> QED  BY <1>3, <1>4

LEMMA NextInv == IInv /\ [Next]_vars => IInv'
<1> SUFFICES ASSUME IInv, [Next]_vars PROVE IInv'
  OBVIOUS
<1>1. CASE Start
  BY <1>1, Seeds
<1>2. ASSUME NEW c \in Calls, Enroll(c) \/ Patch(c) \/ Bind(c) PROVE IInv'
  BY <1>2, Starts
<1>3. ASSUME NEW c \in Calls, Read(c) PROVE IInv'
  BY <1>3, Reads
<1>4. ASSUME NEW c \in Calls, Write(c) PROVE IInv'
  BY <1>4, Writes
<1>5. ASSUME NEW c \in Calls, Drop(c) \/ Dropping(c) \/ Add(c) \/ MakeTable(c) PROVE IInv'
  BY <1>5, Statements
<1>6. ASSUME NEW c \in Calls, Enable(c) PROVE IInv'
  BY <1>6, Enables
<1>7. ASSUME NEW c \in Calls, Commit(c) PROVE IInv'
  BY <1>7, Commits
<1>8. ASSUME NEW c \in Calls, Fail(c) \/ Victim(c) PROVE IInv'
  <2>1. UNCHANGED stored /\ call' = [call EXCEPT ![c] = Idle]
    BY <1>8 DEF Fail, Victim, Own
  <2> QED  BY <2>1, CallEnds
<1>9. CASE UNCHANGED vars
  <2>1. UNCHANGED <<agents, caps, tables, schemas, call>>
    BY <1>9 DEF vars
  <2>2. TypeInv' /\ NamesApart' /\ \A a \in Ids : Whole(a)'
    BY <2>1 DEF IInv, TypeInv, NamesApart, Whole, Taken
  <2>3. \A c \in Calls : Owner(call[c])' = Owner(call[c])
    BY <2>1 DEF Owner, Taken, Late, Wrote, Renamed, Retyped
  <2>4. \A c \in Calls : Sane(call[c])' = Sane(call[c])
    BY <2>1 DEF Sane, Late
  <2>5. \A c, d \in Calls : Apart(call[c], call[d])' = Apart(call[c], call[d])
    BY <2>1 DEF Apart, Wrote, Renamed
  <2> QED  BY <2>2, <2>3, <2>4, <2>5 DEF IInv, CallInv
<1> QED  BY <1>1, <1>2, <1>3, <1>4, <1>5, <1>6, <1>7, <1>8, <1>9 DEF Next

LEMMA Always == Spec => []IInv
  BY InitInv, NextInv, PTL DEF Spec

-----------------------------------------------------------------------------
(* What is committed of an agent is whole, and names stay apart whatever     *)
(* calls overlap, fail or are ended by a start (agents/enrollment.py,        *)
(* api/routes/agents.py create_agent, seed.py).                              *)
THEOREM NothingHalfEnrolledAlways == Spec => []NothingHalfEnrolled
<1>1. IInv => NothingHalfEnrolled
  BY DEF IInv, TypeInv, AnyRecord, Whole, NamesApart, NothingHalfEnrolled
<1> QED  BY <1>1, Always, PTL

(* Every result a run stores by a schema it loaded, then or earlier, fits    *)
(* the table of an enrolled agent (tables.py ensure_agent_table, strict).    *)
THEOREM ResultsAlwaysFit == Spec => []ResultsFit
<1>1. IInv => ResultsFit
  BY DEF IInv, Whole, ResultsFit, Ids
<1> QED  BY <1>1, Always, PTL

(* Nothing but a PATCH that says so enables or disables an agent: seeding    *)
(* keeps the flag, and a change of anything else leaves the column alone     *)
(* (seed.py upsert_agent, agents.py patch_agent).                            *)
THEOREM TogglesAreKept == Spec => TogglesKept
<1>1. ASSUME IInv, [Next]_vars, NEW a \in Ids,
             agents[a] # NoRecord, agents'[a].enabled # agents[a].enabled
      PROVE  \E c \in Calls : /\ call[c].kind = "patch" /\ call[c].id = a
                              /\ call[c].want.enabled = agents'[a].enabled
  <2>1. CASE Start
    <3>1. CASE Clash
      BY <1>1, <2>1, <3>1 DEF Start, stored
    <3>2. CASE ~Clash
      <4>1. agents'[a] = IF a \in DOMAIN Builtin THEN Seeded(a) ELSE agents[a]
        BY <2>1, <3>2 DEF Start
      <4> QED  BY <1>1, <4>1, SeededType
    <3> QED  BY <3>1, <3>2
  <2>2. ASSUME NEW c \in Calls, Commit(c)
        PROVE  /\ call[c].kind = "patch" /\ call[c].id = a
               /\ call[c].want.enabled = agents'[a].enabled
    <3>1. call[c].id \in Ids
      BY <1>1, <2>2 DEF IInv, CallInv, Sane, Commit, Stage
    <3>2. PICK me, now : me = call[c] /\ now = Merged(agents[call[c].id], me.seen, me.new)
      OBVIOUS
    <3>3. /\ Sane(me) /\ me.at = "commit" /\ agents' = [agents EXCEPT ![me.id] = now]
          /\ me.kind = "enroll" => agents[me.id] = NoRecord
          /\ me.kind # "enroll" =>
               now.enabled = IF me.new.enabled # me.seen.enabled THEN me.new.enabled
                             ELSE agents[me.id].enabled
          /\ me.kind \in Kinds
      BY <1>1, <2>2, <3>1, <3>2, Stored DEF CallRecord
    <3>4. me.id = a
      BY <1>1, <3>3
    <3>5. agents'[a] = now
      BY <1>1, <3>3, <3>4 DEF IInv, TypeInv
    <3>6. me.kind # "enroll" /\ me.new.enabled # me.seen.enabled /\ now.enabled = me.new.enabled
      BY <1>1, <3>3, <3>4, <3>5
    <3>7. me.kind = "patch" /\ me.want.enabled = now.enabled
      BY <3>3, <3>6 DEF Sane, Late, Kinds
    <3> QED  BY <3>2, <3>4, <3>5, <3>7
  <2>3. CASE UNCHANGED agents
    BY <1>1, <2>3
  <2>4. Start \/ (\E c \in Calls : Commit(c)) \/ UNCHANGED agents
    BY <1>1 DEF Next, vars, stored, Own, Enroll, Patch, Bind, Begin, Read, Write, Drop, Dropping,
                Add, MakeTable, Enable, Fail, Victim
  <2> QED  BY <2>1, <2>2, <2>3, <2>4
<1>2. IInv /\ [Next]_vars =>
        [\A a \in Ids :
           agents[a] # NoRecord /\ agents'[a].enabled # agents[a].enabled =>
             \E c \in Calls : /\ call[c].kind = "patch" /\ call[c].id = a
                              /\ call[c].want.enabled = agents'[a].enabled]_vars
  BY <1>1
<1> QED  BY <1>2, Always, PTL DEF Spec, TogglesKept
=============================================================================
