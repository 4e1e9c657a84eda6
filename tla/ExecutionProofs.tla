-------------------------- MODULE ExecutionProofs --------------------------
(***************************************************************************)
(* Theorems about AgentExecution, for every plan, ranking, price and bound. *)
(***************************************************************************)
EXTENDS ExecutionProperties, TLAPS

(* The ranked models before j were called in this attempt, or are of vendors *)
(* that were found to be down.                                               *)
Walked(s, m, j) ==
  \A i \in DOMAIN Ranked[s] :
    i < j => i \in m.tried \/ ProviderOf[Ranked[s][i]] \in m.gone

Choosing(s, m) ==
  /\ Ranked[s] # <<>> => m.cand \in DOMAIN Ranked[s]
  /\ Walked(s, m, m.cand)
  /\ \A j \in m.tried : j < m.cand
  /\ Ranked[s] # <<>> => ProviderOf[Ranked[s][m.cand]] \notin m.gone

Calling(s, m) ==
  /\ m.cand \in DOMAIN Ranked[s]
  /\ Walked(s, m, m.cand)
  /\ m.cand \in m.tried
  /\ \A j \in m.tried : j <= m.cand
  /\ Estimate[Ranked[s][m.cand]] <= m.allowed

Done(s, m) ==
  m.last \in Retryable =>
    /\ m.try = MaxAttempts[s]
    /\ \A j \in DOMAIN Ranked[s] :
         j \in m.tried \/ ProviderOf[Ranked[s][j]] \in m.gone

(* What holds of one member, whatever the others do.                         *)
MemberOK(s, m) ==
  /\ m.at = "waiting" => m.try = 0
  /\ m.at \in {"choosing", "calling", "done"} => m.try \in 1 .. MaxAttempts[s]
  /\ m.at = "backoff" => m.try \in 1 .. MaxAttempts[s] - 1
  /\ m.at = "choosing" => Choosing(s, m)
  /\ m.at = "calling" => Calling(s, m)
  /\ m.at = "done" => Done(s, m)
  /\ m.cost > 0 => m.allowed > 0

MembersOK == \A r \in Runs, s \in Steps : MemberOK(s, member[r][s])

(* What the engine's memory, its session and the rows have in common.        *)
OwnRun    == pc # "idle" => run \in Runs
Synced    == /\ pc # "recording" => tx = db /\ todo = {}
             /\ pc \in {"idle", "loop"} => batch = {}
Remainder == pc \in {"loop", "calling"} => remaining = Monus(Budget, db.total)
Allowance == pc \in {"calling", "recording"} =>
               \A s \in batch : member[run][s].allowed = Monus(Budget, db.total)

(* What the session holds of a batch that is being recorded.                 *)
Written ==
  /\ remaining = Monus(Budget, tx.total)
  /\ tx.total > db.total => db.total < Budget
  /\ tx.total >= db.total
  /\ \A s \in batch : member[run][s].at = "done"
  /\ \A s \in batch \ todo :
       /\ tx.attempts[s] = db.attempts[s] + member[run][s].try
       /\ tx.verdict[s] = IF member[run][s].last = "succeeded"
                            THEN "succeeded" ELSE "failed"
  /\ \A s \in (Steps \ batch) \cup todo :
       tx.attempts[s] = db.attempts[s] /\ tx.verdict[s] = db.verdict[s]

LedgerOK ==
  OwnRun /\ Synced /\ Remainder /\ Allowance /\ (pc = "recording" => Written)

IInv == TypeOK /\ MembersOK /\ LedgerOK

-----------------------------------------------------------------------------
(* One member. *)

(* A new attempt starts with no candidate called and no vendor given up.     *)
LEMMA AttemptingOK ==
  ASSUME NEW s \in Steps, NEW m \in Members, MemberOK(s, m),
         m.at \in {"waiting", "backoff"}
  PROVE  /\ Attempting(m) \in Members
         /\ MemberOK(s, Attempting(m))
         /\ Attempting(m).allowed = m.allowed
<1> DEFINE n == Attempting(m)
<1>1. /\ n \in Members
      /\ n.at = "choosing" /\ n.try = m.try + 1 /\ n.cand = 1 /\ n.gone = {}
      /\ n.tried = {} /\ n.cost = m.cost /\ n.allowed = m.allowed
  <2>1. "choosing" \in Places
    BY DEF Places
  <2>2. m.try + 1 \in Nat /\ {} \in SUBSET Providers /\ {} \in SUBSET Nat
    BY DEF Members
  <2> QED  BY <2>1, <2>2 DEF Attempting, Members
<1>2. n.try \in 1 .. MaxAttempts[s]
  BY <1>1, ExecutionAssumption DEF MemberOK, Members
<1>3. Choosing(s, n)
  <2>1. Ranked[s] \in Seq(Models)
    BY ExecutionAssumption
  <2>2. Ranked[s] # <<>> => 1 \in DOMAIN Ranked[s]
    BY <2>1
  <2>3. \A i \in DOMAIN Ranked[s] : ~(i < 1)
    BY <2>1
  <2> QED  BY <1>1, <2>2, <2>3 DEF Choosing, Walked
<1> QED  BY <1>1, <1>2, <1>3 DEF MemberOK

(* An attempt that ends leaves its member done, or with an attempt to spare. *)
LEMMA EndedOK ==
  ASSUME NEW s \in Steps, NEW m \in Members, NEW kind \in Kinds, NEW cost \in Nat,
         m.try \in 1 .. MaxAttempts[s],
         m.cost > 0 \/ cost > 0 => m.allowed > 0,
         kind \in Retryable =>
           \A j \in DOMAIN Ranked[s] :
             j \in m.tried \/ ProviderOf[Ranked[s][j]] \in m.gone
  PROVE  /\ Ended(s, m, kind, cost) \in Members
         /\ MemberOK(s, Ended(s, m, kind, cost))
         /\ Ended(s, m, kind, cost).allowed = m.allowed
<1> DEFINE n == Ended(s, m, kind, cost)
<1>1. /\ n \in Members
      /\ n.at = IF kind \in Retryable /\ m.try < MaxAttempts[s] THEN "backoff" ELSE "done"
      /\ n.try = m.try /\ n.gone = m.gone /\ n.tried = m.tried
      /\ n.cost = m.cost + cost /\ n.last = kind /\ n.allowed = m.allowed
  <2>1. (IF kind \in Retryable /\ m.try < MaxAttempts[s] THEN "backoff" ELSE "done") \in Places
    BY DEF Places
  <2>2. m.cost + cost \in Nat /\ kind \in Kinds \cup {"none"}
    BY DEF Members
  <2> QED  BY <2>1, <2>2 DEF Ended, Members
<1>2. MaxAttempts[s] \in Nat \ {0}
  BY ExecutionAssumption
<1>3. n.cost > 0 => n.allowed > 0
  BY <1>1 DEF Members
<1>4. CASE kind \in Retryable /\ m.try < MaxAttempts[s]
  BY <1>1, <1>2, <1>3, <1>4 DEF MemberOK
<1>5. CASE ~(kind \in Retryable /\ m.try < MaxAttempts[s])
  <2>1. Done(s, n)
    BY <1>1, <1>2, <1>5 DEF Done
  <2> QED  BY <1>1, <1>3, <1>5, <2>1 DEF MemberOK
<1> QED  BY <1>4, <1>5

(* What every move of a member keeps: its type, MemberOK and its allowance.   *)
Moved(r, s, m) ==
  /\ m \in Members
  /\ member' = [member EXCEPT ![r][s] = m]
  /\ MemberOK(s, m)
  /\ m.allowed = member[r][s].allowed

(* The output of a candidate: the walk goes on to the next vendor that is     *)
(* not known to be down, or it has seen the whole ranking.                    *)
LEMMA OutcomeOK ==
  ASSUME TypeOK, MembersOK, NEW r \in Runs, NEW s \in Steps,
         member[r][s].at = "calling",
         NEW kind \in ProviderErrors \cup Answers,
         NEW bill \in Nat, bill > 0 => Estimate[Ranked[s][member[r][s].cand]] > 0,
         Outcome(r, s, kind, bill)
  PROVE  \E m \in Members : Moved(r, s, m)
<1> DEFINE old  == member[r][s]
           m    == [old EXCEPT !.gone = IF kind = "provider_unavailable"
                                 THEN @ \cup {ProviderOf[Ranked[s][old.cand]]} ELSE @]
           next == Following(s, m)
<1>1. old \in Members /\ MemberOK(s, old)
  BY DEF TypeOK, MembersOK
<1>2. Calling(s, old) /\ old.try \in 1 .. MaxAttempts[s]
  BY <1>1 DEF MemberOK
<1>3. Ranked[s] \in Seq(Models) /\ old.cand \in DOMAIN Ranked[s]
  BY <1>2, ExecutionAssumption DEF Calling
<1>4. Ranked[s][old.cand] \in Models /\ old.cand \in Nat
  BY <1>1, <1>3 DEF Members
<1>5. Estimate[Ranked[s][old.cand]] \in Nat /\ kind \in Kinds
  BY <1>4, ExecutionAssumption DEF Kinds
<1>6. /\ m \in Members
      /\ m.try = old.try /\ m.cand = old.cand /\ m.tried = old.tried
      /\ m.cost = old.cost /\ m.allowed = old.allowed
      /\ old.gone \subseteq m.gone
  <2>1. ProviderOf[Ranked[s][old.cand]] \in Providers
    BY <1>4 DEF Providers
  <2>3. (IF kind = "provider_unavailable"
           THEN old.gone \cup {ProviderOf[Ranked[s][old.cand]]} ELSE old.gone)
        \in SUBSET Providers
    BY <1>1, <2>1 DEF Members
  <2> QED  BY <1>1, <2>3 DEF Members
<1>0. \/ /\ kind \in MayRotate
         /\ \E j \in next :
              /\ \A k \in next : j <= k
              /\ Becomes(r, s, [m EXCEPT !.at = "choosing", !.cand = j, !.last = kind])
      \/ /\ kind \notin MayRotate \/ next = {}
         /\ Becomes(r, s, Ended(s, m, kind, bill))
  BY DEF Outcome
<1> HIDE DEF m, old
<1>7. \A i \in DOMAIN Ranked[s] :
        i <= m.cand => i \in m.tried \/ ProviderOf[Ranked[s][i]] \in m.gone
  <2> TAKE i \in DOMAIN Ranked[s]
  <2>1. i \in Nat
    BY <1>3
  <2>2. CASE i < old.cand
    BY <1>2, <1>6, <2>2 DEF Calling, Walked
  <2>3. CASE i = old.cand
    BY <1>2, <1>6, <2>3 DEF Calling
  <2> QED  BY <1>4, <1>6, <2>1, <2>2, <2>3
<1>8. m.cost > 0 \/ bill > 0 => m.allowed > 0
  <2>1. /\ bill > 0 => Estimate[Ranked[s][old.cand]] > 0
        /\ Estimate[Ranked[s][old.cand]] <= old.allowed
    BY <1>2 DEF Calling, old
  <2>2. old.cost > 0 => old.allowed > 0
    BY <1>1 DEF MemberOK
  <2>3. old.allowed \in Nat
    BY <1>1 DEF Members
  <2> QED  BY <1>5, <1>6, <2>1, <2>2, <2>3
<1>9. CASE /\ kind \in MayRotate
           /\ \E j \in next :
                /\ \A k \in next : j <= k
                /\ Becomes(r, s, [m EXCEPT !.at = "choosing", !.cand = j, !.last = kind])
  <2>1. PICK j \in next :
          /\ \A k \in next : j <= k
          /\ Becomes(r, s, [m EXCEPT !.at = "choosing", !.cand = j, !.last = kind])
    BY <1>9
  <2> DEFINE n == [m EXCEPT !.at = "choosing", !.cand = j, !.last = kind]
  <2>2. j \in DOMAIN Ranked[s] /\ j > m.cand /\ ProviderOf[Ranked[s][j]] \notin m.gone
    BY DEF Following
  <2>3. j \in Nat
    BY <1>3, <2>2
  <2>4. /\ n \in Members /\ n.at = "choosing" /\ n.cand = j /\ n.try = m.try
        /\ n.gone = m.gone /\ n.tried = m.tried /\ n.cost = m.cost
        /\ n.allowed = m.allowed
    <3>1. "choosing" \in Places /\ kind \in Kinds \cup {"none"}
      BY <1>5 DEF Places
    <3> QED  BY <1>6, <2>3, <3>1 DEF Members
  <2>5. Walked(s, n, j)
    <3> SUFFICES ASSUME NEW i \in DOMAIN Ranked[s], i < j, i > m.cand
                 PROVE  ProviderOf[Ranked[s][i]] \in m.gone
      BY <1>3, <1>4, <1>6, <1>7, <2>4 DEF Walked
    <3>1. i \notin next
      BY <1>3, <2>1, <2>3
    <3> QED  BY <3>1 DEF Following
  <2>6. \A i \in n.tried : i < j
    <3>1. m.tried \subseteq Nat /\ m.cand \in Nat
      BY <1>6 DEF Members
    <3> QED  BY <1>2, <1>6, <2>2, <2>3, <2>4, <3>1 DEF Calling
  <2>7. Choosing(s, n)
    BY <2>2, <2>4, <2>5, <2>6 DEF Choosing
  <2>8. MemberOK(s, n)
    BY <1>2, <1>6, <1>8, <2>4, <2>7 DEF MemberOK
  <2> QED  BY <1>6, <2>1, <2>4, <2>8 DEF Moved, Becomes, old
<1>10. CASE /\ kind \notin MayRotate \/ next = {}
            /\ Becomes(r, s, Ended(s, m, kind, bill))
  <2>1. kind \in Retryable =>
          \A j \in DOMAIN Ranked[s] :
            j \in m.tried \/ ProviderOf[Ranked[s][j]] \in m.gone
    <3> SUFFICES ASSUME kind \in Retryable, NEW j \in DOMAIN Ranked[s], j > m.cand
                 PROVE  ProviderOf[Ranked[s][j]] \in m.gone
      BY <1>3, <1>4, <1>6, <1>7
    <3>1. next = {}
      BY <1>10 DEF Retryable, MayRotate
    <3> QED  BY <3>1 DEF Following
  <2>2. /\ Ended(s, m, kind, bill) \in Members
        /\ MemberOK(s, Ended(s, m, kind, bill))
        /\ Ended(s, m, kind, bill).allowed = m.allowed
    <3>1. m.try \in 1 .. MaxAttempts[s]
      BY <1>2, <1>6
    <3> QED  BY <1>5, <1>6, <1>8, <2>1, <3>1, EndedOK
  <2> QED  BY <1>6, <1>10, <2>2 DEF Moved, Becomes, old
<1> QED  BY <1>0, <1>9, <1>10

(* A member's move, an exception included, changes that member alone, and     *)
(* starts from a place where it is neither done nor absent.                   *)
LEMMA MemberMoves ==
  ASSUME TypeOK, MembersOK, NEW r \in Runs, NEW s \in Steps,
         MemberStep(r, s) \/ Raise(r, s)
  PROVE  /\ member[r][s].at \notin {"none", "done", "raised"}
         /\ \E m \in Members : Moved(r, s, m)
<1> DEFINE old == member[r][s]
<1>1. old \in Members /\ MemberOK(s, old)
  BY DEF TypeOK, MembersOK
<1>2. CASE Enter(r, s) \/ Retry(r, s)
  <2>1. /\ Attempting(old) \in Members
        /\ MemberOK(s, Attempting(old))
        /\ Attempting(old).allowed = old.allowed
    BY <1>1, <1>2, AttemptingOK DEF Enter, Retry
  <2> QED  BY <1>2, <2>1 DEF Enter, Retry, Becomes, Moved
<1>3. ASSUME NEW kind \in {"no_model", "budget_exceeded"}, old.at = "choosing",
             Becomes(r, s, Ended(s, old, kind, 0))
      PROVE  \E m \in Members : Moved(r, s, m)
  <2>1. kind \in Kinds /\ kind \notin Retryable
    BY <1>3 DEF Kinds, Retryable
  <2>2. old.try \in 1 .. MaxAttempts[s] /\ (old.cost > 0 => old.allowed > 0)
    BY <1>1, <1>3 DEF MemberOK
  <2>3. /\ Ended(s, old, kind, 0) \in Members
        /\ MemberOK(s, Ended(s, old, kind, 0))
        /\ Ended(s, old, kind, 0).allowed = old.allowed
    BY <1>1, <2>1, <2>2, EndedOK
  <2> QED  BY <1>3, <2>3 DEF Becomes, Moved
<1>4. CASE NoModel(r, s) \/ TooDear(r, s)
  BY <1>3, <1>4 DEF NoModel, TooDear
<1>5. CASE Call(r, s)
  <2> DEFINE n == [old EXCEPT !.at = "calling", !.tried = @ \cup {old.cand}]
  <2>1. Choosing(s, old) /\ old.try \in 1 .. MaxAttempts[s]
    BY <1>1, <1>5 DEF Call, MemberOK
  <2>2. /\ n \in Members /\ n.at = "calling" /\ n.tried = old.tried \cup {old.cand}
        /\ n.cand = old.cand /\ n.gone = old.gone /\ n.try = old.try
        /\ n.cost = old.cost /\ n.allowed = old.allowed
    <3>1. "calling" \in Places /\ old.tried \cup {old.cand} \in SUBSET Nat
      BY <1>1 DEF Places, Members
    <3> QED  BY <1>1, <3>1 DEF Members
  <2>3. old.cand \in Nat
    BY <1>1 DEF Members
  <2>4. Calling(s, n)
    <3>1. old.cand \in DOMAIN Ranked[s]
      BY <1>5, <2>1 DEF Call, Choosing
    <3>2. Walked(s, n, n.cand)
      BY <2>1, <2>2 DEF Choosing, Walked
    <3>3. \A j \in n.tried : j <= n.cand
      <4>1. old.tried \subseteq Nat
        BY <1>1 DEF Members
      <4> QED  BY <2>1, <2>2, <2>3, <4>1 DEF Choosing
    <3>4. Estimate[Ranked[s][old.cand]] <= old.allowed
      BY <1>5 DEF Call, Affordable
    <3> HIDE DEF n, old
    <3> QED  BY <2>2, <3>1, <3>2, <3>3, <3>4 DEF Calling
  <2>5. MemberOK(s, n)
    BY <1>1, <2>1, <2>2, <2>4 DEF MemberOK
  <2> QED  BY <1>5, <2>2, <2>5 DEF Call, Becomes, Moved
<1>6. CASE Answer(r, s) \/ Fail(r, s)
  <2>1. old.at = "calling" /\ Calling(s, old)
    BY <1>1, <1>6 DEF Answer, Fail, MemberOK
  <2> DEFINE model == Ranked[s][old.cand]
  <2>2. model \in Models
    BY <2>1, ExecutionAssumption DEF Calling
  <2>4. /\ Estimate[model] \in Nat /\ Bills[model] \subseteq Nat
        /\ Estimate[model] = 0 => Bills[model] \subseteq {0}
    <3> HIDE DEF model
    <3> QED BY <2>2, ExecutionAssumption
  <2>5. \A bill \in Bills[model] : bill \in Nat /\ (bill > 0 => Estimate[model] > 0)
    <3> HIDE DEF model
    <3> QED BY <2>4
  <2>3. PICK kind \in ProviderErrors \cup Answers, bill \in Nat :
          (bill > 0 => Estimate[model] > 0) /\ Outcome(r, s, kind, bill)
    <3>1. CASE Answer(r, s)
      BY <2>5, <3>1 DEF Answer
    <3>2. CASE Fail(r, s)
      BY <3>2 DEF Fail
    <3> QED BY <1>6, <3>1, <3>2
  <2> QED  BY <2>1, <2>3, OutcomeOK
<1>7. CASE Raise(r, s)
  <2> DEFINE n == [old EXCEPT !.at = "raised"]
  <2>1. /\ n \in Members /\ n.at = "raised" /\ n.cost = old.cost /\ n.allowed = old.allowed
    <3>1. "raised" \in Places
      BY DEF Places
    <3> QED  BY <1>1, <3>1 DEF Members
  <2>2. MemberOK(s, n)
    BY <1>1, <2>1 DEF MemberOK
  <2> QED  BY <1>7, <2>1, <2>2 DEF Raise, Becomes, Moved
<1>8. old.at \notin {"none", "done", "raised"}
  BY DEF MemberStep, Enter, Retry, NoModel, TooDear, Call, Answer, Fail, Raise
<1> QED  BY <1>2, <1>4, <1>5, <1>6, <1>7, <1>8 DEF MemberStep

-----------------------------------------------------------------------------
(* The invariant. *)

LEMMA MonusMinus ==
  ASSUME NEW a \in Nat, NEW b \in Nat, NEW c \in Nat
  PROVE  Monus(a, b) \in Nat /\ Monus(Monus(a, b), c) = Monus(a, b + c)
  BY DEF Monus

LEMMA InitIInv == Init => IInv
<1> SUFFICES ASSUME Init PROVE IInv
  OBVIOUS
<1>1. NoMember \in Members /\ \A s \in Steps : MemberOK(s, NoMember)
  <2>1. "none" \in Places /\ "none" \in Kinds \cup {"none"}
    BY DEF Places
  <2>2. NoMember \in Members
    BY <2>1 DEF NoMember, Members
  <2> QED  BY <2>2 DEF NoMember, MemberOK
<1>2. TypeOK
  <2>1. db \in Records
    BY DEF Init, Records
  <2> QED  BY <1>1, <2>1, ExecutionAssumption DEF Init, TypeOK
<1>3. MembersOK
  BY <1>1 DEF Init, MembersOK
<1>4. LedgerOK
  BY DEF Init, LedgerOK, OwnRun, Synced, Remainder, Allowance
<1> QED  BY <1>2, <1>3, <1>4 DEF IInv

(* The members of one run, all set at once, keep the invariant of members.    *)
LEMMA NextMembers ==
  ASSUME IInv, [Next]_vars
  PROVE  member' \in [Runs -> [Steps -> Members]] /\ MembersOK'
<1>0. member \in [Runs -> [Steps -> Members]] /\ MembersOK
  BY DEF IInv, TypeOK
<1>1. NoMember \in Members /\ \A s \in Steps : MemberOK(s, NoMember)
  <2>1. "none" \in Places /\ "none" \in Kinds \cup {"none"}
    BY DEF Places
  <2>2. NoMember \in Members
    BY <2>1 DEF NoMember, Members
  <2> QED  BY <2>2 DEF NoMember, MemberOK
<1>2. ASSUME NEW r \in Runs, NEW s \in Steps, MemberStep(r, s) \/ Raise(r, s)
      PROVE  member' \in [Runs -> [Steps -> Members]] /\ MembersOK'
  <2>1. PICK m \in Members : Moved(r, s, m)
    BY <1>2, MemberMoves DEF IInv
  <2> QED  BY <1>0, <2>1 DEF Moved, MembersOK
<1>3. CASE UNCHANGED member
  BY <1>0, <1>3 DEF MembersOK
<1>4. CASE Dispatch
  <2> DEFINE n == [NoMember EXCEPT !.at = "waiting", !.allowed = remaining]
  <2>1. n \in Members /\ \A s \in Steps : MemberOK(s, n)
    <3>1. "waiting" \in Places /\ remaining \in Nat
      BY DEF IInv, TypeOK, Places
    <3>2. n \in Members
      BY <1>1, <3>1 DEF Members
    <3>3. n.at = "waiting" /\ n.try = 0 /\ n.cost = 0
      BY DEF NoMember
    <3> QED  BY <3>2, <3>3 DEF MemberOK
  <2>2. PICK b \in SUBSET Steps :
          member' = [member EXCEPT ![run] = [s \in Steps |-> IF s \in b THEN n ELSE NoMember]]
    BY <1>4 DEF Dispatch
  <2> HIDE DEF n
  <2> QED  BY <1>0, <1>1, <2>1, <2>2 DEF MembersOK
<1>5. CASE Commit \/ Die
  <2>1. \/ member' = [member EXCEPT ![run] = [s \in Steps |-> NoMember]]
        \/ member' = [r \in Runs |-> [s \in Steps |-> NoMember]]
    BY <1>5 DEF Commit, Die
  <2> QED  BY <1>0, <1>1, <2>1 DEF MembersOK
<1>6. CASE StartRun \/ Leave \/ Gathered \/ RollBack \/ \E s \in Steps : Record(s)
  BY <1>3, <1>6 DEF StartRun, Leave, Gathered, RollBack, Record
<1>7. CASE UNCHANGED vars
  BY <1>3, <1>7 DEF vars
<1> QED  BY <1>2, <1>4, <1>5, <1>6, <1>7 DEF Next

(* The rest of the type, and the ledger, action by action.                    *)
LEMMA NextIInv == IInv /\ [Next]_vars => IInv'
<1> SUFFICES ASSUME IInv, [Next]_vars PROVE IInv'
  OBVIOUS
<1> USE DEF loop, bounds
<1>0. member' \in [Runs -> [Steps -> Members]] /\ MembersOK'
  BY NextMembers
<1>T. TypeOK /\ MembersOK /\ LedgerOK
  BY DEF IInv
<1>1. ASSUME NEW r \in Runs, NEW s \in Steps, MemberStep(r, s)
      PROVE  TypeOK' /\ LedgerOK'
  <2>1. UNCHANGED <<pc, run, remaining, batch, todo, tx, db, batches, faults>>
    BY <1>1 DEF MemberStep, Enter, Retry, NoModel, TooDear, Call, Answer, Fail, OnlyMembers
  <2>2. TypeOK'
    BY <1>0, <1>T, <2>1 DEF TypeOK
  <2>3. member[r][s].at \notin {"none", "done", "raised"}
        /\ \E m \in Members : Moved(r, s, m)
    BY <1>1, <1>T, MemberMoves
  <2>4. \A q \in Runs, t \in Steps :
          /\ member'[q][t].allowed = member[q][t].allowed
          /\ member[q][t].at = "done" => member'[q][t] = member[q][t]
    BY <1>T, <2>3 DEF TypeOK, Moved
  <2>5. LedgerOK'
    BY <1>T, <2>1, <2>4 DEF TypeOK, LedgerOK, OwnRun, Synced, Remainder, Allowance, Written
  <2> QED  BY <2>2, <2>5
<1>2. ASSUME NEW r \in Runs, NEW s \in Steps, Raise(r, s)
      PROVE  TypeOK' /\ LedgerOK'
  <2>1. faults' \in Nat /\ UNCHANGED <<run, remaining, todo, tx, db, batches>>
    BY <1>2, <1>T DEF Raise, TypeOK
  <2>2. member[r][s].at \notin {"none", "done", "raised"}
        /\ \E m \in Members : Moved(r, s, m)
    BY <1>2, <1>T, MemberMoves
  <2>3. \A q \in Runs, t \in Steps :
          /\ member'[q][t].allowed = member[q][t].allowed
          /\ member[q][t].at = "done" => member'[q][t] = member[q][t]
    BY <1>T, <2>2 DEF TypeOK, Moved
  <2>4. CASE r = run /\ pc = "calling"
    <3>1. pc' = "idle" /\ batch' = {} /\ todo = {}
      BY <1>2, <1>T, <2>4 DEF Raise, LedgerOK, Synced
    <3> QED  BY <1>0, <1>T, <2>1, <2>4, <3>1 DEF TypeOK, LedgerOK, OwnRun, Synced, Remainder, Allowance, Written
  <2>5. CASE ~(r = run /\ pc = "calling")
    <3>1. UNCHANGED <<pc, batch>>
      BY <1>2, <2>5 DEF Raise
    <3> QED  BY <1>0, <1>T, <2>1, <2>3, <3>1 DEF TypeOK, LedgerOK, OwnRun, Synced, Remainder, Allowance, Written
  <2> QED  BY <2>4, <2>5
<1>3. CASE StartRun
  <2>1. Monus(Budget, db.total) \in Nat /\ run + 1 \in Runs
    BY <1>3, <1>T, ExecutionAssumption DEF StartRun, TypeOK, Records, Monus, Runs
  <2>2. TypeOK'
    BY <1>0, <1>3, <1>T, <2>1, ExecutionAssumption DEF StartRun, TypeOK, Runs
  <2> QED  BY <1>0, <1>3, <1>T, <2>1, <2>2 DEF StartRun, LedgerOK, OwnRun, Synced, Remainder, Allowance, IInv
<1>4. CASE Dispatch
  <2>1. TypeOK'
    BY <1>0, <1>4, <1>T DEF Dispatch, TypeOK, LedgerOK, Synced
  <2>2. run \in Runs /\ remaining = Monus(Budget, db.total)
    BY <1>4, <1>T DEF Dispatch, LedgerOK, OwnRun, Remainder
  <2>3. \A s \in batch' : member'[run][s].allowed = remaining
    <3>1. PICK b \in SUBSET Steps :
            /\ batch' = b
            /\ member' = [member EXCEPT ![run] =
                 [s \in Steps |-> IF s \in b
                    THEN [NoMember EXCEPT !.at = "waiting", !.allowed = remaining]
                    ELSE NoMember]]
      BY <1>4 DEF Dispatch
    <3>2. [NoMember EXCEPT !.at = "waiting", !.allowed = remaining].allowed = remaining
      BY DEF NoMember
    <3> QED  BY <1>T, <2>2, <3>1, <3>2 DEF TypeOK
  <2> QED  BY <1>0, <1>4, <1>T, <2>1, <2>2, <2>3 DEF Dispatch, LedgerOK, OwnRun, Synced, Remainder, Allowance, IInv
<1>5. CASE Leave
  <2>1. TypeOK'
    BY <1>0, <1>5, <1>T DEF Leave, TypeOK
  <2> QED  BY <1>0, <1>5, <1>T, <2>1 DEF Leave, LedgerOK, OwnRun, Synced, Remainder, Allowance, IInv
<1>6. CASE Gathered
  <2>1. TypeOK'
    BY <1>0, <1>6, <1>T DEF Gathered, TypeOK
  <2>2. Written'
    BY <1>6, <1>T DEF Gathered, TypeOK, LedgerOK, Synced, Remainder, Records, Written
  <2> QED  BY <1>0, <1>6, <1>T, <2>1, <2>2 DEF Gathered, LedgerOK, OwnRun, Synced, Remainder, Allowance, IInv
<1>7. ASSUME NEW s \in Steps, Record(s)
      PROVE  TypeOK' /\ LedgerOK'
  <2> DEFINE m == member[run][s]
  <2>1. /\ pc = "recording" /\ run \in Runs /\ s \in todo /\ s \in batch /\ Written
        /\ m \in Members /\ m.at = "done" /\ m.allowed = Monus(Budget, db.total)
        /\ m.cost > 0 => m.allowed > 0
    BY <1>7, <1>T DEF Record, LedgerOK, OwnRun, Allowance, Written, TypeOK, MembersOK, MemberOK
  <2>2. m.cost \in Nat /\ m.try \in Nat
    BY <2>1 DEF Members
  <2>3. db.total \in Nat /\ tx.total \in Nat /\ Budget \in Nat
    BY <1>T, ExecutionAssumption DEF TypeOK, Records
  <2>4. /\ tx'.total = tx.total + m.cost
        /\ \A t \in Steps :
             /\ tx'.attempts[t] = IF t = s THEN tx.attempts[t] + m.try ELSE tx.attempts[t]
             /\ tx'.verdict[t] = IF t = s THEN (IF m.last = "succeeded" THEN "succeeded"
                                                                     ELSE "failed")
                                 ELSE tx.verdict[t]
        /\ tx' \in Records
    <3>1. tx' = [tx EXCEPT !.total = @ + m.cost,
                           !.attempts[s] = @ + m.try,
                           !.verdict[s] = IF m.last = "succeeded" THEN "succeeded" ELSE "failed"]
      BY <1>7 DEF Record
    <3> HIDE DEF m
    <3>2. tx \in Records
      BY <1>T DEF TypeOK
    <3> DEFINE v == IF m.last = "succeeded" THEN "succeeded" ELSE "failed"
    <3>3. v \in {"none", "succeeded", "failed"}
      OBVIOUS
    <3> HIDE DEF v
    <3>4. tx'.total = tx.total + m.cost
      BY <3>1, <3>2 DEF Records
    <3>5. tx'.attempts = [tx.attempts EXCEPT ![s] = @ + m.try]
      BY <3>1, <3>2 DEF Records
    <3>6. tx'.verdict = [tx.verdict EXCEPT ![s] = v]
      BY <3>1, <3>2 DEF Records, v
    <3>7. tx' = [total |-> tx'.total, verdict |-> tx'.verdict, attempts |-> tx'.attempts]
      BY <3>1, <3>2 DEF Records
    <3>8. /\ tx.attempts \in [Steps -> Nat] /\ tx.total \in Nat
          /\ tx.verdict \in [Steps -> {"none", "succeeded", "failed"}]
      BY <3>2 DEF Records
    <3>9. tx' \in Records
      <4>1. tx'.total \in Nat
        BY <2>2, <3>4, <3>8
      <4>2. tx'.attempts \in [Steps -> Nat]
        BY <2>2, <3>5, <3>8
      <4>3. tx'.verdict \in [Steps -> {"none", "succeeded", "failed"}]
        BY <3>3, <3>6, <3>8
      <4> QED  BY <3>7, <4>1, <4>2, <4>3 DEF Records
    <3>10. \A t \in Steps :
             /\ tx'.attempts[t] = IF t = s THEN tx.attempts[t] + m.try ELSE tx.attempts[t]
             /\ tx'.verdict[t] = IF t = s THEN v ELSE tx.verdict[t]
      BY <3>5, <3>6, <3>8
    <3> QED  BY <3>4, <3>9, <3>10 DEF v
  <2>5. /\ UNCHANGED <<pc, run, batch, member, db, batches, faults>>
        /\ todo' = todo \ {s}
        /\ remaining' = Monus(remaining, m.cost)
    BY <1>7 DEF Record
  <2> HIDE DEF m
  <2>6. remaining' = Monus(Budget, tx'.total)
    <3>1. remaining = Monus(Budget, tx.total)
      BY <2>1 DEF Written
    <3>2. Monus(Monus(Budget, tx.total), m.cost) = Monus(Budget, tx.total + m.cost)
      <4>1. Budget \in Nat /\ tx.total \in Nat /\ m.cost \in Nat
        BY <2>2, <2>3
      <4> QED  BY <4>1 DEF Monus
    <3>3. remaining' = Monus(Monus(Budget, tx.total), m.cost)
      BY <2>5, <3>1
    <3>4. tx'.total = tx.total + m.cost
      BY <2>4
    <3> QED  BY <3>2, <3>3, <3>4
  <2>7. TypeOK'
    <3>1. remaining' \in Nat
      <4>1. tx.total + m.cost \in Nat
        BY <2>2, <2>3
      <4>2. Monus(Budget, tx.total + m.cost) \in Nat
        BY <2>3, <4>1 DEF Monus
      <4> QED  BY <2>4, <2>6, <4>2
    <3> QED  BY <1>0, <1>T, <2>4, <2>5, <3>1 DEF TypeOK
  <2>8. (tx'.total > db'.total => db'.total < Budget) /\ tx'.total >= db'.total
    BY <2>1, <2>2, <2>3, <2>4, <2>5 DEF Written, Monus
  <2>9. \A t \in batch \ todo' :
          /\ tx'.attempts[t] = db.attempts[t] + member[run][t].try
          /\ tx'.verdict[t] = IF member[run][t].last = "succeeded"
                                THEN "succeeded" ELSE "failed"
    BY <1>T, <2>1, <2>4, <2>5 DEF Written, TypeOK, m
  <2>10. \A t \in (Steps \ batch) \cup todo' :
           tx'.attempts[t] = db.attempts[t] /\ tx'.verdict[t] = db.verdict[t]
    BY <1>T, <2>1, <2>4, <2>5 DEF Written, TypeOK
  <2>11. Written'
    BY <2>1, <2>5, <2>6, <2>8, <2>9, <2>10 DEF Written
  <2>12. OwnRun' /\ Synced' /\ Remainder' /\ Allowance'
    BY <1>T, <2>1, <2>5 DEF LedgerOK, OwnRun, Synced, Remainder, Allowance
  <2> QED  BY <2>7, <2>11, <2>12 DEF LedgerOK
<1>8. CASE Commit
  <2>1. TypeOK'
    BY <1>0, <1>8, <1>T DEF Commit, TypeOK
  <2>2. LedgerOK'
    BY <1>8, <1>T DEF Commit, LedgerOK, OwnRun, Synced, Remainder, Allowance, Written
  <2> QED  BY <1>0, <2>1, <2>2 DEF IInv
<1>9. CASE RollBack \/ Die
  <2>1. TypeOK'
    BY <1>0, <1>9, <1>T DEF RollBack, Die, TypeOK
  <2> QED  BY <1>0, <1>9, <1>T, <2>1 DEF RollBack, Die, LedgerOK, OwnRun, Synced, Remainder, Allowance, IInv
<1>10. CASE UNCHANGED vars
  <2>1. TypeOK'
    BY <1>0, <1>10, <1>T DEF vars, TypeOK
  <2> QED  BY <1>0, <1>10, <1>T, <2>1 DEF vars, LedgerOK, OwnRun, Synced, Remainder, Allowance, Written, IInv
<1> QED  BY <1>0, <1>1, <1>2, <1>3, <1>4, <1>5, <1>6, <1>7, <1>8, <1>9, <1>10 DEF Next, IInv

LEMMA Invariant == Spec => []IInv
<1>1. Init => IInv
  BY InitIInv
<1>2. IInv /\ [Next]_vars => IInv'
  BY NextIInv
<1> QED  BY <1>1, <1>2, PTL DEF Spec

-----------------------------------------------------------------------------
(* The results. *)

(* Every variable keeps its type, for every ranking, price and bound.        *)
THEOREM ExecutionTypeCorrect == Spec => []TypeOK
<1>1. IInv => TypeOK
  BY DEF IInv
<1> QED  BY <1>1, Invariant, PTL

(* _attempt_node and execute() give up for a reason another try could mend   *)
(* only after every attempt, and after the whole ranking in the last.        *)
THEOREM NoModelLeftOutHolds == Spec => []NoModelLeftOut
<1>1. IInv => NoModelLeftOut
  BY DEF IInv, MembersOK, MemberOK, Done, NoModelLeftOut
<1> QED  BY <1>1, Invariant, PTL

(* execute() calls no model twice in one attempt, and none of a vendor that  *)
(* it found to be down.                                                      *)
THEOREM NoRecallHolds == Spec => NoRecall
<1> DEFINE A == \A r \in Runs, s \in Steps :
                  LET m == member[r][s]
                  IN  m.at = "choosing" /\ member'[r][s].at = "calling" =>
                        /\ m.cand \notin m.tried
                        /\ ProviderOf[Ranked[s][m.cand]] \notin m.gone
<1>1. IInv /\ [Next]_vars => [A]_vars
  <2> SUFFICES ASSUME IInv, Next, NEW r \in Runs, NEW s \in Steps,
                      member[r][s].at = "choosing", member'[r][s].at = "calling"
               PROVE  /\ member[r][s].cand \notin member[r][s].tried
                      /\ ProviderOf[Ranked[s][member[r][s].cand]] \notin member[r][s].gone
    OBVIOUS
  <2>1. Choosing(s, member[r][s]) /\ member[r][s] \in Members
    BY DEF IInv, TypeOK, MembersOK, MemberOK
  <2>2. member[r][s].cand \notin member[r][s].tried
    BY <2>1 DEF Choosing, Members
  <2>3. Ranked[s] # <<>>
    <3>1. member'[r][s].cand \in DOMAIN Ranked[s]
      BY NextMembers DEF MembersOK, MemberOK, Calling
    <3> QED  BY <3>1
  <2> QED  BY <2>1, <2>2, <2>3 DEF Choosing
<1> QED  BY <1>1, Invariant, PTL DEF Spec, NoRecall

(* record_execution adds spend to the workflow only if what was on record     *)
(* was below the budget: the overshoot is that of a single batch, however     *)
(* often the run crashed and was resumed.                                     *)
THEOREM BudgetHeldAlways == Spec => BudgetHeld
<1>1. IInv /\ [Next]_vars => [db'.total > db.total => db.total < Budget]_vars
  <2> SUFFICES ASSUME IInv, Next, db'.total > db.total
               PROVE  db.total < Budget
    OBVIOUS
  <2>1. db.total \in Nat
    BY DEF IInv, TypeOK, Records
  <2>2. db' # db
    BY <2>1
  <2>3. Commit
    <3>1. ASSUME NEW r \in Runs, NEW s \in Steps, MemberStep(r, s) PROVE UNCHANGED db
      BY <3>1 DEF MemberStep, Enter, Retry, NoModel, TooDear, Call, Answer, Fail, OnlyMembers
    <3>2. ASSUME NEW r \in Runs, NEW s \in Steps, Raise(r, s) PROVE UNCHANGED db
      BY <3>2 DEF Raise
    <3>3. ASSUME NEW s \in Steps, Record(s) PROVE UNCHANGED db
      BY <3>3 DEF Record
    <3>4. ASSUME StartRun \/ Dispatch \/ Leave \/ Gathered \/ RollBack \/ Die
          PROVE  UNCHANGED db
      BY <3>4 DEF StartRun, Dispatch, Leave, Gathered, RollBack, Die
    <3> QED  BY <2>2, <3>1, <3>2, <3>3, <3>4 DEF Next
  <2> QED  BY <2>3 DEF Commit, IInv, LedgerOK, Written
<1> QED  BY <1>1, Invariant, PTL DEF Spec, BudgetHeld

(* The calls implement the batch WorkflowEngine relies on: dispatched, it is  *)
(* reported as a whole, each member after one to MaxAttempts attempts, or it  *)
(* is lost as a whole.                                                        *)
THEOREM ExecutionImplementsContract == Spec => ImplementsContract
<1> USE DEF loop, bounds
<1>1. Init => Contract!Init
  BY DEF Init, Contract!Init
<1>2. IInv /\ [Next]_vars => [Contract!Next]_(Contract!vars)
  <2> SUFFICES ASSUME IInv, [Next]_vars
               PROVE  Contract!Next \/ UNCHANGED Contract!vars
    OBVIOUS
  <2>0. TypeOK /\ MembersOK /\ LedgerOK
    BY DEF IInv
  <2>1. ASSUME UNCHANGED <<pc, batch, db>> PROVE UNCHANGED Contract!vars
    BY <2>1 DEF Contract!vars
  <2>2. ASSUME NEW r \in Runs, NEW s \in Steps, MemberStep(r, s)
        PROVE  UNCHANGED <<pc, batch, db>>
    BY <2>2 DEF MemberStep, Enter, Retry, NoModel, TooDear, Call, Answer, Fail, OnlyMembers
  <2>3. ASSUME NEW s \in Steps, Record(s) PROVE UNCHANGED <<pc, batch, db>>
    BY <2>3 DEF Record
  <2>4. ASSUME NEW r \in Runs, NEW s \in Steps, Raise(r, s)
        PROVE  Contract!Lose \/ UNCHANGED <<pc, batch, db>>
    BY <2>4 DEF Raise, Contract!Lose
  <2>5. StartRun => Contract!Start
    BY DEF StartRun, Contract!Start
  <2>6. Dispatch => Contract!Dispatch
    BY DEF Dispatch, Contract!Dispatch
  <2>7. Leave /\ batch = {} => Contract!Lose
    BY DEF Leave, Contract!Lose
  <2>8. Gathered => UNCHANGED Contract!vars
    BY DEF Gathered, Contract!vars
  <2>9. RollBack \/ (Die /\ pc # "idle") => Contract!Lose
    BY DEF RollBack, Die, Contract!Lose
  <2>10. ASSUME Commit PROVE Contract!Report
    <3>1. /\ pc = "recording" /\ todo = {} /\ run \in Runs /\ Written
          /\ db' = tx /\ batch' = {}
          /\ pc' = IF \A s \in batch : member[run][s].last = "succeeded" THEN "loop" ELSE "idle"
      BY <2>0, <2>10 DEF Commit, LedgerOK, OwnRun
    <3>2. batch \subseteq Steps /\ db \in Records /\ tx \in Records
      BY <2>0 DEF TypeOK
    <3>3. \A s \in batch : member[run][s].try \in 1 .. MaxAttempts[s]
      BY <2>0, <3>1, <3>2 DEF MembersOK, MemberOK, Written
    <3> DEFINE ok == {s \in batch : member[run][s].last = "succeeded"}
    <3>4. db'.verdict = [s \in Steps |-> IF s \in ok THEN "succeeded"
                                         ELSE IF s \in batch THEN "failed"
                                         ELSE db.verdict[s]]
      BY <3>1, <3>2 DEF Written, Records
    <3>5. db'.attempts \in [Steps -> Nat]
      BY <3>1, <3>2 DEF Records
    <3>6. \A s \in batch : \E made \in 1 .. MaxAttempts[s] :
            db'.attempts[s] = db.attempts[s] + made
      BY <3>1, <3>2, <3>3 DEF Written
    <3>7. \A s \in Steps \ batch : db'.attempts[s] = db.attempts[s]
      BY <3>1 DEF Written
    <3>8. pc' = IF ok = batch THEN "loop" ELSE "idle"
      BY <3>1
    <3> QED  BY <3>1, <3>4, <3>5, <3>6, <3>7, <3>8 DEF Contract!Report
  <2>11. Die /\ pc = "idle" => UNCHANGED <<pc, batch, db>>
    BY <2>0 DEF Die, LedgerOK, Synced
  <2>12. Leave => batch = {}
    BY <2>0 DEF Leave, LedgerOK, Synced
  <2>13. CASE UNCHANGED vars
    BY <2>1, <2>13 DEF vars
  <2>14. CASE Next
    <3>1. CASE \E r \in Runs, s \in Steps : MemberStep(r, s) \/ Raise(r, s)
      BY <2>1, <2>2, <2>4, <3>1 DEF Contract!Next
    <3>2. CASE \E s \in Steps : Record(s)
      BY <2>1, <2>3, <3>2
    <3>3. CASE Die
      BY <2>1, <2>9, <2>11, <3>3 DEF Contract!Next
    <3>4. CASE StartRun \/ Dispatch \/ Leave \/ Gathered \/ Commit \/ RollBack
      BY <2>5, <2>6, <2>7, <2>8, <2>9, <2>10, <2>12, <3>4 DEF Contract!Next
    <3> QED  BY <2>14, <3>1, <3>2, <3>3, <3>4 DEF Next
  <2> QED  BY <2>13, <2>14
<1> QED  BY <1>1, <1>2, Invariant, PTL DEF Spec, ImplementsContract, Contract!Spec

=============================================================================
