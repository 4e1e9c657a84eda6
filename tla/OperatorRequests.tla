-------------------------- MODULE OperatorRequests --------------------------
(***************************************************************************)
(* What stands before a handler and what accounts own: Google sign-in with *)
(* versioned sessions, the rate counter in Redis and the rolling budget,   *)
(* files with their rows, and the deletion of an account                   *)
(* (api/dependencies.py, api/routes/auth.py, files.py and network.py,      *)
(* core/identity.py, core/google_auth.py, services/abuse_limits.py,        *)
(* file_generation.py).                                                    *)
(*                                                                         *)
(* A request identifies its caller in a session of its own, then asks      *)
(* Redis and the ledger, then runs its handler in another session, which   *)
(* is committed after the handler; others run between any two of these.    *)
(* A file is on disk at once, its row only with the commit, and a restart  *)
(* of the process may lose the disk and never the rows.                    *)
(***************************************************************************)
EXTENDS Integers, FiniteSets

CONSTANTS
  Subs,        \* Google accounts
  Emails,
  Runners,     \* accounts that start runs
  Files,       \* ids of artifacts of kind file
  Slots,       \* requests at a time
  RateLimit,   \* settings.rate_limit_requests
  Window,      \* ticks of settings.rate_limit_window_seconds
  Cap,         \* settings.operator_budget_usd, in costs of a run
  MaxVersion,  \* bound: session version
  MaxCalls,    \* bound: requests other than starting runs
  MaxRunning,  \* bound: runs of an account not yet recorded
  MaxFaults    \* bound: failed Redis commands, failed commits, restarts

None == "none"

ASSUME RequestAssumption ==
  /\ Runners \subseteq Subs /\ None \notin Subs /\ None \notin Files
  /\ RateLimit \in Nat \ {0} /\ Window \in Nat \ {0} /\ Cap \in Nat \ {0}
  /\ MaxVersion \in Nat \ {0} /\ MaxCalls \in Nat
  /\ MaxRunning \in Nat \ {0} /\ MaxFaults \in Nat

VARIABLES
  users,     \* users, committed: account -> [email, version] or NoUser
  tokens,    \* session tokens handed out and not expired: [sub, version]
  owned,     \* artifacts, committed: the account each file's row is of, or None
  disk,      \* files on disk
  memories,  \* accounts with memories of their own
  counter,   \* Redis: account -> [count, left], left NoExpiry or ticks
  spent,     \* cost recorded in the budget's window: account -> runs
  running,   \* runs started and not yet recorded: account -> how many
  verdict,   \* account -> what its last request for a run met
  req,       \* requests under way
  posted,    \* history: rows made by POST /artifacts, which writes no file
  torn,      \* history: files whose request was not committed, or whose disk was lost
  made, faults

ledger == <<users, owned, memories>>
vars == <<users, tokens, owned, disk, memories, counter, spent, running, verdict, req,
          posted, torn, made, faults>>

NoUser == [email |-> None, version |-> 0]
NoExpiry == -1
NoKey == [count |-> 0, left |-> NoExpiry]

Kinds == {"login", "logout", "delete", "remember", "file", "post", "run"}
Stages == {"free", "identify", "incr", "expire", "ttl", "heal", "budget",
           "handle", "commit"}
Token == [sub : Subs, version : 1 .. MaxVersion]
Quiet == [at |-> "free", kind |-> "run", sub |-> CHOOSE s \in Subs : TRUE, version |-> 0,
          email |-> None, file |-> None, count |-> 0, user |-> NoUser, gone |-> {}]

Init ==
  /\ users = [s \in Subs |-> NoUser] /\ tokens = {}
  /\ owned = [f \in Files |-> None] /\ disk = {} /\ memories = {}
  /\ counter = [s \in Subs |-> NoKey]
  /\ spent = [s \in Subs |-> 0] /\ running = [s \in Subs |-> 0]
  /\ verdict = [s \in Subs |-> "none"]
  /\ req = [c \in Slots |-> Quiet]
  /\ posted = {} /\ torn = {} /\ made = 0 /\ faults = 0

Begin(c, first, r) ==
  /\ req[c].at = "free"
  /\ req' = [req EXCEPT ![c] = [r EXCEPT !.at = first]]
  /\ UNCHANGED <<ledger, tokens, disk, counter, spent, running, verdict, posted, torn,
                 faults>>
Counted == made < MaxCalls /\ made' = made + 1

Login(c) == \E s \in Subs, e \in Emails :
  /\ Counted /\ Begin(c, "handle", [Quiet EXCEPT !.kind = "login", !.sub = s, !.email = e])
(* Requests with a session token somebody was given.                        *)
Send(c, kind, t, f) ==
  Begin(c, "identify", [Quiet EXCEPT !.kind = kind, !.sub = t.sub, !.version = t.version,
                                     !.file = f])
Logout(c) == \E t \in tokens : Counted /\ Send(c, "logout", t, None)
DeleteAccount(c) == \E t \in tokens : Counted /\ Send(c, "delete", t, None)
WriteMemory(c) == \E t \in tokens :
  t.sub \notin memories /\ Counted /\ Send(c, "remember", t, None)

(* new_uuid: an id nothing has any trace of.                                *)
Fresh(f) ==
  /\ owned[f] = None /\ f \notin disk \cup torn
  /\ \A d \in Slots : f # req[d].file /\ f \notin req[d].gone
GenerateFile(c) == \E t \in tokens, f \in Files :
  Fresh(f) /\ Counted /\ Send(c, "file", t, f)
(* register, called by POST /artifacts: an owner nobody checks, no limits.  *)
PostArtifact(c) == \E s \in Subs, f \in Files :
  /\ Fresh(f) /\ Counted
  /\ Begin(c, "handle", [Quiet EXCEPT !.kind = "post", !.sub = s, !.file = f])
Asking(s) == {d \in Slots : req[d].at # "free" /\ req[d].kind = "run" /\ req[d].sub = s}
StartRun(c, s) == \E t \in tokens :
  /\ running[s] + Cardinality(Asking(s)) < MaxRunning
  /\ t.sub = s /\ Send(c, "run", t, None) /\ made' = made

Goes(c, from, to) ==
  req[c].at = from /\ req' = [req EXCEPT ![c] = to]
Answer(c, what) ==
  verdict' = IF req[c].kind = "run" THEN [verdict EXCEPT ![req[c].sub] = what] ELSE verdict

Valid(sub, version) == users[sub] # NoUser /\ users[sub].version = version

(* operator_from_session: the account is there and the token's version is   *)
(* its own.  Only changes that cost something pass the limits.              *)
Identify(c) ==
  LET me == req[c] IN
  /\ IF Valid(me.sub, me.version)
     THEN /\ Goes(c, "identify", [me EXCEPT !.at =
               IF me.kind \in {"file", "run"} THEN "incr" ELSE "handle"])
          /\ UNCHANGED verdict
     ELSE Goes(c, "identify", Quiet) /\ Answer(c, "signed_out")
  /\ UNCHANGED <<ledger, tokens, disk, counter, spent, running, posted, torn, made, faults>>

------------------------------- (* Limits *) --------------------------------

Limits == UNCHANGED <<ledger, tokens, disk, spent, running, posted, torn, made>>

(* _redis_hit, command by command: INCR, EXPIRE for the first of a window,  *)
(* TTL, and EXPIRE again where a counter turns out to have no expiry.       *)
Incr(c) ==
  LET me == req[c]
      n == IF counter[me.sub].count > RateLimit THEN RateLimit + 1
           ELSE counter[me.sub].count + 1
  IN /\ Goes(c, "incr", [me EXCEPT !.count = n, !.at = IF n = 1 THEN "expire" ELSE "ttl"])
     /\ counter' = [counter EXCEPT ![me.sub].count = n]
     /\ UNCHANGED <<verdict, faults>> /\ Limits

Expired(s) == IF counter[s].count = 0 THEN counter
              ELSE [counter EXCEPT ![s].left = Window]
Expire(c) ==
  /\ Goes(c, "expire", [req[c] EXCEPT !.at = "ttl"])
  /\ counter' = Expired(req[c].sub)
  /\ UNCHANGED <<verdict, faults>> /\ Limits

Judged(c) == IF req[c].count <= RateLimit THEN [req[c] EXCEPT !.at = "budget"] ELSE Quiet
Judge(c) == IF req[c].count <= RateLimit THEN UNCHANGED verdict ELSE Answer(c, "refused")

(* mutant: the expiry is looked at no more once the first of a window has   *)
(* set it                                                                   *)
TtlUnhealed(c) ==
  /\ Goes(c, "ttl", Judged(c)) /\ Judge(c)
  /\ UNCHANGED <<counter, faults>> /\ Limits

Ttl(c) ==
  /\ IF counter[req[c].sub].left = NoExpiry
     THEN Goes(c, "ttl", [req[c] EXCEPT !.at = "heal"]) /\ UNCHANGED verdict
     ELSE Goes(c, "ttl", Judged(c)) /\ Judge(c)
  /\ UNCHANGED <<counter, faults>> /\ Limits
Heal(c) ==
  /\ Goes(c, "heal", Judged(c)) /\ Judge(c)
  /\ counter' = Expired(req[c].sub)
  /\ UNCHANGED faults /\ Limits

(* A Redis command fails, before or after it took effect: let in unjudged.  *)
RedisFails(c) ==
  /\ faults < MaxFaults /\ faults' = faults + 1
  /\ req[c].at \in {"incr", "expire", "ttl", "heal"}
  /\ req' = [req EXCEPT ![c] = [@ EXCEPT !.at = "budget"]]
  /\ counter' \in {counter} \cup
       (IF req[c].at = "incr"
        THEN {[counter EXCEPT ![req[c].sub].count = IF @ > RateLimit THEN @ ELSE @ + 1]} ELSE {})
  /\ UNCHANGED verdict /\ Limits

(* check_budget: what is recorded so far, not what is running.              *)
Budget(c) ==
  /\ IF spent[req[c].sub] < Cap
     THEN Goes(c, "budget", [req[c] EXCEPT !.at = "handle"]) /\ UNCHANGED verdict
     ELSE Goes(c, "budget", Quiet) /\ Answer(c, "refused")
  /\ UNCHANGED <<counter, faults>> /\ Limits

(* Time passes: counters run out, executions leave the budget's window.     *)
Tick ==
  /\ \E s \in Subs : counter[s].left # NoExpiry \/ spent[s] > 0
  /\ counter' = [s \in Subs |->
       IF counter[s].left = NoExpiry THEN counter[s]
       ELSE IF counter[s].left = 1 THEN NoKey ELSE [counter[s] EXCEPT !.left = @ - 1]]
  /\ spent' = [s \in Subs |-> IF spent[s] = 0 THEN 0 ELSE spent[s] - 1]
  /\ UNCHANGED <<ledger, tokens, disk, running, verdict, req, posted, torn, made, faults>>

(* The runner records what a run cost.                                      *)
RecordCost(s) ==
  /\ running[s] > 0
  /\ running' = [running EXCEPT ![s] = @ - 1]
  /\ spent' = [spent EXCEPT ![s] = @ + 1]
  /\ UNCHANGED <<ledger, tokens, disk, counter, verdict, req, posted, torn, made, faults>>

------------------------------ (* Handlers *) -------------------------------

Unmetered == UNCHANGED <<counter, spent, faults>>

(* login_with_google: an e-mail address of another account is refused.  The *)
(* version is that of the account as loaded.                                *)
HandleLogin(c) ==
  LET me == req[c]
      other == \E s \in Subs \ {me.sub} : users[s].email = me.email
  IN /\ me.kind = "login"
     /\ Goes(c, "handle", IF other THEN Quiet
          ELSE [me EXCEPT !.at = "commit", !.user = users[me.sub]])
     /\ UNCHANGED <<ledger, tokens, disk, running, verdict, posted, torn, made>> /\ Unmetered

HandleLogout(c) ==
  LET me == req[c]
  IN /\ me.kind = "logout"
     /\ Goes(c, "handle", [me EXCEPT !.at = "commit", !.user = users[me.sub]])
     /\ UNCHANGED <<ledger, tokens, disk, running, verdict, posted, torn, made>> /\ Unmetered

(* mutant: the file is written once its row is committed                    *)
HandleFileLate(c) ==
  LET me == req[c]
  IN /\ me.kind = "file" /\ Goes(c, "handle", [me EXCEPT !.at = "commit"])
     /\ UNCHANGED <<ledger, tokens, disk, running, verdict, posted, torn, made>> /\ Unmetered

(* generate_file: the file is written, its row not yet committed.           *)
HandleFile(c) ==
  LET me == req[c]
  IN /\ me.kind = "file" /\ Goes(c, "handle", [me EXCEPT !.at = "commit"])
     /\ disk' = disk \cup {me.file}
     /\ UNCHANGED <<ledger, tokens, running, verdict, posted, torn, made>> /\ Unmetered

HandlePost(c) ==
  /\ req[c].kind = "post" /\ Goes(c, "handle", [req[c] EXCEPT !.at = "commit"])
  /\ UNCHANGED <<ledger, tokens, disk, running, verdict, posted, torn, made>> /\ Unmetered

(* delete_account: the files of the rows it sees go at once.                *)
HandleDelete(c) ==
  LET me == req[c]
      mine == {f \in Files : owned[f] = me.sub}
  IN /\ me.kind = "delete"
     /\ Goes(c, "handle", [me EXCEPT !.at = "commit", !.gone = mine, !.user = users[me.sub]])
     /\ disk' = disk \ mine
     /\ UNCHANGED <<ledger, tokens, running, verdict, posted, torn, made>> /\ Unmetered

(* write_memory, for the operator alone.                                    *)
HandleMemory(c) ==
  /\ req[c].kind = "remember" /\ Goes(c, "handle", [req[c] EXCEPT !.at = "commit"])
  /\ UNCHANGED <<ledger, tokens, disk, running, verdict, posted, torn, made>> /\ Unmetered

(* submit_task and its like, as far as the ledger sees them.                *)
HandleRun(c) ==
  LET me == req[c]
  IN /\ me.kind = "run" /\ Goes(c, "handle", Quiet)
     /\ running' = [running EXCEPT ![me.sub] = @ + 1]
     /\ Answer(c, "admitted")
     /\ UNCHANGED <<ledger, tokens, disk, posted, torn, made>> /\ Unmetered

(* get_session commits after the handler.  An account somebody has inserted *)
(* or an e-mail address somebody has taken meanwhile, and an account that   *)
(* is gone when it is to be changed, make it fail.                          *)
Clashes(me) ==
  \/ /\ me.kind = "login"
     /\ \/ (me.user = NoUser) # (users[me.sub] = NoUser)
        \/ \E s \in Subs \ {me.sub} : users[s].email = me.email
  \/ me.kind = "logout" /\ me.user # NoUser /\ users[me.sub] = NoUser

NextVersion(v) == IF v < MaxVersion THEN v + 1 ELSE v

Commit(c) ==
  LET me == req[c] IN
  /\ ~Clashes(me)
  /\ Goes(c, "commit", Quiet)
  /\ users' = CASE me.kind = "login" ->
                     [users EXCEPT ![me.sub] =
                        IF @ = NoUser THEN [email |-> me.email, version |-> 1]
                        ELSE [@ EXCEPT !.email = me.email]]
                [] me.kind = "logout" /\ me.user # NoUser ->
                     [users EXCEPT ![me.sub].version = NextVersion(me.user.version)]
                [] me.kind = "delete" -> [users EXCEPT ![me.sub] = NoUser]
                [] OTHER -> users
  /\ tokens' = IF me.kind = "login"
               THEN tokens \cup {[sub |-> me.sub, version |->
                      IF me.user = NoUser THEN 1 ELSE me.user.version]}
               ELSE tokens
  /\ owned' = [f \in Files |-> IF f = me.file THEN me.sub
                               ELSE IF f \in me.gone THEN None ELSE owned[f]]
  /\ posted' = IF me.kind = "post" THEN posted \cup {me.file} ELSE posted \ me.gone
  /\ memories' = CASE me.kind = "delete"   -> memories \ {me.sub}
                   [] me.kind = "remember" -> memories \cup {me.sub}
                   [] OTHER                -> memories
  /\ UNCHANGED <<disk, running, verdict, torn, made>> /\ Unmetered

(* What a request leaves on disk, or takes from it, when it is cut short.   *)
LeftBehind(r) == r.gone \cup ({r.file} \cap disk)

(* The commit fails: what was written to disk or removed stays so.          *)
CommitFails(c) ==
  LET me == req[c] IN
  /\ \/ Clashes(me) /\ UNCHANGED faults
     \/ ~Clashes(me) /\ faults < MaxFaults /\ faults' = faults + 1
  /\ Goes(c, "commit", Quiet)
  /\ torn' = torn \cup LeftBehind(me)
  /\ UNCHANGED <<ledger, tokens, disk, counter, spent, running, verdict, posted, made>>

TokenExpires(t) ==
  /\ t \in tokens /\ tokens' = tokens \ {t}
  /\ UNCHANGED <<ledger, disk, counter, spent, running, verdict, req, posted, torn, made,
                 faults>>

(* The process is restarted: requests and runs are cut short, and a disk    *)
(* that is ephemeral is empty afterwards.                                   *)
Restart ==
  /\ faults < MaxFaults /\ faults' = faults + 1
  /\ req' = [c \in Slots |-> Quiet] /\ running' = [s \in Subs |-> 0]
  /\ disk' \in {disk, {}}
  /\ torn' = torn \cup (disk \ disk') \cup UNION {LeftBehind(req[c]) : c \in Slots}
  /\ UNCHANGED <<ledger, tokens, counter, spent, verdict, posted, made>>

Step(c) ==
  \/ Identify(c) \/ Incr(c) \/ Expire(c) \/ Ttl(c) \/ Heal(c) \/ Budget(c)
  \/ HandleLogin(c) \/ HandleLogout(c) \/ HandleFile(c) \/ HandlePost(c) \/ HandleDelete(c)
  \/ HandleMemory(c) \/ HandleRun(c)
  \/ Commit(c) \/ CommitFails(c)

Next ==
  \/ \E c \in Slots :
       \/ Login(c) \/ Logout(c) \/ DeleteAccount(c) \/ WriteMemory(c)
       \/ GenerateFile(c) \/ PostArtifact(c)
       \/ \E s \in Runners : StartRun(c, s)
       \/ Step(c) \/ RedisFails(c)
  \/ \E t \in tokens : TokenExpires(t)
  \/ \E s \in Subs : RecordCost(s)
  \/ Tick \/ Restart

(* Requests are served, time passes, runs are recorded, and an operator who *)
(* has a session tries again.                                               *)
Fairness ==
  /\ \A c \in Slots : WF_vars(Step(c))
  /\ WF_vars(Tick) /\ \A s \in Subs : WF_vars(RecordCost(s))
  /\ \A s \in Runners : SF_vars(\E c \in Slots : StartRun(c, s))

Spec == Init /\ [][Next]_vars /\ Fairness

------------------------------ (* Properties *) ------------------------------

(* Rows and files go together, in both directions and whatever requests      *)
(* generate, post, delete and fail beside one another.  The row of a         *)
(* generated file has its file on disk, unless the deletion of its account   *)
(* is under way or was rolled back, or a restart lost the disk; a file on    *)
(* disk has its row, or will with the commit of the request that makes it,   *)
(* unless that was cut short.  Rows of POST /artifacts never have a file     *)
(* (files.py generate_file, auth.py delete_account, network.py               *)
(* create_artifact).                                                         *)
FilesBacked ==
  \A f \in Files :
    /\ owned[f] # None /\ f \notin posted =>
         f \in disk \/ f \in torn \/ \E c \in Slots : f \in req[c].gone
    /\ f \in disk => owned[f] # None \/ f \in torn \/ \E c \in Slots : f = req[c].file

(* An operator who has been refused for too many requests or too much spent  *)
(* and tries again is let in in the end, whatever commands Redis loses on    *)
(* the way, or finds that the session is over.  A counter left without an    *)
(* expiry would refuse forever (abuse_limits.py _redis_hit).                 *)
TurnComes ==
  \A s \in Runners :
    verdict[s] = "refused" ~>
      \/ verdict[s] \in {"admitted", "signed_out"}
      \/ ~\E t \in tokens : t.sub = s
=============================================================================
