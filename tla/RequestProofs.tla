--------------------------- MODULE RequestProofs ---------------------------
(***************************************************************************)
(* What holds of any accounts, files and limits, and any number of requests *)
(* at a time: rows and files of accounts go together.  Proofs about module *)
(* OperatorRequests.                                                       *)
(***************************************************************************)
EXTENDS OperatorRequests, TLAPS

IsRequest(r) ==
  r = [at |-> r.at, kind |-> r.kind, sub |-> r.sub, version |-> r.version,
       email |-> r.email, file |-> r.file, count |-> r.count, user |-> r.user,
       gone |-> r.gone]

(* What a request holds, seen from its own slot: who sent it is somebody,  *)
(* only the deletion of an account has files on its conscience, and only   *)
(* between its handler and its commit, and a file that is being generated  *)
(* is on disk when it awaits the commit of its row and not before.         *)
SlotOK(r) ==
  /\ IsRequest(r)
  /\ r.at # "free" => r.sub \in Subs
  /\ r.file # None => r.kind \in {"file", "post"}
  /\ r.gone # {} => r.at = "commit"
  /\ r.file # None /\ r.file \in disk => r.at = "commit"
  /\ r.at = "commit" /\ r.file # None /\ r.kind = "file" => r.file \in disk

(* A file that is being made has no row yet, so that no deletion takes it  *)
(* away before its commit, no two requests make one file, and what a       *)
(* deletion has taken away is not on disk.                                 *)
FileInv ==
  /\ \A t \in tokens : t.sub \in Subs
  /\ req = [c \in Slots |-> req[c]] /\ \A c \in Slots : SlotOK(req[c])
  /\ owned = [f \in Files |-> owned[f]]
  /\ \A c \in Slots : req[c].file \in Files => owned[req[c].file] = None
  /\ \A c, d \in Slots : req[c].file = req[d].file => c = d \/ req[c].file = None
  /\ \A c, d \in Slots : req[c].file \notin req[d].gone
  /\ \A c \in Slots : req[c].gone \subseteq Files /\ req[c].gone \cap disk = {}
  /\ FilesBacked

-----------------------------------------------------------------------------
(* Requests that move on.                                                  *)

LEMMA QuietOK == SlotOK(Quiet) /\ Quiet.at = "free" /\ Quiet.file = None /\ Quiet.gone = {}
BY DEF SlotOK, IsRequest, Quiet

LEMMA Kept ==
  ASSUME FileInv, UNCHANGED <<tokens, owned, disk, req, posted, torn>>
  PROVE  FileInv'
BY DEF FileInv, FilesBacked, SlotOK

(* Files leave the disk for a deletion that remembers them, and the ones   *)
(* that are being made are still.                                          *)
LEMMA BackedStays ==
  ASSUME FilesBacked, UNCHANGED <<owned, posted, torn>>, disk' \subseteq disk,
         \A f \in disk \ disk' : \E d \in Slots : f \in req'[d].gone,
         \A d \in Slots : req[d].gone \subseteq req'[d].gone,
         \A f \in Files \cap disk', d \in Slots : f = req[d].file => f = req'[d].file
  PROVE  FilesBacked'
<1> SUFFICES ASSUME NEW f \in Files
             PROVE  /\ owned[f] # None /\ f \notin posted =>
                         f \in disk' \/ f \in torn \/ \E d \in Slots : f \in req'[d].gone
                    /\ f \in disk' => owned[f] # None \/ f \in torn
                                        \/ \E d \in Slots : f = req'[d].file
  BY DEF FilesBacked
<1>1. owned[f] # None /\ f \notin posted =>
        f \in disk \/ f \in torn \/ \E d \in Slots : f \in req[d].gone
  BY DEF FilesBacked
<1>2. f \in disk => owned[f] # None \/ f \in torn \/ \E d \in Slots : f = req[d].file
  BY DEF FilesBacked
<1>3. ASSUME f \in disk', owned[f] = None, f \notin torn
      PROVE  \E d \in Slots : f = req'[d].file
  <2>1. PICK d \in Slots : f = req[d].file
    BY <1>2, <1>3
  <2> QED BY <1>3, <2>1
<1>4. (\E d \in Slots : f \in req[d].gone) => \E d \in Slots : f \in req'[d].gone
  OBVIOUS
<1>5. f \in disk => f \in disk' \/ \E d \in Slots : f \in req'[d].gone
  OBVIOUS
<1> QED BY <1>1, <1>3, <1>4, <1>5

(* A request takes up no file, and if it was removing some it still is.    *)
LEMMA SlotMoves ==
  ASSUME FileInv, UNCHANGED <<tokens, owned, disk, posted, torn>>, NEW c \in Slots, NEW r,
         req' = [req EXCEPT ![c] = r], SlotOK(r), r.gone = req[c].gone,
         r.file = req[c].file \/ (r.file = None /\ req[c].at # "commit")
  PROVE  FileInv'
<1>1. /\ req' = [d \in Slots |-> req'[d]] /\ req'[c] = r
      /\ \A d \in Slots : d # c => req'[d] = req[d]
  BY DEF FileInv
<1>2. \A d \in Slots : SlotOK(req[d])'
  BY <1>1 DEF FileInv, SlotOK
<1>3. \A d \in Slots : req'[d].gone = req[d].gone /\ req'[d].file \in {None, req[d].file}
  BY <1>1
<1>4. FilesBacked'
  <2>1. \A f \in Files \cap disk, d \in Slots : f = req[d].file => f = req'[d].file
    BY <1>1, RequestAssumption DEF FileInv, SlotOK
  <2>2. FilesBacked
    BY DEF FileInv
  <2> QED BY <1>3, <2>1, <2>2, BackedStays
<1>7. \A d, e \in Slots : req'[d].file \notin req'[e].gone
  BY <1>3, RequestAssumption DEF FileInv
<1>8. \A d \in Slots : req'[d].gone \subseteq Files /\ req'[d].gone \cap disk' = {}
  BY <1>3 DEF FileInv
<1>5. \A d \in Slots : req'[d].file \in Files => owned[req'[d].file] = None
  BY <1>3, RequestAssumption DEF FileInv
<1>6. \A d, e \in Slots : req'[d].file = req'[e].file => d = e \/ req'[d].file = None
  BY <1>3 DEF FileInv
<1>20. /\ \A t \in tokens' : t.sub \in Subs
       /\ owned' = [f \in Files |-> owned'[f]]
  BY DEF FileInv
<1> QED BY <1>1, <1>2, <1>4, <1>5, <1>6, <1>7, <1>8, <1>20 DEF FileInv

(* The way to the handler: a request advances, or it is turned away.       *)
Onward(x, y, at) ==
  /\ IsRequest(y) /\ y.at = at /\ y.sub = x.sub /\ y.kind = x.kind
  /\ y.file = x.file /\ y.gone = x.gone

LEMMA Advanced ==
  ASSUME NEW x, IsRequest(x), NEW at
  PROVE  Onward(x, [x EXCEPT !.at = at], at)
BY DEF IsRequest, Onward

LEMMA Recounted ==
  ASSUME NEW x, IsRequest(x), NEW n, NEW at
  PROVE  Onward(x, [x EXCEPT !.count = n, !.at = at], at)
<1> DEFINE z == [x EXCEPT !.count = n]
<1>1. Onward(x, z, x.at)
  BY DEF IsRequest, Onward
<1>2. [x EXCEPT !.count = n, !.at = at] = [z EXCEPT !.at = at]
  OBVIOUS
<1> HIDE DEF z
<1>3. Onward(z, [z EXCEPT !.at = at], at)
  BY <1>1, Advanced DEF Onward
<1> QED BY <1>1, <1>2, <1>3 DEF Onward

LEMMA Advances ==
  ASSUME FileInv, UNCHANGED <<tokens, owned, disk, posted, torn>>, NEW c \in Slots,
         req[c].at \notin {"free", "commit"}, NEW at, at # "commit",
         \/ req' = [req EXCEPT ![c] = [req[c] EXCEPT !.at = at]]
         \/ \E n : req' = [req EXCEPT ![c] = [req[c] EXCEPT !.count = n, !.at = at]]
  PROVE  FileInv'
<1>1. SlotOK(req[c]) /\ IsRequest(req[c])
  BY DEF FileInv, SlotOK
<1>2. PICK r : req' = [req EXCEPT ![c] = r] /\ Onward(req[c], r, at)
  <2>1. Onward(req[c], [req[c] EXCEPT !.at = at], at)
    BY <1>1, Advanced
  <2>2. \A n : Onward(req[c], [req[c] EXCEPT !.count = n, !.at = at], at)
    BY <1>1, Recounted
  <2> QED BY <2>1, <2>2
<1>3. SlotOK(r)
  BY <1>1, <1>2 DEF SlotOK, Onward
<1> QED BY <1>2, <1>3, SlotMoves DEF Onward

LEMMA TurnedAway ==
  ASSUME FileInv, UNCHANGED <<tokens, owned, disk, posted, torn>>, NEW c \in Slots,
         req[c].at # "commit", req' = [req EXCEPT ![c] = Quiet]
  PROVE  FileInv'
<1>1. req[c].gone = {}
  BY DEF FileInv, SlotOK
<1> QED BY <1>1, QuietOK, SlotMoves

LEMMA LimitsMove ==
  ASSUME FileInv, NEW c \in Slots,
         \/ Identify(c) \/ Incr(c) \/ Expire(c) \/ Ttl(c) \/ Heal(c) \/ Budget(c)
         \/ RedisFails(c) \/ HandleRun(c)
  PROVE  FileInv'
<1>1. /\ req[c].at \notin {"free", "commit"}
      /\ UNCHANGED <<tokens, owned, disk, posted, torn>>
  BY DEF Identify, Incr, Expire, Ttl, Heal, Budget, RedisFails, HandleRun, Goes, Limits,
         Unmetered, ledger
<1>2. CASE Identify(c)
  BY <1>1, <1>2, Advances, TurnedAway DEF Identify, Goes
<1>3. CASE Incr(c)
  BY <1>1, <1>3, Advances DEF Incr, Goes
<1>4. CASE Expire(c)
  BY <1>1, <1>4, Advances DEF Expire, Goes
<1>5. CASE Ttl(c)
  BY <1>1, <1>5, Advances, TurnedAway DEF Ttl, Goes, Judged
<1>6. CASE Heal(c)
  BY <1>1, <1>6, Advances, TurnedAway DEF Heal, Goes, Judged
<1>7. CASE Budget(c)
  BY <1>1, <1>7, Advances, TurnedAway DEF Budget, Goes
<1>8. CASE RedisFails(c)
  BY <1>1, <1>8, Advances DEF RedisFails
<1>9. CASE HandleRun(c)
  BY <1>1, <1>9, TurnedAway DEF HandleRun, Goes
<1> QED BY <1>2, <1>3, <1>4, <1>5, <1>6, <1>7, <1>8, <1>9

(* Handlers that touch no file.                                            *)
LEMMA Loaded ==
  ASSUME NEW x, IsRequest(x), NEW u, NEW at
  PROVE  Onward(x, [x EXCEPT !.at = at, !.user = u], at)
<1> DEFINE z == [x EXCEPT !.user = u]
<1>1. Onward(x, z, x.at)
  BY DEF IsRequest, Onward
<1>2. [x EXCEPT !.at = at, !.user = u] = [z EXCEPT !.at = at]
  BY DEF IsRequest
<1> HIDE DEF z
<1>3. Onward(z, [z EXCEPT !.at = at], at)
  BY <1>1, Advanced DEF Onward
<1> QED BY <1>1, <1>2, <1>3 DEF Onward

LEMMA HandlersMove ==
  ASSUME FileInv, NEW c \in Slots,
         HandleLogin(c) \/ HandleLogout(c) \/ HandleMemory(c) \/ HandlePost(c)
  PROVE  FileInv'
<1>1. /\ req[c].at = "handle" /\ req[c].kind # "file"
      /\ UNCHANGED <<tokens, owned, disk, posted, torn>>
  BY DEF HandleLogin, HandleLogout, HandleMemory, HandlePost, Goes, ledger
<1>2. SlotOK(req[c]) /\ IsRequest(req[c])
  BY DEF FileInv, SlotOK
<1>3. ASSUME NEW r, req' = [req EXCEPT ![c] = r], Onward(req[c], r, "commit")
      PROVE  FileInv'
  <2>1. SlotOK(r)
    BY <1>1, <1>2, <1>3 DEF SlotOK, Onward
  <2> QED BY <1>1, <1>3, <2>1, SlotMoves DEF Onward
<1>4. CASE HandleMemory(c) \/ HandlePost(c)
  <2>1. req' = [req EXCEPT ![c] = [req[c] EXCEPT !.at = "commit"]]
    BY <1>4 DEF HandleMemory, HandlePost, Goes
  <2> QED BY <1>2, <1>3, <2>1, Advanced
<1>5. CASE HandleLogin(c) \/ HandleLogout(c)
  <2>1. \/ req' = [req EXCEPT ![c] = Quiet]
        \/ req' = [req EXCEPT ![c] =
                     [req[c] EXCEPT !.at = "commit", !.user = users[req[c].sub]]]
    BY <1>5 DEF HandleLogin, HandleLogout, Goes
  <2> QED BY <1>1, <1>2, <1>3, <2>1, Loaded, TurnedAway
<1> QED BY <1>4, <1>5

(* A request that arrives.                                                 *)
LEMMA BeginMoves ==
  ASSUME FileInv, NEW c \in Slots, NEW r, NEW first \in {"handle", "identify"},
         Begin(c, first, r), IsRequest(r), r.sub \in Subs, r.gone = {},
         r.file = None \/ (r.kind \in {"file", "post"} /\ r.file \in Files /\ Fresh(r.file))
  PROVE  FileInv'
<1> DEFINE new == [r EXCEPT !.at = first]
<1>1. /\ Onward(r, new, first)
      /\ UNCHANGED <<tokens, owned, disk, posted, torn>> /\ req[c].at = "free"
      /\ req' = [req EXCEPT ![c] = new]
  BY Advanced DEF Begin, ledger
<1> HIDE DEF new
<1>2. /\ req' = [d \in Slots |-> req'[d]] /\ req'[c] = new
      /\ \A d \in Slots : d # c => req'[d] = req[d]
  BY <1>1 DEF FileInv
<1>3. new.file = r.file /\ new.gone = {} /\ new.sub \in Subs /\ new.at = first
  BY <1>1 DEF Onward
<1>4. SlotOK(new)
  BY <1>1, <1>3 DEF SlotOK, Onward, Fresh
<1>5. \A d \in Slots : SlotOK(req[d])'
  BY <1>1, <1>2, <1>4 DEF FileInv, SlotOK
<1>6. \A d \in Slots : req'[d].gone = req[d].gone
  BY <1>1, <1>2, <1>3 DEF FileInv, SlotOK
<1>7. FilesBacked'
  <2>1. \A f \in Files \cap disk, d \in Slots : f = req[d].file => f = req'[d].file
    BY <1>1, <1>2, RequestAssumption DEF FileInv, SlotOK
  <2>2. FilesBacked
    BY DEF FileInv
  <2> QED BY <1>1, <1>6, <2>1, <2>2, BackedStays
<1>10. \A d, e \in Slots : req'[d].file \notin req'[e].gone
  BY <1>2, <1>3, <1>6, RequestAssumption DEF FileInv, Fresh
<1>11. \A d \in Slots : req'[d].gone \subseteq Files /\ req'[d].gone \cap disk' = {}
  BY <1>1, <1>6 DEF FileInv
<1>8. \A d \in Slots : req'[d].file \in Files => owned[req'[d].file] = None
  BY <1>2, <1>3, RequestAssumption DEF FileInv, Fresh
<1>9. \A d, e \in Slots : req'[d].file = req'[e].file => d = e \/ req'[d].file = None
  BY <1>2, <1>3 DEF FileInv, Fresh
<1>20. /\ \A t \in tokens' : t.sub \in Subs
       /\ owned' = [f \in Files |-> owned'[f]]
  BY <1>1 DEF FileInv
<1> QED BY <1>1, <1>2, <1>5, <1>7, <1>8, <1>9, <1>10, <1>11, <1>20 DEF FileInv

(* What a request is when it arrives.                                      *)
Arrived(r, k, s, f) ==
  IsRequest(r) /\ r.kind = k /\ r.sub = s /\ r.file = f /\ r.gone = {}

LEMMA SentArrived ==
  ASSUME NEW k, NEW s, NEW v, NEW f
  PROVE  Arrived([Quiet EXCEPT !.kind = k, !.sub = s, !.version = v, !.file = f], k, s, f)
<1> DEFINE r1 == [Quiet EXCEPT !.kind = k]
           r2 == [r1 EXCEPT !.sub = s]
           r3 == [r2 EXCEPT !.version = v]
           r4 == [r3 EXCEPT !.file = f]
<1>0. [Quiet EXCEPT !.kind = k, !.sub = s, !.version = v, !.file = f] = r4
  OBVIOUS
<1>1. IsRequest(r1) /\ r1.kind = k /\ r1.gone = {}
  BY QuietOK DEF SlotOK, IsRequest
<1> HIDE DEF r1
<1>2. IsRequest(r2) /\ r2.kind = k /\ r2.sub = s /\ r2.gone = {}
  BY <1>1 DEF IsRequest
<1> HIDE DEF r2
<1>3. IsRequest(r3) /\ r3.kind = k /\ r3.sub = s /\ r3.gone = {}
  BY <1>2 DEF IsRequest
<1> HIDE DEF r3
<1>4. Arrived(r4, k, s, f)
  BY <1>3 DEF IsRequest, Arrived
<1> HIDE DEF r4
<1> QED BY <1>0, <1>4

LEMMA LoginArrived ==
  ASSUME NEW s, NEW e
  PROVE  Arrived([Quiet EXCEPT !.kind = "login", !.sub = s, !.email = e], "login", s, None)
<1> DEFINE r1 == [Quiet EXCEPT !.kind = "login"]
           r2 == [r1 EXCEPT !.sub = s]
           r3 == [r2 EXCEPT !.email = e]
<1>0. [Quiet EXCEPT !.kind = "login", !.sub = s, !.email = e] = r3
  OBVIOUS
<1>1. IsRequest(r1) /\ r1.kind = "login" /\ r1.gone = {} /\ r1.file = None
  BY QuietOK DEF SlotOK, IsRequest
<1> HIDE DEF r1
<1>2. IsRequest(r2) /\ r2.kind = "login" /\ r2.sub = s /\ r2.gone = {} /\ r2.file = None
  BY <1>1 DEF IsRequest
<1> HIDE DEF r2
<1>3. Arrived(r3, "login", s, None)
  BY <1>2 DEF IsRequest, Arrived
<1> HIDE DEF r3
<1> QED BY <1>0, <1>3

LEMMA PostArrived ==
  ASSUME NEW s, NEW f
  PROVE  Arrived([Quiet EXCEPT !.kind = "post", !.sub = s, !.file = f], "post", s, f)
<1> DEFINE r1 == [Quiet EXCEPT !.kind = "post"]
           r2 == [r1 EXCEPT !.sub = s]
           r3 == [r2 EXCEPT !.file = f]
<1>0. [Quiet EXCEPT !.kind = "post", !.sub = s, !.file = f] = r3
  OBVIOUS
<1>1. IsRequest(r1) /\ r1.kind = "post" /\ r1.gone = {}
  BY QuietOK DEF SlotOK, IsRequest
<1> HIDE DEF r1
<1>2. IsRequest(r2) /\ r2.kind = "post" /\ r2.sub = s /\ r2.gone = {}
  BY <1>1 DEF IsRequest
<1> HIDE DEF r2
<1>3. Arrived(r3, "post", s, f)
  BY <1>2 DEF IsRequest, Arrived
<1> HIDE DEF r3
<1> QED BY <1>0, <1>3

LEMMA ArrivalsMove ==
  ASSUME FileInv, NEW c \in Slots,
         \/ Login(c) \/ Logout(c) \/ DeleteAccount(c) \/ WriteMemory(c) \/ GenerateFile(c)
         \/ PostArtifact(c) \/ \E s \in Runners : StartRun(c, s)
  PROVE  FileInv'
<1>1. ASSUME NEW k, NEW t \in tokens, NEW f, Send(c, k, t, f),
             f = None \/ (k = "file" /\ f \in Files /\ Fresh(f))
      PROVE  FileInv'
  <2> DEFINE r == [Quiet EXCEPT !.kind = k, !.sub = t.sub, !.version = t.version, !.file = f]
  <2>1. Begin(c, "identify", r)
    BY <1>1 DEF Send
  <2>2. Arrived(r, k, t.sub, f)
    BY SentArrived
  <2>3. t.sub \in Subs
    BY DEF FileInv
  <2> HIDE DEF r
  <2> QED BY <1>1, <2>1, <2>2, <2>3, BeginMoves DEF Arrived
<1>2. ASSUME NEW s \in Subs, NEW e \in Emails,
             Begin(c, "handle", [Quiet EXCEPT !.kind = "login", !.sub = s, !.email = e])
      PROVE  FileInv'
  <2> DEFINE r == [Quiet EXCEPT !.kind = "login", !.sub = s, !.email = e]
  <2>1. Begin(c, "handle", r)
    BY <1>2
  <2>2. Arrived(r, "login", s, None)
    BY LoginArrived
  <2> HIDE DEF r
  <2> QED BY <2>1, <2>2, BeginMoves DEF Arrived
<1>3. ASSUME NEW s \in Subs, NEW f \in Files, Fresh(f),
             Begin(c, "handle", [Quiet EXCEPT !.kind = "post", !.sub = s, !.file = f])
      PROVE  FileInv'
  <2> DEFINE r == [Quiet EXCEPT !.kind = "post", !.sub = s, !.file = f]
  <2>1. Begin(c, "handle", r)
    BY <1>3
  <2>2. Arrived(r, "post", s, f)
    BY PostArrived
  <2> HIDE DEF r
  <2> QED BY <1>3, <2>1, <2>2, BeginMoves DEF Arrived
<1> QED
  BY <1>1, <1>2, <1>3 DEF Login, Logout, DeleteAccount, WriteMemory, GenerateFile,
                          PostArtifact, StartRun

-----------------------------------------------------------------------------
(* What is done to files and their rows.                                   *)

(* The file is on disk before its row is committed.                        *)
LEMMA FileMoves == ASSUME FileInv, NEW c \in Slots, HandleFile(c) PROVE FileInv'
<1> DEFINE r == [req[c] EXCEPT !.at = "commit"]
<1>1. /\ req' = [req EXCEPT ![c] = r] /\ disk' = disk \cup {req[c].file}
      /\ req[c].kind = "file" /\ req[c].at = "handle"
      /\ UNCHANGED <<tokens, owned, posted, torn>>
  BY DEF HandleFile, Goes, ledger
<1>2. SlotOK(req[c]) /\ IsRequest(req[c])
  BY DEF FileInv, SlotOK
<1>3. Onward(req[c], r, "commit")
  BY <1>2, Advanced
<1> HIDE DEF r
<1>4. /\ req' = [d \in Slots |-> req'[d]] /\ req'[c] = r
      /\ \A d \in Slots : d # c => req'[d] = req[d]
  BY <1>1 DEF FileInv
<1>5. \A d \in Slots : SlotOK(req[d])'
  BY <1>1, <1>2, <1>3, <1>4 DEF FileInv, SlotOK, Onward
<1>6. \A d \in Slots : req'[d].gone = req[d].gone /\ req'[d].file = req[d].file
  BY <1>3, <1>4 DEF Onward
<1>7. FilesBacked'
  BY <1>1, <1>6 DEF FileInv, FilesBacked
<1>8. \A d \in Slots : req'[d].gone \subseteq Files /\ req'[d].gone \cap disk' = {}
  BY <1>1, <1>6 DEF FileInv
<1> QED BY <1>1, <1>4, <1>5, <1>6, <1>7, <1>8 DEF FileInv

Unlinking(x, y, g) ==
  /\ IsRequest(y) /\ y.at = "commit" /\ y.sub = x.sub /\ y.kind = x.kind
  /\ y.file = x.file /\ y.gone = g

LEMMA Unlinked ==
  ASSUME NEW x, IsRequest(x), NEW g, NEW u
  PROVE  Unlinking(x, [x EXCEPT !.at = "commit", !.gone = g, !.user = u], g)
<1> DEFINE z == [x EXCEPT !.at = "commit", !.user = u]
           y == [z EXCEPT !.gone = g]
<1>1. Onward(x, z, "commit")
  BY Loaded
<1>2. [x EXCEPT !.at = "commit", !.gone = g, !.user = u] = y
  BY DEF IsRequest
<1> HIDE DEF z
<1>3. Unlinking(x, y, g)
  BY <1>1 DEF Onward, IsRequest, Unlinking
<1> HIDE DEF y
<1> QED BY <1>2, <1>3

(* A deletion takes away files with rows, and remembers them.              *)
LEMMA DeleteMoves == ASSUME FileInv, NEW c \in Slots, HandleDelete(c) PROVE FileInv'
<1> DEFINE mine == {f \in Files : owned[f] = req[c].sub}
           r == [req[c] EXCEPT !.at = "commit", !.gone = mine, !.user = users[req[c].sub]]
<1>1. /\ req' = [req EXCEPT ![c] = r] /\ disk' = disk \ mine
      /\ req[c].kind = "delete" /\ req[c].at = "handle"
      /\ UNCHANGED <<tokens, owned, posted, torn>>
  BY DEF HandleDelete, Goes, ledger
<1>2. SlotOK(req[c]) /\ IsRequest(req[c]) /\ req[c].gone = {} /\ req[c].sub # None
  BY <1>1, RequestAssumption DEF FileInv, SlotOK
<1>3. /\ IsRequest(r) /\ r.at = "commit" /\ r.sub = req[c].sub /\ r.kind = "delete"
      /\ r.file = req[c].file /\ r.gone = mine
  <2>1. Unlinking(req[c], r, mine)
    BY <1>2, Unlinked
  <2> HIDE DEF r, mine
  <2> QED BY <1>1, <2>1 DEF Unlinking
<1> HIDE DEF r
<1>4. /\ req' = [d \in Slots |-> req'[d]] /\ req'[c] = r
      /\ \A d \in Slots : d # c => req'[d] = req[d]
  BY <1>1 DEF FileInv
<1>5. \A d \in Slots : req[d].file \notin mine
  BY <1>2 DEF FileInv
<1>6. \A d \in Slots : SlotOK(req[d])'
  BY <1>1, <1>2, <1>3, <1>4, <1>5 DEF FileInv, SlotOK
<1>7. \A d \in Slots : req[d].gone \subseteq req'[d].gone /\ req'[d].file = req[d].file
  BY <1>2, <1>3, <1>4
<1>8. FilesBacked'
  <2>1. \A f \in disk \ disk' : f \in req'[c].gone
    BY <1>1, <1>3, <1>4
  <2>2. disk' \subseteq disk
    BY <1>1
  <2>3. FilesBacked
    BY DEF FileInv
  <2> HIDE DEF mine
  <2> QED BY <1>1, <1>7, <2>1, <2>2, <2>3, BackedStays
<1>9. \A d, e \in Slots : req'[d].file \notin req'[e].gone
  BY <1>3, <1>4, <1>5, <1>7 DEF FileInv
<1>10. \A d \in Slots : req'[d].gone \subseteq Files /\ req'[d].gone \cap disk' = {}
  <2>1. req'[c].gone = mine /\ mine \subseteq Files
    BY <1>3, <1>4
  <2> QED BY <1>1, <1>4, <2>1 DEF FileInv
<1>11. \A d \in Slots : req'[d].file \in Files => owned[req'[d].file] = None
  BY <1>7 DEF FileInv
<1>12. \A d, e \in Slots : req'[d].file = req'[e].file => d = e \/ req'[d].file = None
  BY <1>7 DEF FileInv
<1> HIDE DEF mine
<1>20. /\ \A t \in tokens' : t.sub \in Subs
       /\ owned' = [f \in Files |-> owned'[f]]
  BY <1>1 DEF FileInv
<1> QED BY <1>1, <1>4, <1>6, <1>8, <1>9, <1>10, <1>11, <1>12, <1>20 DEF FileInv

(* A commit makes a row for a file on disk, and none remains for a file    *)
(* the request took away.                                                  *)
LEMMA CommitMoves == ASSUME FileInv, NEW c \in Slots, Commit(c) PROVE FileInv'
<1>1. /\ req' = [req EXCEPT ![c] = Quiet] /\ req[c].at = "commit"
      /\ UNCHANGED <<disk, torn>>
      /\ owned' = [f \in Files |-> IF f = req[c].file THEN req[c].sub
                                   ELSE IF f \in req[c].gone THEN None ELSE owned[f]]
  BY DEF Commit, Goes
<1>2. SlotOK(req[c])
  BY DEF FileInv
<1>3. \A t \in tokens' : t.sub \in Subs
  BY <1>1, <1>2 DEF Commit, FileInv, SlotOK
<1>4. /\ req' = [d \in Slots |-> req'[d]] /\ req'[c] = Quiet
      /\ \A d \in Slots : d # c => req'[d] = req[d]
  BY <1>1 DEF FileInv
<1>5. \A d \in Slots : SlotOK(req[d])'
  BY <1>1, <1>4, QuietOK DEF FileInv, SlotOK
<1>6. \A d \in Slots : req'[d].file \in Files => owned'[req'[d].file] = None
  BY <1>1, <1>4, QuietOK, RequestAssumption DEF FileInv
<1>7. \A d, e \in Slots : req'[d].file = req'[e].file => d = e \/ req'[d].file = None
  BY <1>4, QuietOK DEF FileInv
<1>8. FilesBacked'
  <2>0. posted' = IF req[c].kind = "post" THEN posted \cup {req[c].file}
                  ELSE posted \ req[c].gone
    BY DEF Commit
  <2>1. ASSUME NEW f \in Files, owned'[f] # None, f \notin posted'
        PROVE  f \in disk' \/ f \in torn' \/ \E d \in Slots : f \in req'[d].gone
    <3>1. CASE f = req[c].file
      BY <1>1, <1>2, <2>0, <2>1, <3>1, RequestAssumption DEF SlotOK
    <3>2. CASE f # req[c].file
      <4>1. f \notin req[c].gone /\ owned[f] # None /\ f \notin posted
        BY <1>1, <2>0, <2>1, <3>2
      <4> QED BY <1>1, <1>4, <4>1 DEF FileInv, FilesBacked
    <3> QED BY <3>1, <3>2
  <2>2. ASSUME NEW f \in Files, f \in disk'
        PROVE  owned'[f] # None \/ f \in torn' \/ \E d \in Slots : f = req'[d].file
    <3>1. CASE f = req[c].file
      <4>1. req[c].sub \in Subs
        BY <1>1, <1>2 DEF SlotOK
      <4> QED BY <1>1, <3>1, <4>1, RequestAssumption
    <3>2. CASE f # req[c].file
      <4>1. f \notin req[c].gone
        BY <1>1, <2>2 DEF FileInv
      <4>2. owned'[f] = owned[f]
        BY <1>1, <3>2, <4>1
      <4> QED BY <1>1, <1>4, <2>2, <3>2, <4>2 DEF FileInv, FilesBacked
    <3> QED BY <3>1, <3>2
  <2> QED BY <2>1, <2>2 DEF FilesBacked
<1>10. \A d, e \in Slots : req'[d].file \notin req'[e].gone
  BY <1>4, QuietOK, RequestAssumption DEF FileInv
<1>11. \A d \in Slots : req'[d].gone \subseteq Files /\ req'[d].gone \cap disk' = {}
  BY <1>1, <1>4, QuietOK DEF FileInv
<1>9. owned' = [f \in Files |-> owned'[f]]
  BY <1>1
<1> QED BY <1>3, <1>4, <1>5, <1>6, <1>7, <1>8, <1>9, <1>10, <1>11 DEF FileInv

LEMMA CommitFailsMoves == ASSUME FileInv, NEW c \in Slots, CommitFails(c) PROVE FileInv'
<1>1. /\ req' = [req EXCEPT ![c] = Quiet] /\ torn' = torn \cup req[c].gone \cup ({req[c].file} \cap disk)
      /\ UNCHANGED <<tokens, owned, disk, posted>>
  BY DEF CommitFails, LeftBehind, Goes, ledger
<1>2. /\ req' = [d \in Slots |-> req'[d]] /\ req'[c] = Quiet
      /\ \A d \in Slots : d # c => req'[d] = req[d]
  BY <1>1 DEF FileInv
<1>3. \A d \in Slots : SlotOK(req[d])'
  BY <1>1, <1>2, QuietOK DEF FileInv, SlotOK
<1>4. \A d \in Slots : req'[d].file \in Files => owned[req'[d].file] = None
  BY <1>2, QuietOK, RequestAssumption DEF FileInv
<1>5. \A d, e \in Slots : req'[d].file = req'[e].file => d = e \/ req'[d].file = None
  BY <1>2, QuietOK DEF FileInv
<1>6. FilesBacked'
  BY <1>1, <1>2 DEF FileInv, FilesBacked
<1>7. \A d, e \in Slots : req'[d].file \notin req'[e].gone
  BY <1>2, QuietOK, RequestAssumption DEF FileInv
<1>8. \A d \in Slots : req'[d].gone \subseteq Files /\ req'[d].gone \cap disk' = {}
  BY <1>1, <1>2, QuietOK DEF FileInv
<1> QED BY <1>1, <1>2, <1>3, <1>4, <1>5, <1>6, <1>7, <1>8 DEF FileInv

(* What a restart loses or leaves half done is on record as torn.          *)
LEMMA RestartMoves == ASSUME FileInv, Restart PROVE FileInv'
<1>1. /\ req' = [c \in Slots |-> Quiet] /\ disk' \subseteq disk
      /\ UNCHANGED <<tokens, owned, posted>>
      /\ torn' = torn \cup (disk \ disk') \cup UNION {LeftBehind(req[c]) : c \in Slots}
  BY DEF Restart, ledger
<1>2. \A c \in Slots : LeftBehind(req[c]) \subseteq torn'
  BY <1>1
<1>3. \A c \in Slots : req[c].gone \subseteq torn'
  BY <1>2 DEF LeftBehind
<1>4. \A c \in Slots : {req[c].file} \cap disk \subseteq torn'
  BY <1>2 DEF LeftBehind
<1>5. torn \subseteq torn' /\ disk \ disk' \subseteq torn'
  BY <1>1
<1>6. FilesBacked'
  <2>1. ASSUME NEW f \in Files, owned'[f] # None, f \notin posted'
        PROVE  f \in disk' \/ f \in torn'
    BY <1>1, <1>3, <1>5, <2>1 DEF FileInv, FilesBacked
  <2>2. ASSUME NEW f \in Files, f \in disk'
        PROVE  owned'[f] # None \/ f \in torn'
    <3>1. CASE owned[f] # None \/ f \in torn
      BY <1>1, <1>5, <3>1
    <3>2. CASE \E c \in Slots : f = req[c].file
      BY <1>1, <1>4, <2>2, <3>2
    <3> QED BY <1>1, <2>2, <3>1, <3>2 DEF FileInv, FilesBacked
  <2> QED BY <2>1, <2>2 DEF FilesBacked
<1>7. \A c \in Slots : req'[c] = Quiet
  BY <1>1
<1>8. \A c \in Slots : SlotOK(req[c])'
  BY <1>7, QuietOK DEF SlotOK
<1> QED BY <1>1, <1>6, <1>7, <1>8, QuietOK, RequestAssumption DEF FileInv

-----------------------------------------------------------------------------
(* The result.                                                             *)

LEMMA FileInvariant == Spec => []FileInv
<1>1. Init => FileInv
  BY QuietOK DEF Init, FileInv, FilesBacked, SlotOK
<1>2. FileInv /\ [Next]_vars => FileInv'
  <2> SUFFICES ASSUME FileInv, [Next]_vars PROVE FileInv'
    OBVIOUS
  <2>1. ASSUME NEW c \in Slots, Step(c) \/ RedisFails(c) PROVE FileInv'
    BY <2>1, LimitsMove, HandlersMove, FileMoves, DeleteMoves, CommitMoves,
       CommitFailsMoves DEF Step
  <2>2. ASSUME NEW t \in tokens, TokenExpires(t) PROVE FileInv'
    BY <2>2 DEF TokenExpires, ledger, FileInv, FilesBacked, SlotOK
  <2>3. ASSUME NEW s \in Subs, RecordCost(s) PROVE FileInv'
    BY <2>3, Kept DEF RecordCost, ledger
  <2>5. CASE Restart
    BY <2>5, RestartMoves
  <2>4. CASE Tick \/ UNCHANGED vars
    BY <2>4, Kept DEF Tick, ledger, vars
  <2> QED BY <2>1, <2>2, <2>3, <2>4, <2>5, ArrivalsMove DEF Next
<1> QED BY <1>1, <1>2, PTL DEF Spec

(* The row of a generated file has its file on disk, and a file on disk    *)
(* its row or the request that will commit one, but for what a failed      *)
(* commit or a restart cut short or lost and what a deletion is taking     *)
(* away: however many requests generate, post, delete, commit and fail     *)
(* beside one another (files.py generate_file, auth.py delete_account,     *)
(* network.py create_artifact).                                            *)
THEOREM FilesAreBacked == Spec => []FilesBacked
<1>1. FileInv => FilesBacked
  BY DEF FileInv
<1> QED BY <1>1, FileInvariant, PTL
=============================================================================
