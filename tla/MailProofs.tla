----------------------------- MODULE MailProofs -----------------------------
(***************************************************************************)
(* What holds of the mail, for every plan and whatever outsiders send: a   *)
(* result on record was handed on, whoever is called has read what was     *)
(* handed to it, nobody is answered twice, and no request is forgotten.    *)
(*                                                                         *)
(* Boxes are changed in three ways only: letters are added that are later  *)
(* than all there are (Added), some are marked (Marked), and some leave    *)
(* the view when a transaction is dropped.  What each way keeps of BoxOK   *)
(* is proved first, of any box; then what the calls of a transaction add   *)
(* and mark; and then that each action of the network keeps MailInv.       *)
(***************************************************************************)
EXTENDS NetworkProofs

-----------------------------------------------------------------------------
(* The mail, box by box.                                                   *)

LEMMA MaxIsGreatest ==
  ASSUME NEW S \in SUBSET Nat, S # {}, NEW b \in Nat, \A x \in S : x <= b
  PROVE  Max(S) \in S /\ \A x \in S : x <= Max(S)
<1> DEFINE U == {u \in Nat : \A x \in S : x <= u}
<1>1. PICK u \in U : \A k \in U : ~ (<<k, u>> \in OpToRel(<, Nat))
  <2>1. U \in SUBSET Nat /\ U # {}
    OBVIOUS
  <2> HIDE DEF U
  <2> QED BY <2>1, NatLessThanWellFounded, WFMin, Zenon
<1>2. \A k \in U : ~ (k < u)
  BY <1>1 DEF OpToRel
<1>3. u \in S
  <2> SUFFICES ASSUME u \notin S PROVE FALSE
    OBVIOUS
  <2>1. u \in Nat /\ \A x \in S : x \in Nat /\ x < u
    OBVIOUS
  <2>0. PICK y \in S : TRUE
    OBVIOUS
  <2>2. u - 1 \in Nat /\ \A x \in S : x <= u - 1
    BY <2>0, <2>1
  <2>3. u - 1 \in U
    BY <2>2
  <2>4. u - 1 < u
    BY <2>1
  <2> HIDE DEF U
  <2> QED BY <1>2, <2>3, <2>4
<1>4. \A y \in S : u >= y
  OBVIOUS
<1>5. \E x \in S : \A y \in S : x >= y
  BY <1>3, <1>4
<1> QED BY <1>5 DEF Max

(* The letters of S once they are sent at the time now.                    *)
At(s, now) == [s EXCEPT !.at = now]

Dated(S, now) == {At(s, now) : s \in S}

(* box2 is box and the letters of N, sent at the time now, unread.         *)
Added(box, box2, N, now) ==
  /\ now \in Nat /\ now > 0
  /\ Mailbox(box) /\ N \subseteq Message
  /\ \A m \in DOMAIN box : m.re < m.at /\ m.at < now
  /\ \A m \in N : m.re < m.at /\ m.at = now
  /\ DOMAIN box2 = DOMAIN box \cup N
  /\ \A m \in DOMAIN box : box2[m] = box[m]
  /\ \A m \in N : box2[m] = "delivered"

(* box2 is box with the messages of M set to st.                           *)
Marked(box, box2, M, st) ==
  /\ M \subseteq DOMAIN box /\ st \in MessageStatus
  /\ DOMAIN box2 = DOMAIN box
  /\ \A m \in DOMAIN box : box2[m] = IF m \in M THEN st ELSE box[m]

(* Letters that answer nothing, and report nothing for a step of done.     *)
Fresh(N, done, turn) ==
  /\ Distinct(N)
  /\ \A m \in N : m.re = 0 /\ \A n \in done : ~ IsReport(m, n, turn)

Replies(M) == {ReplyTo(m) : m \in M}

LEMMA AtFields ==
  ASSUME NEW s \in Message, NEW now \in Nat
  PROVE  /\ At(s, now) \in Message
         /\ At(s, now).at = now /\ At(s, now).from = s.from /\ At(s, now).to = s.to
         /\ At(s, now).type = s.type /\ At(s, now).needs = s.needs
         /\ At(s, now).re = s.re /\ At(s, now).turn = s.turn
         /\ At(s, now).rank = s.rank
BY DEF At, Message

LEMMA LetterFields ==
  ASSUME NEW from \in Nodes \cup {Orchestrator}, NEW to \in Nodes \cup {Orchestrator},
         NEW type \in MessageType, NEW turn \in Nat
  PROVE  /\ Letter(from, to, type, turn) \in Message
         /\ Letter(from, to, type, turn).from = from /\ Letter(from, to, type, turn).to = to
         /\ Letter(from, to, type, turn).type = type /\ Letter(from, to, type, turn).re = 0
         /\ Letter(from, to, type, turn).turn = turn
         /\ Letter(from, to, type, turn).needs = (type \in Requests)
<1>1. (IF type \in Pressing THEN 1 ELSE 2) \in Rank
  BY DEF Rank
<1> QED BY <1>1 DEF Letter, Message

LEMMA ReportFields ==
  ASSUME NEW n \in Nodes, NEW type \in {"task_response", "error"}, NEW turn \in Nat
  PROVE  LET l == Letter(n, Orchestrator, type, turn)
         IN  l \in Message /\ l.re = 0 /\ ~l.needs /\ l.from = n /\ l.type = type
<1>1. type \in MessageType /\ type \notin Requests
  BY DEF MessageType, Requests
<1>2. n \in Nodes \cup {Orchestrator} /\ Orchestrator \in Nodes \cup {Orchestrator}
  OBVIOUS
<1> DEFINE l == Letter(n, Orchestrator, type, turn)
<1>3. /\ l \in Message /\ l.re = 0 /\ l.needs = (type \in Requests)
      /\ l.from = n /\ l.type = type
  BY <1>1, <1>2, LetterFields
<1> HIDE DEF l
<1>4. l \in Message /\ l.re = 0 /\ ~l.needs /\ l.from = n /\ l.type = type
  BY <1>1, <1>3
<1> QED BY <1>4 DEF l

LEMMA ReplyFields ==
  ASSUME NEW m \in Message
  PROVE  /\ ReplyTo(m) \in Message
         /\ ReplyTo(m).from = m.to /\ ReplyTo(m).to = m.from
         /\ ReplyTo(m).type = ReplyType(m.type) /\ ReplyTo(m).re = m.at
         /\ ReplyTo(m).turn = 0 /\ ReplyTo(m).needs = FALSE
<1>1. ReplyType(m.type) \in MessageType \ (Requests \cup Pressing) /\ 2 \in Rank
  BY DEF ReplyType, MessageType, Requests, Pressing, Rank
<1>2. m.to \in Nodes \cup {Orchestrator} /\ m.from \in Nodes \cup {Orchestrator} /\ m.at \in Nat
  BY DEF Message
<1>3. ReplyTo(m) = [at |-> 0, from |-> m.to, to |-> m.from, type |-> ReplyType(m.type),
                    needs |-> FALSE, re |-> m.at, turn |-> 0, rank |-> 2]
  <2> DEFINE l == Letter(m.to, m.from, ReplyType(m.type), 0)
  <2>0. (ReplyType(m.type) \in Requests) = FALSE /\ ReplyType(m.type) \notin Pressing
    BY <1>1
  <2>1. l = [at |-> 0, from |-> m.to, to |-> m.from, type |-> ReplyType(m.type),
             needs |-> FALSE, re |-> 0, turn |-> 0, rank |-> 2]
    BY <2>0, Zenon DEF Letter
  <2>2. ReplyTo(m) = [l EXCEPT !.re = m.at]
    BY DEF ReplyTo
  <2> HIDE DEF l
  <2> QED BY <2>1, <2>2
<1> QED BY <1>1, <1>2, <1>3 DEF Message

LEMMA DatedFields ==
  ASSUME NEW S \in SUBSET Message, NEW now \in Nat
  PROVE  /\ Dated(S, now) \subseteq Message
         /\ \A m \in Dated(S, now) :
              \E s \in S : /\ m = At(s, now)
                         /\ m.at = now /\ m.from = s.from /\ m.to = s.to
                         /\ m.type = s.type /\ m.needs = s.needs
                         /\ m.re = s.re /\ m.turn = s.turn
BY AtFields DEF Dated

(* What letters say.                                                       *)
LEMMA MessageFields ==
  ASSUME NEW m \in Message
  PROVE  /\ m.at \in Nat /\ m.re \in Nat /\ m.turn \in Nat /\ m.needs \in BOOLEAN
         /\ m.from \in Nodes \cup {Orchestrator} /\ m.to \in Nodes \cup {Orchestrator}
         /\ m.type \in MessageType
BY DEF Message

LEMMA AddedBox ==
  ASSUME NEW box, NEW box2, NEW N, NEW now, Added(box, box2, N, now)
  PROVE  /\ Mailbox(box2) /\ Timed(box2, now)
         /\ DOMAIN box \subseteq Message /\ DOMAIN box2 \subseteq Message
         /\ \A m \in DOMAIN box2 : m.at \in Nat /\ m.re \in Nat
         /\ \A m \in DOMAIN box : m \notin N
         /\ \A m \in DOMAIN box2 : m.at < now => m \in DOMAIN box
<1>1. DOMAIN box \subseteq Message /\ DOMAIN box2 \subseteq Message
  BY DEF Added, Mailbox
<1>2. \A m \in DOMAIN box2 : m.at \in Nat /\ m.re \in Nat
  BY <1>1, MessageFields
<1>3. Mailbox(box2)
  BY <1>1 DEF Added, Mailbox, MessageStatus
<1>4. Timed(box2, now)
  BY <1>2 DEF Added, Timed
<1>5. \A m \in DOMAIN box : m \notin N
  BY <1>1, <1>2 DEF Added
<1>6. \A m \in DOMAIN box2 : m.at < now => m \in DOMAIN box
  BY <1>1, <1>2 DEF Added
<1> QED BY <1>1, <1>2, <1>3, <1>4, <1>5, <1>6

(* New letters that answer nothing, and are apart from each other.         *)
LEMMA AddFresh ==
  ASSUME NEW box, NEW box2, NEW N, NEW now, Added(box, box2, N, now),
         NEW except, NEW left, NEW done, NEW turn, BoxOK(box, except, left, done, turn), Fresh(N, done, turn)
  PROVE  BoxOK(box2, except, left, done, turn)
<1>1. /\ Mailbox(box2)
      /\ \A m \in DOMAIN box2 : m.at \in Nat /\ m.re \in Nat
      /\ \A m \in DOMAIN box : m \notin N
      /\ \A m \in DOMAIN box2 : m.at < now => m \in DOMAIN box
  BY AddedBox
<1>2. /\ now \in Nat /\ DOMAIN box2 = DOMAIN box \cup N
      /\ \A m \in DOMAIN box : m.at < now /\ m.re < m.at /\ box2[m] = box[m]
      /\ \A m \in N : m.at = now /\ m.re = 0 /\ box2[m] = "delivered"
  BY DEF Added, Fresh
<1>3. Distinct(DOMAIN box2)
  <2> SUFFICES ASSUME NEW m \in DOMAIN box2, NEW x \in DOMAIN box2,
                      m.needs, x.at = m.at, SameReply(x, m)
               PROVE  x = m
    BY DEF Distinct
  <2>1. (m \in DOMAIN box /\ x \in DOMAIN box) \/ (m \in N /\ x \in N)
    BY <1>1, <1>2
  <2> QED BY <2>1 DEF Distinct, BoxOK, Fresh
<1>4. ClosedOut(box2, except \cup left, done, turn)
  <2> SUFFICES ASSUME NEW n \in done, NEW m \in DOMAIN box2 \ (except \cup left), m.to = n, IsOpen(box2, m),
                      NEW report \in DOMAIN box2, IsReport(report, n, turn)
               PROVE  report.at < m.at
    BY DEF ClosedOut
  <2>1. report \in DOMAIN box
    BY <1>2 DEF Fresh
  <2>2. CASE m \in DOMAIN box
    <3>1. IsOpen(box, m)
      BY <1>2, <2>2 DEF IsOpen
    <3> QED BY <2>1, <2>2, <3>1 DEF ClosedOut, BoxOK
  <2>3. CASE m \in N
    BY <1>2, <2>1, <2>3
  <2> QED BY <1>2, <2>2, <2>3
<1>5. AnsweredIn(box2, except)
  <2> SUFFICES ASSUME NEW m \in DOMAIN box2 \ except, NEW r \in DOMAIN box2,
                      m.needs, r.re > 0, Answers(r, m)
               PROVE  /\ box2[m] = "completed"
                      /\ \A q \in DOMAIN box2 : q.re > 0 /\ Answers(q, m) => q = r
    BY DEF AnsweredIn
  <2>1. \A q \in DOMAIN box2 : q.re > 0 => q \in DOMAIN box
    BY <1>2
  <2>2. r.re < now
    BY <1>1, <1>2, <2>1
  <2>3. m \in DOMAIN box
    BY <1>1, <2>2 DEF Answers
  <2> QED BY <1>2, <2>1, <2>3 DEF BoxOK, AnsweredIn
<1> QED BY <1>1, <1>3, <1>4, <1>5 DEF BoxOK

(* Mail is completed, or read.                                             *)
LEMMA MarkBox ==
  ASSUME NEW box, NEW box2, NEW M, NEW st, Marked(box, box2, M, st),
         NEW except, NEW left, NEW done, NEW turn, BoxOK(box, except, left, done, turn),
         st = "completed" \/ \A m \in M \ except : box[m] = "delivered"
  PROVE  BoxOK(box2, except, left, done, turn)
<1>1. /\ DOMAIN box2 = DOMAIN box
      /\ \A m \in DOMAIN box : box2[m] = IF m \in M THEN st ELSE box[m]
      /\ st \in MessageStatus
  BY DEF Marked
<1>2. \A m \in DOMAIN box \ except : box[m] = "completed" => box2[m] = "completed"
  BY <1>1
<1>3. \A m \in DOMAIN box \ except : IsOpen(box2, m) => IsOpen(box, m)
  BY <1>1 DEF IsOpen
<1>4. Mailbox(box2) /\ Distinct(DOMAIN box2)
  BY <1>1 DEF BoxOK, Mailbox
<1>5. AnsweredIn(box2, except)
  BY <1>1, <1>2 DEF BoxOK, AnsweredIn
<1>6. ClosedOut(box2, except \cup left, done, turn)
  BY <1>1, <1>3 DEF BoxOK, ClosedOut
<1> QED BY <1>4, <1>5, <1>6 DEF BoxOK

(* The replies to M, sent at the time now.                                 *)
LEMMA DatedReplies ==
  ASSUME NEW M \in SUBSET Message, NEW now \in Nat, NEW r \in Dated(Replies(M), now)
  PROVE  \E m \in M : /\ r = At(ReplyTo(m), now)
                      /\ r.from = m.to /\ r.to = m.from /\ r.type = ReplyType(m.type)
                      /\ r.re = m.at /\ r.turn = 0 /\ r.needs = FALSE
<1>1. PICK m \in M : r = At(ReplyTo(m), now)
  BY DEF Dated, Replies
<1> DEFINE l == ReplyTo(m)
<1>2. /\ l \in Message
      /\ l.from = m.to /\ l.to = m.from /\ l.type = ReplyType(m.type) /\ l.re = m.at
      /\ l.turn = 0 /\ l.needs = FALSE
  BY ReplyFields, Zenon
<1>3. r = At(l, now)
  BY <1>1
<1> HIDE DEF l
<1>4. /\ At(l, now).from = l.from /\ At(l, now).to = l.to /\ At(l, now).type = l.type
      /\ At(l, now).needs = l.needs /\ At(l, now).re = l.re /\ At(l, now).turn = l.turn
  BY <1>2, AtFields
<1>5. /\ r.from = m.to /\ r.to = m.from /\ r.type = ReplyType(m.type) /\ r.re = m.at
      /\ r.turn = 0 /\ r.needs = FALSE
  BY <1>2, <1>3, <1>4
<1> QED BY <1>1, <1>5

(* The messages of M are completed and answered: each that had not been    *)
(* completed by the engine gets its one reply.                             *)
LEMMA ReplyBox ==
  ASSUME NEW box, NEW box1, NEW M, Marked(box, box1, M, "completed"),
         NEW box2, NEW now, Added(box1, box2, Dated(Replies(M), now), now),
         NEW except, NEW left, NEW done, NEW turn, BoxOK(box, except, left, done, turn),
         \A m \in M \ except : box[m] # "completed",
         \A n \in done : turn[n] # 0
  PROVE  BoxOK(box2, except, left, done, turn)
<1> DEFINE N == Dated(Replies(M), now)
<1>1. BoxOK(box1, except, left, done, turn)
  BY MarkBox
<1>2. /\ Mailbox(box2)
      /\ \A m \in DOMAIN box2 : m.at \in Nat /\ m.re \in Nat
      /\ \A m \in DOMAIN box1 : m \notin N
      /\ \A m \in DOMAIN box2 : m.at < now => m \in DOMAIN box1
  BY AddedBox
<1>3. /\ now \in Nat /\ DOMAIN box2 = DOMAIN box1 \cup N
      /\ \A m \in DOMAIN box1 : m.at < now /\ m.re < m.at /\ box2[m] = box1[m]
      /\ \A m \in N : m.at = now /\ m.re < now
  BY DEF Added
<1>4. /\ M \subseteq DOMAIN box /\ DOMAIN box1 = DOMAIN box /\ DOMAIN box \subseteq Message
      /\ \A m \in DOMAIN box : box1[m] = IF m \in M THEN "completed" ELSE box[m]
  BY DEF Marked, BoxOK, Mailbox
<1>5. ASSUME NEW r \in N
      PROVE  \E m \in M : /\ r = At(ReplyTo(m), now)
                          /\ r.from = m.to /\ r.to = m.from /\ r.type = ReplyType(m.type)
                          /\ r.re = m.at /\ r.turn = 0 /\ r.needs = FALSE
  <2>1. M \in SUBSET Message
    BY <1>4
  <2> QED BY <1>3, <2>1, DatedReplies
<1>6. Distinct(DOMAIN box2)
  <2> SUFFICES ASSUME NEW m \in DOMAIN box2, NEW x \in DOMAIN box2,
                      m.needs, x.at = m.at, SameReply(x, m)
               PROVE  x = m
    BY DEF Distinct
  <2>1. m \in DOMAIN box1
    BY <1>3, <1>5
  <2>2. x \in DOMAIN box1
    BY <1>2, <1>3, <2>1
  <2> QED BY <1>1, <2>1, <2>2 DEF Distinct, BoxOK
<1>7. ClosedOut(box2, except \cup left, done, turn)
  <2> SUFFICES ASSUME NEW n \in done, NEW m \in DOMAIN box2 \ (except \cup left), m.to = n, IsOpen(box2, m),
                      NEW report \in DOMAIN box2, IsReport(report, n, turn)
               PROVE  report.at < m.at
    BY DEF ClosedOut
  <2>1. report \in DOMAIN box1
    BY <1>3, <1>5 DEF IsReport
  <2>2. m \in DOMAIN box1
    BY <1>3, <1>5 DEF IsOpen, Asks
  <2>3. IsOpen(box1, m)
    BY <1>3, <2>2 DEF IsOpen
  <2> QED BY <1>1, <2>1, <2>2, <2>3 DEF ClosedOut, BoxOK
<1>8. AnsweredIn(box2, except)
  <2> SUFFICES ASSUME NEW m \in DOMAIN box2 \ except, NEW r \in DOMAIN box2,
                      m.needs, r.re > 0, Answers(r, m)
               PROVE  /\ box2[m] = "completed"
                      /\ \A q \in DOMAIN box2 : q.re > 0 /\ Answers(q, m) => q = r
    BY DEF AnsweredIn
  <2>1. r.re < now
    BY <1>2, <1>3
  <2>2. m \in DOMAIN box
    BY <1>2, <1>4, <2>1 DEF Answers
  <2>3. ASSUME NEW q \in N, Answers(q, m)
        PROVE  m \in M /\ q = At(ReplyTo(m), now)
    <3>1. PICK x \in M : /\ q = At(ReplyTo(x), now)
                         /\ q.from = x.to /\ q.to = x.from /\ q.type = ReplyType(x.type)
                         /\ q.re = x.at
      BY <1>5
    <3>2. x.at = m.at /\ SameReply(x, m)
      BY <2>3, <3>1 DEF Answers, SameReply
    <3>3. x = m
      BY <1>4, <2>2, <3>2 DEF BoxOK, Distinct
    <3> QED BY <3>1, <3>3
  <2>4. ASSUME NEW q \in DOMAIN box, q.re > 0, Answers(q, m)
        PROVE  /\ box[m] = "completed" /\ m \notin M
               /\ \A p \in DOMAIN box : p.re > 0 /\ Answers(p, m) => p = q
    BY <2>2, <2>4 DEF BoxOK, AnsweredIn
  <2>5. m \in M => box2[m] = "completed"
    BY <1>3, <1>4
  <2> QED BY <1>3, <1>4, <2>2, <2>3, <2>4, <2>5
<1> QED BY <1>2, <1>6, <1>7, <1>8 DEF BoxOK

(* Whom nobody is waiting for can report: from then on, what is left open  *)
(* is what was beyond its pages.                                           *)
LEMMA ReportBox ==
  ASSUME NEW box, NEW except, NEW left, NEW done, NEW more, NEW turn,
         BoxOK(box, except, left, done, turn),
         NEW left2, \A m \in left \ left2 : m.to \notin done,
         \A n \in more : \A m \in DOMAIN box \ (except \cup left2) :
           m.to = n => ~ IsOpen(box, m)
  PROVE  BoxOK(box, except, left2, done \cup more, turn)
BY DEF BoxOK, ClosedOut

(* Fewer steps, the same turns, more exceptions.                           *)
LEMMA FewerBox ==
  ASSUME NEW box, NEW except, NEW left, NEW done, NEW turn, BoxOK(box, except, left, done, turn),
         NEW except2, except \subseteq except2, NEW done2, done2 \subseteq done,
         NEW turn2, \A n \in done2 : turn2[n] = turn[n]
  PROVE  BoxOK(box, except2, left, done2, turn2)
BY DEF BoxOK, AnsweredIn, ClosedOut, IsReport

-----------------------------------------------------------------------------
(* The mail, write by write.                                               *)

(* What was read stays read.                                               *)
Later(box, box2) ==
  /\ DOMAIN box \subseteq DOMAIN box2
  /\ \A m \in DOMAIN box : box[m] # "delivered" => box2[m] # "delivered"

LEMMA LaterBox == ASSUME NEW x, NEW y, NEW z, Later(x, y), Later(y, z) PROVE Later(x, z)
BY DEF Later

LEMMA AddedLater ==
  ASSUME NEW box, NEW box2, NEW N, NEW now, Added(box, box2, N, now)
  PROVE  Later(box, box2)
BY DEF Added, Later

LEMMA MarkedLater ==
  ASSUME NEW box, NEW box2, NEW M, NEW st, Marked(box, box2, M, st), st # "delivered"
  PROVE  Later(box, box2)
BY DEF Marked, Later

LEMMA HandedLater ==
  ASSUME NEW box, NEW box2, Later(box, box2), NEW n, HandedOver(box, n)
  PROVE  HandedOver(box2, n)
BY DEF HandedOver, Later

(* A page leaves out only what there is a page before, or may be.          *)
LEMMA PageLeaves ==
  ASSUME NEW S, NEW P \in Pages(S), NEW m \in S, m \notin P
  PROVE  /\ Cardinality(P) = PageSize /\ \A o \in P : o.rank <= m.rank
         /\ Beyond(S, m)
<1>1. /\ P \subseteq S /\ Cardinality(P) = PageSize
      /\ \A o \in P : o.rank <= m.rank
  BY DEF Pages
<1>2. P \in SUBSET {o \in S \ {m} : o.rank <= m.rank}
  BY <1>1
<1> QED BY <1>1, <1>2 DEF Beyond

(* What is sent is later than all there is.                                *)
LEMMA SendMail ==
  ASSUME NEW tx, IsTx(tx), NEW S \in SUBSET Message, Mailbox(Shown(tx)),
         NEW b \in Nat, Timed(Shown(tx), b),
         \A m \in DOMAIN own.mail : m.at \in Nat /\ m.at <= b,
         \A s \in S : s.re = 0 \/ \E m \in DOMAIN Shown(tx) : s.re = m.at
  PROVE  \E now \in Nat :
           /\ \A m \in DOMAIN own.mail : m.at < now
           /\ Send(tx, S).mail = Over([m \in Dated(S, now) |-> "delivered"], tx.mail)
           /\ Added(Shown(tx), Shown(Send(tx, S)), Dated(S, now), now)
<1> DEFINE T   == {0} \cup {m.at : m \in DOMAIN Shown(tx) \cup DOMAIN own.mail}
           now == 1 + Max(T)
           N   == Dated(S, now)
<1>1. DOMAIN Shown(tx) \subseteq Message /\ \A m \in DOMAIN Shown(tx) : m.at \in Nat /\ m.at <= b
  BY MessageFields DEF Mailbox, Timed
<1>2. /\ T \in SUBSET Nat /\ T # {} /\ \A x \in T : x <= b
      /\ 0 \in T /\ \A m \in DOMAIN Shown(tx) \cup DOMAIN own.mail : m.at \in T
  BY <1>1
<1>3. /\ Send(tx, S) = [tx EXCEPT !.mail = Over([m \in N |-> "delivered"], @)]
  BY DEF Send, Dated, At
<1> HIDE DEF T
<1>4. Max(T) \in T /\ \A x \in T : x <= Max(T)
  BY <1>2, MaxIsGreatest
<1>5. /\ now \in Nat /\ now > 0
      /\ \A m \in DOMAIN Shown(tx) \cup DOMAIN own.mail : m.at < now
  <2>1. Max(T) \in Nat
    BY <1>2, <1>4
  <2>2. \A x \in T : x \in Nat /\ x < now
    BY <1>2, <1>4, <2>1
  <2>3. now \in Nat /\ now > 0
    BY <2>1
  <2> HIDE DEF now
  <2>4. ASSUME NEW m \in DOMAIN Shown(tx) \cup DOMAIN own.mail PROVE m.at < now
    <3>1. m.at \in T
      BY <1>2
    <3> QED BY <2>2, <3>1
  <2> QED BY <2>3, <2>4
<1> HIDE DEF now
<1>6. Send(tx, S).mail = Over([m \in N |-> "delivered"], tx.mail)
  BY <1>3 DEF IsTx
<1>7. /\ N \subseteq Message
      /\ \A m \in N : \E s \in S : m.at = now /\ m.re = s.re
  BY <1>5, DatedFields
<1>8. \A m \in N : m.at = now /\ m.re < m.at
  BY <1>5, <1>7
<1>9. \A m \in DOMAIN Shown(tx) : m \notin N
  BY <1>1, <1>5, <1>8
<1>10. /\ DOMAIN Shown(tx) = DOMAIN tx.mail \cup DOMAIN mail
       /\ \A m \in DOMAIN tx.mail : Shown(tx)[m] = tx.mail[m]
       /\ \A m \in DOMAIN mail : m \notin DOMAIN tx.mail => Shown(tx)[m] = mail[m]
  BY DEF Shown, Over
<1>11. /\ DOMAIN Send(tx, S).mail = N \cup DOMAIN tx.mail
       /\ \A m \in N : Send(tx, S).mail[m] = "delivered"
       /\ \A m \in DOMAIN tx.mail : m \notin N => Send(tx, S).mail[m] = tx.mail[m]
  BY <1>6 DEF Over
<1>12. /\ DOMAIN Shown(Send(tx, S)) = DOMAIN Send(tx, S).mail \cup DOMAIN mail
       /\ \A m \in DOMAIN Send(tx, S).mail : Shown(Send(tx, S))[m] = Send(tx, S).mail[m]
       /\ \A m \in DOMAIN mail : m \notin DOMAIN Send(tx, S).mail =>
                                    Shown(Send(tx, S))[m] = mail[m]
  BY DEF Shown, Over
<1> HIDE DEF N
<1>13. DOMAIN Shown(Send(tx, S)) = DOMAIN Shown(tx) \cup N
  BY <1>10, <1>11, <1>12
<1>14. \A m \in N : Shown(Send(tx, S))[m] = "delivered"
  BY <1>11, <1>12
<1>15. \A m \in DOMAIN Shown(tx) : Shown(Send(tx, S))[m] = Shown(tx)[m]
  BY <1>9, <1>10, <1>11, <1>12
<1>16. Added(Shown(tx), Shown(Send(tx, S)), N, now)
  BY <1>5, <1>7, <1>8, <1>13, <1>14, <1>15 DEF Added, Timed
<1> QED BY <1>5, <1>6, <1>16 DEF N

LEMMA SetMail ==
  ASSUME NEW tx, IsTx(tx), NEW M, M \subseteq DOMAIN Shown(tx), NEW st \in MessageStatus
  PROVE  /\ Marked(Shown(tx), Shown(SetStatus(tx, M, st)), M, st)
         /\ DOMAIN SetStatus(tx, M, st).mail = DOMAIN tx.mail \cup M
<1> DEFINE t2 == SetStatus(tx, M, st)
<1>1. t2.mail = Over([m \in M |-> st], tx.mail)
  BY DEF SetStatus, IsTx
<1>2. /\ DOMAIN t2.mail = M \cup DOMAIN tx.mail
      /\ \A m \in M : t2.mail[m] = st
      /\ \A m \in DOMAIN tx.mail : m \notin M => t2.mail[m] = tx.mail[m]
  BY <1>1 DEF Over
<1>3. /\ DOMAIN Shown(tx) = DOMAIN tx.mail \cup DOMAIN mail
      /\ \A m \in DOMAIN tx.mail : Shown(tx)[m] = tx.mail[m]
      /\ \A m \in DOMAIN mail : m \notin DOMAIN tx.mail => Shown(tx)[m] = mail[m]
  BY DEF Shown, Over
<1>4. /\ DOMAIN Shown(t2) = DOMAIN t2.mail \cup DOMAIN mail
      /\ \A m \in DOMAIN t2.mail : Shown(t2)[m] = t2.mail[m]
      /\ \A m \in DOMAIN mail : m \notin DOMAIN t2.mail => Shown(t2)[m] = mail[m]
  BY DEF Shown, Over
<1> HIDE DEF t2
<1>5. DOMAIN Shown(t2) = DOMAIN Shown(tx)
  BY <1>2, <1>3, <1>4
<1>6. \A m \in DOMAIN Shown(tx) : Shown(t2)[m] = IF m \in M THEN st ELSE Shown(tx)[m]
  BY <1>2, <1>3, <1>4
<1>7. Marked(Shown(tx), Shown(t2), M, st)
  BY <1>5, <1>6 DEF Marked
<1> QED BY <1>2, <1>7 DEF t2

(* What the engine's transaction has become.                               *)
Sound(tx, except, left, done, turn) ==
  /\ IsTx(tx)
  /\ BoxOK(Shown(tx), except, left, done, turn)
  /\ \E b \in Nat : Timed(Shown(tx), b)
  /\ Later(Shown(own), Shown(tx))

LEMMA OwnBounded ==
  ASSUME NEW tx, NEW except, NEW left, NEW done, NEW turn, Sound(tx, except, left, done, turn),
         NEW b, Timed(Shown(tx), b)
  PROVE  \A m \in DOMAIN own.mail : m.at \in Nat /\ m.at <= b
<1>1. DOMAIN own.mail \subseteq DOMAIN Shown(own)
  BY DEF Shown, Over
<1>2. DOMAIN own.mail \subseteq DOMAIN Shown(tx) /\ DOMAIN Shown(tx) \subseteq Message
  BY <1>1 DEF Sound, Later, BoxOK, Mailbox
<1> QED BY <1>2, MessageFields DEF Timed

LEMMA DatedFresh ==
  ASSUME NEW S \in SUBSET Message, NEW now \in Nat, NEW done, NEW turn,
         \A s \in S : s.re = 0 /\ \A n \in done : ~ IsReport(s, n, turn),
         \A s, t \in S : s.needs /\ SameReply(t, s) => t = s
  PROVE  Fresh(Dated(S, now), done, turn)
<1>1. \A m \in Dated(S, now) : \E s \in S :
        /\ m = At(s, now) /\ m.from = s.from /\ m.to = s.to
        /\ m.type = s.type /\ m.needs = s.needs /\ m.re = s.re /\ m.turn = s.turn
  BY DatedFields
<1>2. \A m \in Dated(S, now) : m.re = 0 /\ \A n \in done : ~ IsReport(m, n, turn)
  BY <1>1 DEF IsReport
<1>3. Distinct(Dated(S, now))
  <2> SUFFICES ASSUME NEW m \in Dated(S, now), NEW x \in Dated(S, now),
                      m.needs, SameReply(x, m)
               PROVE  x = m
    BY DEF Distinct
  <2>1. PICK s \in S : /\ m = At(s, now) /\ m.needs = s.needs
                       /\ m.from = s.from /\ m.to = s.to /\ m.type = s.type
    BY <1>1
  <2>2. PICK t \in S : /\ x = At(t, now)
                       /\ x.from = t.from /\ x.to = t.to /\ x.type = t.type
    BY <1>1
  <2>3. s.needs /\ SameReply(t, s)
    BY <2>1, <2>2 DEF SameReply
  <2> QED BY <2>1, <2>2, <2>3
<1> QED BY <1>2, <1>3 DEF Fresh

LEMMA SoundSend ==
  ASSUME NEW tx, NEW except, NEW left, NEW done, NEW turn, Sound(tx, except, left, done, turn),
         NEW S \in SUBSET Message,
         \A s \in S : s.re = 0 /\ \A n \in done : ~ IsReport(s, n, turn),
         \A s, t \in S : s.needs /\ SameReply(t, s) => t = s
  PROVE  \E now \in Nat :
           /\ Sound(Send(tx, S), except, left, done, turn)
           /\ Send(tx, S).mail = Over([m \in Dated(S, now) |-> "delivered"], tx.mail)
           /\ Added(Shown(tx), Shown(Send(tx, S)), Dated(S, now), now)
<1>1. PICK b \in Nat : Timed(Shown(tx), b)
  BY DEF Sound
<1>2. \A m \in DOMAIN own.mail : m.at \in Nat /\ m.at <= b
  BY <1>1, OwnBounded
<1>3. IsTx(tx) /\ Mailbox(Shown(tx)) /\ BoxOK(Shown(tx), except, left, done, turn)
  BY DEF Sound, BoxOK
<1>4. PICK now \in Nat :
        /\ Send(tx, S).mail = Over([m \in Dated(S, now) |-> "delivered"], tx.mail)
        /\ Added(Shown(tx), Shown(Send(tx, S)), Dated(S, now), now)
  BY <1>1, <1>2, <1>3, SendMail
<1>6. Fresh(Dated(S, now), done, turn)
  BY DatedFresh
<1>7. BoxOK(Shown(Send(tx, S)), except, left, done, turn)
  BY <1>3, <1>4, <1>6, AddFresh
<1>8. Timed(Shown(Send(tx, S)), now)
  BY <1>4, AddedBox
<1>9. Later(Shown(own), Shown(Send(tx, S)))
  BY <1>4, AddedLater, LaterBox DEF Sound
<1>10. IsTx(Send(tx, S))
  BY <1>3, SendTx
<1> QED BY <1>4, <1>7, <1>8, <1>9, <1>10 DEF Sound

LEMMA SoundSet ==
  ASSUME NEW tx, NEW except, NEW left, NEW done, NEW turn, Sound(tx, except, left, done, turn),
         NEW M, M \subseteq DOMAIN Shown(tx), NEW st \in {"acknowledged", "completed"},
         st = "completed" \/ \A m \in M \ except : Shown(tx)[m] = "delivered"
  PROVE  /\ Sound(SetStatus(tx, M, st), except, left, done, turn)
         /\ Marked(Shown(tx), Shown(SetStatus(tx, M, st)), M, st)
<1>1. IsTx(tx) /\ BoxOK(Shown(tx), except, left, done, turn) /\ st \in MessageStatus /\ st # "delivered"
  BY DEF Sound, MessageStatus
<1>2. Marked(Shown(tx), Shown(SetStatus(tx, M, st)), M, st)
  BY <1>1, SetMail
<1>3. BoxOK(Shown(SetStatus(tx, M, st)), except, left, done, turn)
  BY <1>1, <1>2, MarkBox
<1>4. \E b \in Nat : Timed(Shown(SetStatus(tx, M, st)), b)
  BY <1>2 DEF Sound, Timed, Marked
<1>5. Later(Shown(own), Shown(SetStatus(tx, M, st)))
  BY <1>1, <1>2, MarkedLater, LaterBox DEF Sound
<1>6. IsTx(SetStatus(tx, M, st))
  BY <1>1, SetStatusTx
<1> QED BY <1>2, <1>3, <1>4, <1>5, <1>6 DEF Sound

LEMMA SoundRespond ==
  ASSUME NEW tx, NEW except, NEW left, NEW done, NEW turn, Sound(tx, except, left, done, turn),
         NEW M, M \subseteq DOMAIN Shown(tx),
         \A m \in M \ except : Shown(tx)[m] # "completed",
         \A n \in done : turn[n] # 0
  PROVE  /\ Sound(Respond(tx, M), except, left, done, turn)
         /\ \E box, now : /\ now \in Nat
                         /\ Marked(Shown(tx), box, M, "completed")
                         /\ Added(box, Shown(Respond(tx, M)), Dated(Replies(M), now), now)
<1> DEFINE set == SetStatus(tx, M, "completed")
           box == Shown(set)
           res == Respond(tx, M)
<1>1. Sound(set, except, left, done, turn) /\ Marked(Shown(tx), box, M, "completed")
  BY SoundSet
<1>2. res = Send(set, Replies(M))
  BY DEF Respond, Replies
<1> HIDE DEF set, res
<1>3. /\ IsTx(set) /\ Mailbox(box) /\ BoxOK(Shown(tx), except, left, done, turn)
      /\ M \subseteq DOMAIN box /\ DOMAIN box \subseteq Message
  BY <1>1 DEF Sound, BoxOK, Mailbox, Marked
<1>4. Replies(M) \subseteq Message /\ \A s \in Replies(M) : \E m \in DOMAIN box : s.re = m.at
  <2> SUFFICES ASSUME NEW m \in M
               PROVE  ReplyTo(m) \in Message /\ ReplyTo(m).re = m.at
    BY <1>3 DEF Replies
  <2> QED BY <1>3, ReplyFields
<1>5. PICK b \in Nat : Timed(box, b)
  BY <1>1 DEF Sound
<1>6. \A m \in DOMAIN own.mail : m.at \in Nat /\ m.at <= b
  BY <1>1, <1>5, OwnBounded
<1>7. PICK now \in Nat : Added(box, Shown(Send(set, Replies(M))), Dated(Replies(M), now), now)
  BY <1>3, <1>4, <1>5, <1>6, SendMail
<1>8. BoxOK(Shown(res), except, left, done, turn)
  BY <1>1, <1>2, <1>3, <1>7, ReplyBox
<1>9. Timed(Shown(res), now) /\ Later(Shown(own), Shown(res))
  BY <1>1, <1>2, <1>7, AddedBox, AddedLater, LaterBox DEF Sound
<1>10. IsTx(res)
  BY <1>2, <1>3, SendTx
<1> QED BY <1>1, <1>2, <1>7, <1>8, <1>9, <1>10 DEF Sound, res

(* Desks and events are not mail.                                          *)
LEMMA SoundNotes ==
  ASSUME NEW tx, NEW tx2, IsTx(tx2), tx2.mail = tx.mail
  PROVE  /\ Shown(tx2) = Shown(tx)
         /\ \A except, left, done, turn : Sound(tx, except, left, done, turn) =>
                                      Sound(tx2, except, left, done, turn)
BY DEF Shown, Sound

LEMMA ShowMail ==
  ASSUME NEW tx, IsTx(tx), NEW N, NEW status
  PROVE  IsTx(Show(tx, N, status)) /\ Show(tx, N, status).mail = tx.mail
<1>1. IsTx(Show(tx, N, status))
  BY ShowTx
<1>2. Show(tx, N, status).mail = tx.mail
  BY DEF Show, IsTx
<1> QED BY <1>1, <1>2

LEMMA LogMail ==
  ASSUME NEW tx, IsTx(tx), NEW type, NEW N
  PROVE  IsTx(Log(tx, type, N)) /\ Log(tx, type, N).mail = tx.mail
BY DEF Log, IsTx

-----------------------------------------------------------------------------
(* The records the mail follows.                                           *)

(* Only the answers of a batch put results on record.                      *)
LEMMA DoneKept ==
  ASSUME TypeOK, SettledInv, RecordInv, [Next]_vars, ~RecordBatch
  PROVE  Done' \subseteq Done /\ UNCHANGED tries
<1>1. UNCHANGED tries
  BY DEF Next, Engine, Environment, Operator, StartExecute, StartResume, ResumeFinished,
         FinishCancelled, PassCheck, FinishCompleted, SettleSkips, PauseForApproval, Prepare,
         Dispatch, FinishFailed, RouteNothing, RouteFeedback, Close, Spawn, RecordCrash, Restart,
         RequestCancellation, ResumeWorkflow, ApproveNode, RejectNode, SkipNode, RetryNode,
         Control, Request, rows, vars
<1>2. ASSUME NEW n \in Nodes, node'[n] = "completed" PROVE node[n] = "completed"
  <2>1. CASE \/ StartExecute \/ StartResume \/ ResumeFinished \/ PassCheck \/ Prepare
             \/ RouteNothing \/ Close \/ Spawn \/ RecordCrash
    BY <1>2, <2>1
       DEF StartExecute, StartResume, ResumeFinished, PassCheck, Prepare, StageNodes,
           RouteNothing, Close, Spawn, RecordCrash, rows
  <2>2. ASSUME pc \in Looping, NEW new,
               node'[n] = IF new[n] # Entity(n) THEN new[n] ELSE Own(n),
               new[n] = "completed" => Entity(n) = "completed"
        PROVE  node[n] = "completed"
    BY <1>2, <2>2, ResultInMemory
  <2>3. CASE SettleSkips \/ PauseForApproval
    <3>1. /\ pc \in Looping
          /\ node'[n] = IF Partitioned[n] # Entity(n) THEN Partitioned[n] ELSE Own(n)
      BY <2>3 DEF SettleSkips, PauseForApproval, Commit, Looping, Places
    <3> QED BY <2>2, <3>1, PartitionLeaves DEF Leaves
  <2>4. CASE FinishCompleted \/ FinishFailed \/ Dispatch
    <3>1. pc \in Looping /\ node'[n] = Own(n)
      BY <2>4 DEF FinishCompleted, FinishFailed, Dispatch, Commit, Entities, Looping, Places
    <3> QED BY <1>2, <3>1, ResultInMemory
  <2>5. CASE FinishCancelled
    <3>1. /\ pc \in Looping
          /\ node'[n] = "cancelled" \/ node'[n] = Own(n)
      BY <2>5 DEF FinishCancelled, Commit, Setting, Looping, Places
    <3> QED BY <1>2, <3>1, ResultInMemory
  <2>6. CASE RouteFeedback
    <3>1. /\ pc \in Looping
          /\ node'[n] = "waiting" \/ node'[n] = Own(n)
      BY <2>6 DEF RouteFeedback, Commit, Setting, Looping, Places
    <3> QED BY <1>2, <3>1, ResultInMemory
  <2>7. CASE Restart \/ Operator
    BY <1>2, <2>7
       DEF Restart, Operator, RequestCancellation, ResumeWorkflow, ApproveNode, RejectNode,
           SkipNode, RetryNode, TypeOK
  <2>8. CASE UNCHANGED vars
    BY <1>2, <2>8 DEF vars, rows
  <2> QED
    BY <2>1, <2>3, <2>4, <2>5, <2>6, <2>7, <2>8 DEF Next, Engine, Environment
<1> QED BY <1>1, <1>2 DEF Done

(* An answer of a batch is of an attempt nobody has made before.           *)
LEMMA DoneRecorded ==
  ASSUME TypeOK, SettledInv, RecordInv, RecordBatch, NEW n \in Nodes
  PROVE  /\ n \in batch => /\ node[n] # "completed"
                           /\ node'[n] = "completed" => tries'[n] > 0
         /\ n \notin batch => /\ tries'[n] = tries[n]
                              /\ node'[n] = "completed" => node[n] = "completed"
<1>1. PICK result \in [batch -> Results], made \in [batch -> 1 .. MaxAttempts] :
        RecordBatch!2!(result, made)
  BY DEF RecordBatch
<1>2. pc = "calling" /\ pc \in Looping
  BY DEF RecordBatch, Looping, Places
<1>3. CASE n \in batch
  <2>1. state.used[n] = tries[n] /\ tries[n] \in Nat /\ made[n] \in Nat \ {0}
    BY <1>2, <1>3, PlanAssumption DEF RecordInv, Recorded, TypeOK
  <2>3. tries'[n] = state.used[n] + made[n]
    BY <1>1, <1>3, <2>1
  <2>4. Entity(n) = "running"
    BY <1>2, <1>3 DEF SettledInv
  <2>5. node[n] # "completed"
    BY <1>2, <2>4, ResultInMemory
  <2> QED BY <1>3, <2>1, <2>3, <2>5
<1>4. CASE n \notin batch
  <2>1. tries'[n] = tries[n]
    BY <1>1, <1>4
  <2>2. node'[n] = Own(n)
    BY <1>1, <1>4 DEF Commit
  <2> QED BY <1>2, <1>4, <2>1, <2>2, ResultInMemory
<1> QED BY <1>3, <1>4

(* A result an attempt is called with is on record.                        *)
LEMMA OutRecorded ==
  ASSUME SettledInv, RecordInv, pc \in Looping, NEW d \in Nodes, state.out[d] # NoPayload
  PROVE  node[d] = "completed" /\ state.used[d] = tries[d]
BY ResultInMemory DEF RecordInv, Recorded

-----------------------------------------------------------------------------
(* The desks are of the type they should be.                               *)

Desks(tx) == \A n \in DOMAIN tx.presence : n \in Nodes /\ tx.presence[n] \in RuntimeStatus

DeskOK ==
  /\ presence \in [Nodes -> RuntimeStatus] /\ Desks(own)
  /\ DOMAIN drained = Nodes
  /\ prepared \subseteq Nodes /\ elsewhere \subseteq Nodes
  /\ letters \in 0 .. MaxLetters

LEMMA ShowDesks ==
  ASSUME NEW tx, IsTx(tx), Desks(tx), NEW N, N \subseteq Nodes, NEW status \in RuntimeStatus
  PROVE  IsTx(Show(tx, N, status)) /\ Desks(Show(tx, N, status))
<1>1. IsTx(Show(tx, N, status))
  BY ShowTx
<1>2. Show(tx, N, status).presence = Over([n \in N |-> status], tx.presence)
  BY DEF Show, IsTx
<1>3. Desks(Show(tx, N, status))
  BY <1>2 DEF Desks, Over
<1> QED BY <1>1, <1>3

LEMMA SameDesks ==
  ASSUME NEW tx, NEW tx2, Desks(tx), tx2.presence = tx.presence
  PROVE  Desks(tx2)
BY DEF Desks

LEMMA NoDesks == Desks(NoTx)
BY DEF Desks, NoTx

LEMMA CommitDesks ==
  ASSUME DeskOK, NEW tx, Desks(tx), NEW next, Desks(next), CommitThen(tx, next)
  PROVE  presence' \in [Nodes -> RuntimeStatus] /\ Desks(own)' /\ elsewhere' \subseteq Nodes
BY DEF CommitThen, Over, Desks, DeskOK

LEMMA SkipsDesks ==
  ASSUME ShownInv, DeskOK PROVE IsTx(SkipsTold) /\ Desks(SkipsTold)
<1>1. NotNeeded \subseteq Nodes /\ "idle" \in RuntimeStatus
  BY DEF NotNeeded, Ready, ReadyNodes, RuntimeStatus
<1>2. IsTx(Show(own, NotNeeded, "idle")) /\ Desks(Show(own, NotNeeded, "idle"))
  BY <1>1, ShowDesks DEF ShownInv, DeskOK
<1> QED BY <1>2, SendTx, SameDesks DEF SkipsTold

LEMMA FinishedDesks ==
  ASSUME ShownInv, DeskOK, NEW done \in SUBSET Nodes, NEW failed \in SUBSET Nodes, NEW turn,
         NEW A
  PROVE  Desks(Finished(Reported(done, failed, turn), A, done, failed, turn))
<1> DEFINE said == Reported(done, failed, turn)
           sent == Send(Respond(said, A), Handoffs(done, turn))
           read == SetStatus(sent, UNION {drained[n] : n \in done}, "completed")
           home == Show(read, done, "idle")
           desk == Show(home, failed, "failed")
<1>1. IsTx(own) /\ Desks(own)
  BY DEF ShownInv, DeskOK
<1>2. IsTx(said) /\ Desks(said)
  BY <1>1, SendTx, SameDesks DEF Reported
<1>8. Finished(said, A, done, failed, turn)
        = Log(Log(desk, "agent_completed", done), "agent_failed", failed)
  BY DEF Finished
<1> HIDE DEF said
<1>3. IsTx(Respond(said, A)) /\ Desks(Respond(said, A))
  BY <1>2, RespondTx, SameDesks
<1>4. IsTx(sent) /\ Desks(sent)
  BY <1>3, SendTx, SameDesks
<1> HIDE DEF sent
<1>5. IsTx(read) /\ Desks(read)
  BY <1>4, SetStatusTx, SameDesks
<1> HIDE DEF read
<1>6. IsTx(home) /\ Desks(home)
  BY <1>5, ShowDesks DEF RuntimeStatus
<1> HIDE DEF home
<1>7. IsTx(desk) /\ Desks(desk)
  BY <1>6, ShowDesks DEF RuntimeStatus
<1> HIDE DEF desk
<1>9. Finished(said, A, done, failed, turn).presence = desk.presence
  BY <1>7, <1>8, LogTx
<1> QED BY <1>7, <1>9, SameDesks DEF said

LEMMA DeskStep == ASSUME TypeOK, ShownInv, DeskOK, NetworkNext PROVE DeskOK'
<1>0. IsTx(own) /\ Desks(own) /\ IsTx(NoTx) /\ Desks(NoTx)
  BY NoTxTx, NoDesks DEF ShownInv, DeskOK
<1>1. CASE Quiet
  BY <1>1 DEF Quiet, network, DeskOK, Desks
<1>2. CASE SettleSkipsNet
  BY <1>0, <1>2, SkipsDesks, CommitDesks DEF SettleSkipsNet, DeskOK
<1>3. CASE PauseForApprovalNet
  <2> DEFINE next == Log(Show(NoTx, Asking, "waiting"), "human_approval_requested", Asking)
  <2>1. Asking \subseteq Nodes /\ "waiting" \in RuntimeStatus
    BY DEF Asking, Runnable, Ready, ReadyNodes, RuntimeStatus
  <2>2. IsTx(Show(NoTx, Asking, "waiting")) /\ Desks(Show(NoTx, Asking, "waiting"))
    BY <1>0, <2>1, ShowDesks
  <2>3. Desks(next)
    BY <2>2, LogTx, SameDesks
  <2>4. CommitThen(SkipsTold, next) /\ ForgetBatch /\ UNCHANGED letters
    BY <1>3 DEF PauseForApprovalNet
  <2> HIDE DEF next
  <2>5. presence' \in [Nodes -> RuntimeStatus] /\ Desks(own)' /\ elsewhere' \subseteq Nodes
    BY <2>3, <2>4, SkipsDesks, CommitDesks
  <2> QED BY <2>4, <2>5 DEF ForgetBatch, DeskOK
<1>4. CASE PrepareNet
  <2>1. Desks(own')
    BY <1>4, SkipsDesks DEF PrepareNet, Stage
  <2>2. Allowed \subseteq Nodes
    BY DEF Allowed, Runnable, Ready, ReadyNodes
  <2> QED BY <1>4, <2>1, <2>2 DEF PrepareNet, Stage, DeskOK, Desks
<1>5. ASSUME NEW n \in Nodes, PrepareNode(n) PROVE DeskOK'
  <2>1. PICK page \in Pages(Unread(n)), asked \in SUBSET (Nodes \ {n}) :
          /\ Cardinality(asked) <= letters /\ letters' = letters - Cardinality(asked)
          /\ own' = Log(Show(Consult(SetStatus(own, page, "acknowledged"), n, asked),
                             {n}, Desk(n)),
                        "agent_started", {n})
          /\ drained' = [drained EXCEPT ![n] = page]
    BY <1>5 DEF PrepareNode, Stage
  <2> DEFINE read == SetStatus(own, page, "acknowledged")
             talk == Consult(read, n, asked)
             here == Show(talk, {n}, Desk(n))
  <2>2. IsTx(read) /\ Desks(read)
    BY <1>0, SetStatusTx, SameDesks
  <2> HIDE DEF read
  <2>3. IsTx(talk) /\ Desks(talk)
    BY <2>2, ConsultTx, SameDesks
  <2> HIDE DEF talk
  <2>4. IsTx(here) /\ Desks(here)
    BY <2>3, ShowDesks DEF Desk, RuntimeStatus
  <2>5. own' = Log(here, "agent_started", {n})
    BY <2>1 DEF here, talk, read
  <2> HIDE DEF here
  <2>6. Desks(own)'
    BY <2>4, <2>5, LogTx, SameDesks DEF Desks
  <2>7. letters' \in 0 .. MaxLetters
    <3>1. Cardinality(asked) \in Nat
      BY PlanAssumption, FS_Subset, FS_CardinalityType
    <3> QED BY <2>1, <3>1, NetworkAssumption DEF DeskOK
  <2> QED BY <1>5, <2>1, <2>6, <2>7 DEF PrepareNode, Stage, DeskOK
<1>6. CASE DispatchNet
  BY <1>0, <1>6, CommitDesks DEF DispatchNet, DeskOK
<1>7. CASE RecordBatchNet
  <2> DEFINE done   == {n \in batch : node'[n] = "completed"}
             failed == batch \ done
             turn   == state'.used
             said   == Reported(done, failed, turn)
  <2>1. PICK A : CommitThen(Finished(said, A, done, failed, turn), NoTx)
    BY <1>7 DEF RecordBatchNet
  <2>2. done \in SUBSET Nodes /\ failed \in SUBSET Nodes
    BY DEF TypeOK
  <2> DEFINE tx == Finished(said, A, done, failed, turn)
  <2> HIDE DEF done, failed, turn
  <2>3. Desks(tx)
    BY <2>2, FinishedDesks
  <2> HIDE DEF tx
  <2>5. ForgetBatch /\ UNCHANGED letters
    BY <1>7 DEF RecordBatchNet
  <2>4. presence' \in [Nodes -> RuntimeStatus] /\ Desks(own)' /\ elsewhere' \subseteq Nodes
    BY <1>0, <2>1, <2>3, CommitDesks DEF tx
  <2> QED BY <2>4, <2>5 DEF ForgetBatch, DeskOK
<1>8. CASE RouteFeedbackNet
  <2>1. PICK v \in FirstVerdict :
          CommitThen(own, Show(Send(NoTx, {Letter(v, Feedback[v], "information_request",
                                                  sentBack'[Feedback[v]])}),
                               {Feedback[v]}, "waiting"))
    BY <1>8 DEF RouteFeedbackNet
  <2> DEFINE t    == Feedback[v]
             sent == Send(NoTx, {Letter(v, t, "information_request", sentBack'[t])})
             next == Show(sent, {t}, "waiting")
  <2>2. t \in Nodes
    BY PlanAssumption DEF FirstVerdict, Verdicts
  <2>3. CommitThen(own, next)
    BY <2>1
  <2>4. IsTx(sent) /\ Desks(sent)
    BY <1>0, SendTx, SameDesks
  <2> HIDE DEF sent, t
  <2>5. Desks(next)
    BY <2>2, <2>4, ShowDesks DEF RuntimeStatus
  <2> HIDE DEF next
  <2>6. presence' \in [Nodes -> RuntimeStatus] /\ Desks(own)' /\ elsewhere' \subseteq Nodes
    BY <1>0, <2>3, <2>5, CommitDesks
  <2> QED BY <1>8, <2>2, <2>3, <2>6 DEF RouteFeedbackNet, DeskOK
<1>9. CASE FinishFailedNet
  BY <1>0, <1>9, CommitDesks DEF FinishFailedNet, ForgetBatch, DeskOK
<1>10. CASE FinishCompletedNet
  <2> DEFINE next == Log(NoTx, "workflow_completed", {Orchestrator})
  <2>1. Desks(next)
    BY <1>0, LogTx, SameDesks
  <2>2. CommitThen(own, next) /\ ForgetBatch /\ UNCHANGED letters
    BY <1>10 DEF FinishCompletedNet
  <2> HIDE DEF next
  <2>3. presence' \in [Nodes -> RuntimeStatus] /\ Desks(own)' /\ elsewhere' \subseteq Nodes
    BY <1>0, <2>1, <2>2, CommitDesks
  <2> QED BY <2>2, <2>3 DEF ForgetBatch, DeskOK
<1>11. CASE CloseNet
  BY <1>0, <1>11 DEF CloseNet, Stage, DeskOK, Desks
<1>12. CASE CrashNet
  BY <1>0, <1>12 DEF CrashNet, Stage, ForgetBatch, DeskOK, Desks
<1>13. CASE RestartNet
  BY <1>0, <1>13 DEF RestartNet, ForgetBatch, DeskOK, Desks, RuntimeStatus
<1>14. CASE Outsider
  <2>1. ASSUME NEW tx, Desks(tx), Outside(tx) PROVE DeskOK'
    <3>1. CommitThen(tx, own) /\ UNCHANGED <<drained, prepared>>
          /\ letters > 0 /\ letters' = letters - 1
      BY <2>1 DEF Outside
    <3>2. presence' \in [Nodes -> RuntimeStatus] /\ Desks(own)' /\ elsewhere' \subseteq Nodes
      BY <1>0, <2>1, <3>1, CommitDesks
    <3>3. letters' \in 0 .. MaxLetters
      BY <3>1, NetworkAssumption DEF DeskOK
    <3> QED BY <3>1, <3>2, <3>3 DEF DeskOK
  <2>2. \A S : Desks(Send(NoTx, S))
    BY <1>0, SendTx, SameDesks
  <2>3. \A M, status : Desks(SetStatus(NoTx, M, status))
    BY <1>0, SetStatusTx, SameDesks
  <2>4. \A M : Desks(Respond(NoTx, M))
    BY <1>0, RespondTx, SameDesks
  <2>5. ASSUME NEW from, NEW to, SendMessage(from, to) PROVE DeskOK'
    BY <2>1, <2>2, <2>5 DEF SendMessage
  <2>6. ASSUME NEW from, Broadcast(from) PROVE DeskOK'
    BY <2>1, <2>2, <2>6 DEF Broadcast
  <2>7. ASSUME NEW m, AcknowledgeMessage(m) \/ CompleteMessage(m) PROVE DeskOK'
    BY <2>1, <2>3, <2>7 DEF AcknowledgeMessage, CompleteMessage
  <2>8. ASSUME NEW m, RespondToMessage(m) PROVE DeskOK'
    BY <2>1, <2>4, <2>8 DEF RespondToMessage
  <2> QED BY <1>14, <2>5, <2>6, <2>7, <2>8 DEF Outsider
<1>15. ASSUME NEW n \in Nodes, OtherRun(n) PROVE DeskOK'
  <2>1. /\ presence' \in [Nodes -> RuntimeStatus] /\ own' = own
        /\ elsewhere' \subseteq Nodes /\ UNCHANGED <<drained, prepared>>
        /\ letters > 0 /\ letters' = letters - 1
    BY <1>15 DEF OtherRun, DeskOK
  <2>2. letters' \in 0 .. MaxLetters
    BY <2>1, NetworkAssumption DEF DeskOK
  <2> QED BY <2>1, <2>2 DEF DeskOK, Desks
<1> QED BY <1>1, <1>2, <1>3, <1>4, <1>5, <1>6, <1>7, <1>8, <1>9, <1>10, <1>11, <1>12, <1>13,
           <1>14, <1>15
        DEF NetworkNext

-----------------------------------------------------------------------------
(* The mail, step by step.                                                 *)

LEMMA SameBox ==
  ASSUME NEW box, NEW box2, DOMAIN box2 = DOMAIN box, \A m \in DOMAIN box : box2[m] = box[m]
  PROVE  /\ \A except, left, done, turn : BoxOK(box, except, left, done, turn) =>
                                    BoxOK(box2, except, left, done, turn)
         /\ \A b : Timed(box, b) => Timed(box2, b)
         /\ Later(box, box2)
BY DEF BoxOK, Mailbox, AnsweredIn, ClosedOut, IsOpen, Timed, Later

LEMMA NothingOver ==
  ASSUME NEW f, f = <<>>, NEW g
  PROVE  DOMAIN Over(f, g) = DOMAIN g /\ \A m \in DOMAIN g : Over(f, g)[m] = g[m]
BY DEF Over

LEMMA MailKept ==
  ASSUME TypeOK, SettledInv, RecordInv, MailInv, DeskOK', [Next]_vars, ~RecordBatch,
         touched' \cup passed' \subseteq DOMAIN mail', DOMAIN mail \subseteq DOMAIN mail',
         BoxOK(mail', touched', passed', Done, tries), BoxOK(Shown(own)', touched', passed', Done, tries),
         \E b \in Nat : Timed(Shown(own)', b),
         \A n \in Nodes : drained'[n] \subseteq DOMAIN Shown(own)',
         pc' \notin {"preparing", "calling"} => \A n \in Nodes : drained'[n] = {},
         pc' = "preparing" => \A n \in prepared' : HandedOver(Shown(own), n)',
         HandoffRead'
  PROVE  MailInv'
<1>1. Done' \subseteq Done /\ tries' = tries
  BY DoneKept
<1>2. /\ BoxOK(mail', touched', passed', Done', tries')
      /\ BoxOK(Shown(own)', touched', passed', Done', tries')
  BY <1>1, FewerBox
<1>3. /\ DOMAIN Shown(own)' = DOMAIN own'.mail \cup DOMAIN mail'
      /\ \A m \in DOMAIN own'.mail : Shown(own)'[m] = own'.mail[m]
  BY DEF Shown, Over
<1>4. Mailbox(own.mail)' /\ Mailbox(mail)' /\ DOMAIN Shown(own)' \subseteq Message
  BY <1>2, <1>3 DEF BoxOK, Mailbox
<1>5. NetworkTypeOK'
  BY <1>4 DEF NetworkTypeOK, DeskOK, Desks
<1>6. HandoffOnRecord'
  <2> SUFFICES ASSUME NEW e \in Edges, node'[e[1]] = "completed"
               PROVE  \E m \in DOMAIN mail' : IsHandoff(m, e[1], e[2], tries'[e[1]])
    BY DEF HandoffOnRecord
  <2>1. e[1] \in Done
    BY <1>1, PlanAssumption DEF Done
  <2>2. PICK m \in DOMAIN mail : IsHandoff(m, e[1], e[2], tries[e[1]])
    BY <2>1 DEF MailInv, HandoffOnRecord, Done
  <2> QED BY <1>1, <2>2
<1>7. \A n \in Done' : tries'[n] > 0
  BY <1>1 DEF MailInv
<1> QED BY <1>2, <1>5, <1>6, <1>7 DEF MailInv

LEMMA OwnSound ==
  ASSUME ShownInv, MailInv PROVE Sound(own, touched, passed, Done, tries)
BY DEF MailInv, ShownInv, Sound, Later

LEMMA CommittedBox ==
  ASSUME NEW tx, NEW next, CommitThen(tx, next), next.mail = <<>>
  PROVE  /\ mail' = Shown(tx)
         /\ DOMAIN Shown(own)' = DOMAIN mail' /\ \A m \in DOMAIN mail' : Shown(own)'[m] = mail'[m]
<1>1. Shown(own)' = Over(own'.mail, mail') /\ own'.mail = <<>> /\ mail' = Shown(tx)
  BY DEF CommitThen, Shown
<1> QED BY <1>1, NothingOver

LEMMA CommitMail ==
  ASSUME TypeOK, SettledInv, RecordInv, MailInv, DeskOK', [Next]_vars, ~RecordBatch,
         touched' = touched, passed' = passed,
         NEW tx, NEW next, Sound(tx, touched, passed, Done, tries), CommitThen(tx, next),
         next.mail = <<>>,
         \A n \in Nodes : drained'[n] \subseteq drained[n],
         pc' \notin {"preparing", "calling"} => \A n \in Nodes : drained'[n] = {},
         pc' # "preparing",
         pc' = "calling" => /\ state' = state /\ drained' = drained
                            /\ \A n \in batch' : HandedOver(Shown(tx), n)
  PROVE  MailInv'
<1>1. /\ mail' = Shown(tx)
      /\ DOMAIN Shown(own)' = DOMAIN mail' /\ \A m \in DOMAIN mail' : Shown(own)'[m] = mail'[m]
  BY CommittedBox
<1>2. /\ BoxOK(mail', touched', passed', Done, tries) /\ BoxOK(Shown(own)', touched', passed', Done, tries)
      /\ \E b \in Nat : Timed(Shown(own)', b)
  BY <1>1, SameBox DEF Sound
<1>3. DOMAIN mail \subseteq DOMAIN mail' /\ DOMAIN Shown(own) \subseteq DOMAIN mail'
  BY <1>1 DEF Sound, Later, Shown, Over
<1>4. touched' \cup passed' \subseteq DOMAIN mail'
  BY <1>3 DEF MailInv, NetworkTypeOK
<1>5. \A n \in Nodes : drained'[n] \subseteq DOMAIN Shown(own)'
  BY <1>1, <1>3 DEF MailInv
<1>6. HandoffRead'
  BY <1>1 DEF HandoffRead, HandedOver
<1> QED BY <1>2, <1>3, <1>4, <1>5, <1>6, MailKept

LEMMA SkipsSound ==
  ASSUME ShownInv, MailInv PROVE Sound(SkipsTold, touched, passed, Done, tries)
<1> DEFINE desk == Show(own, NotNeeded, "idle")
           S    == {Letter(Orchestrator, n, "status_update", 0) : n \in NotNeeded}
<1>1. NotNeeded \subseteq Nodes
  BY DEF NotNeeded, Ready, ReadyNodes
<1>2. IsTx(desk) /\ desk.mail = own.mail
  BY ShowMail DEF ShownInv
<1>3. Sound(desk, touched, passed, Done, tries)
  BY <1>2, OwnSound, SoundNotes
<1>4. ASSUME NEW n \in NotNeeded
      PROVE  LET l == Letter(Orchestrator, n, "status_update", 0)
             IN  l \in Message /\ l.re = 0 /\ l.type = "status_update" /\ ~l.needs
  <2>1. "status_update" \in MessageType /\ "status_update" \notin Requests
    BY DEF MessageType, Requests
  <2>2. n \in Nodes \cup {Orchestrator} /\ Orchestrator \in Nodes \cup {Orchestrator} /\ 0 \in Nat
    BY <1>1
  <2> DEFINE l == Letter(Orchestrator, n, "status_update", 0)
  <2>3. /\ l \in Message /\ l.type = "status_update" /\ l.re = 0
        /\ l.needs = ("status_update" \in Requests)
    BY <2>1, <2>2, LetterFields
  <2> QED BY <2>1, <2>3
<1>5. S \subseteq Message /\ \A s \in S : s.re = 0 /\ s.type = "status_update" /\ ~s.needs
  BY <1>4
<1>6. SkipsTold = Send(desk, S)
  BY DEF SkipsTold
<1> HIDE DEF desk, S
<1>7. \A s \in S : s.re = 0 /\ \A n \in Done : ~ IsReport(s, n, tries)
  BY <1>5 DEF IsReport
<1>8. \A s, t \in S : s.needs /\ SameReply(t, s) => t = s
  BY <1>5
<1>9. Sound(Send(desk, S), touched, passed, Done, tries)
  BY <1>3, <1>5, <1>7, <1>8, SoundSend
<1> QED BY <1>6, <1>9

(* What is passed over once the members of done have answered A.           *)
StillPassed(left, said, A, done) ==
  {m \in left : m.to \notin done} \cup PassedOver(said, A, done)

(* The members of done and failed report, answer the requests of A and hand *)
(* their results on; was had a result before.                              *)
Finishing(was, left, turn, done, failed, said, A, left2, end) ==
  /\ Sound(own, touched, left, was, turn)
  /\ done \in SUBSET Nodes /\ failed \in SUBSET Nodes
  /\ \A n \in Nodes : turn[n] \in Nat
  /\ \A n \in was \cup done : turn[n] # 0
  /\ \A n \in done : n \notin was
  /\ \A n \in Nodes : drained[n] \subseteq DOMAIN Shown(own)
  /\ said = Reported(done, failed, turn) /\ A \in AnsweredSets(said, done)
  /\ left2 = StillPassed(left, said, A, done)
  /\ end = Finished(said, A, done, failed, turn)

(* What the members of a batch say when they have finished.                *)
LEMMA FinishedMail ==
  ASSUME ShownInv, NEW was, NEW left, NEW turn, NEW done, NEW failed, NEW said, NEW A,
         NEW left2, NEW end, Finishing(was, left, turn, done, failed, said, A, left2, end)
  PROVE  /\ Sound(end, touched, left2, was \cup done, turn)
         /\ left2 \subseteq left \cup DOMAIN Shown(end)
         /\ \A e \in Edges : e[1] \in done =>
              \E m \in DOMAIN Shown(end) : IsHandoff(m, e[1], e[2], turn[e[1]])
<1> SUFFICES
      ASSUME Sound(own, touched, left, was, turn),
             done \in SUBSET Nodes, failed \in SUBSET Nodes,
             \A n \in Nodes : turn[n] \in Nat,
             \A n \in was \cup done : turn[n] # 0,
             \A n \in done : n \notin was,
             \A n \in Nodes : drained[n] \subseteq DOMAIN Shown(own),
             said = Reported(done, failed, turn), A \in AnsweredSets(said, done),
             left2 = StillPassed(left, said, A, done),
             end = Finished(said, A, done, failed, turn)
      PROVE  /\ Sound(end, touched, left2, was \cup done, turn)
             /\ left2 \subseteq left \cup DOMAIN Shown(end)
             /\ \A e \in Edges : e[1] \in done =>
                  \E m \in DOMAIN Shown(end) : IsHandoff(m, e[1], e[2], turn[e[1]])
  BY DEF Finishing
<1> DEFINE R    == {Letter(n, Orchestrator, "task_response", turn[n]) : n \in done}
           F    == {Letter(n, Orchestrator, "error", turn[n]) : n \in failed}
           box  == Shown(said)
           res  == Respond(said, A)
           H    == Handoffs(done, turn)
           sent == Send(res, H)
           M    == UNION {drained[n] : n \in done}
           read == SetStatus(sent, M, "completed")
           home == Show(read, done, "idle")
           desk == Show(home, failed, "failed")
<1>1. end = Log(Log(desk, "agent_completed", done), "agent_failed", failed)
  BY DEF Finished
<1>0. said = Send(own, R \cup F)
  BY DEF Reported
<1>2. Sound(said, touched, left, was, turn)
  <2>1. ASSUME NEW n \in Nodes, NEW type \in {"task_response", "error"}
        PROVE  LET l == Letter(n, Orchestrator, type, turn[n])
               IN  l \in Message /\ l.re = 0 /\ ~l.needs /\ l.from = n /\ l.type = type
    BY ReportFields
  <2>2. \A s \in R : s \in Message /\ s.re = 0 /\ ~s.needs /\ s.from \in done
    BY <2>1
  <2>3. \A s \in F : s \in Message /\ s.re = 0 /\ ~s.needs /\ s.type = "error"
    BY <2>1
  <2> HIDE DEF R, F
  <2>4. R \cup F \in SUBSET Message
    BY <2>2, <2>3
  <2>5. \A s \in R \cup F : s.re = 0 /\ \A n \in was : ~ IsReport(s, n, turn)
    BY <2>2, <2>3 DEF IsReport
  <2>6. \A s, t \in R \cup F : s.needs /\ SameReply(t, s) => t = s
    BY <2>2, <2>3
  <2>7. Sound(Send(own, R \cup F), touched, left, was, turn)
    <3> DEFINE S == R \cup F
    <3>1. /\ S \in SUBSET Message
          /\ \A s \in S : s.re = 0 /\ \A n \in was : ~ IsReport(s, n, turn)
          /\ \A s, t \in S : s.needs /\ SameReply(t, s) => t = s
      BY <2>4, <2>5, <2>6
    <3> HIDE DEF S
    <3>2. Sound(Send(own, S), touched, left, was, turn)
      BY <3>1, SoundSend
    <3> QED BY <3>2 DEF S
  <2> QED BY <1>0, <2>7
<1>3. /\ A \subseteq DOMAIN box /\ \A m \in A : box[m] # "completed"
      /\ \A n \in was : turn[n] # 0
  BY DEF AnsweredSets, Open
<1>4. Sound(res, touched, left, was, turn)
  BY <1>2, <1>3, SoundRespond
<1>5. PICK box1, now : /\ now \in Nat
                       /\ Marked(box, box1, A, "completed")
                       /\ Added(box1, Shown(res), Dated(Replies(A), now), now)
  BY <1>2, <1>3, SoundRespond
<1>6. DOMAIN box \subseteq Message /\ \A m \in DOMAIN box : box[m] \in MessageStatus
  BY <1>2 DEF Sound, BoxOK, Mailbox
<1>7. \A n \in done : \A m \in DOMAIN Shown(res) \ (touched \cup left2) :
        m.to = n => ~ IsOpen(Shown(res), m)
  <2> SUFFICES ASSUME NEW m \in DOMAIN Shown(res), m.to \in done, m \notin left2,
                      IsOpen(Shown(res), m)
               PROVE  FALSE
    OBVIOUS
  <2>1. m \notin Dated(Replies(A), now)
    <3>1. A \in SUBSET Message
      BY <1>3, <1>6
    <3> QED BY <1>5, <3>1, DatedReplies DEF IsOpen, Asks
  <2> HIDE DEF res
  <2>2. m \in DOMAIN box1 /\ Shown(res)[m] = box1[m]
    BY <1>5, <2>1 DEF Added
  <2>3. m \in DOMAIN box /\ box1[m] = (IF m \in A THEN "completed" ELSE box[m])
    BY <1>5, <2>2 DEF Marked
  <2>4. m \in Open(box, done) \ A
    BY <2>2, <2>3 DEF IsOpen, Open
  <2> DEFINE status == box[m]
             S      == Pile(said, A, m.to, status)
  <2>5. m \in S /\ (status = "delivered" \/ status = "acknowledged")
    BY <1>6, <2>3, <2>4 DEF Pile, Inbox, Open, MessageStatus
  <2>6. PICK L \in LooksAt(said, A, m.to) : {x \in A : x.to = m.to} = {x \in L : Asks(x)}
    BY DEF AnsweredSets
  <2>7. m \notin L
    BY <2>4, <2>6 DEF Open
  <2>8. \E P \in Pages(S) : P \subseteq L
    BY <2>5, <2>6 DEF LooksAt
  <2> HIDE DEF S
  <2>9. Beyond(S, m)
    BY <2>5, <2>7, <2>8, PageLeaves
  <2>10. m \in PassedOver(said, A, done)
    BY <2>4, <2>9 DEF PassedOver, S
  <2> QED BY <2>10 DEF StillPassed
<1>8. Sound(res, touched, left2, was \cup done, turn)
  <2>1. \A m \in left \ left2 : m.to \notin was
    BY DEF StillPassed
  <2>2. BoxOK(Shown(res), touched, left2, was \cup done, turn)
    BY <1>4, <1>7, <2>1, ReportBox DEF Sound
  <2> QED BY <1>4, <2>2 DEF Sound
<1>20. DOMAIN box \subseteq DOMAIN Shown(res)
  BY <1>5 DEF Marked, Added
<1> HIDE DEF res
<1>9. /\ H \in SUBSET Message
      /\ \A s \in H : /\ s.re = 0 /\ s.type \in {"task_request", "artifact_share"}
                     /\ s = Letter(s.from, s.to, s.type, turn[s.from])
      /\ \A e \in Edges : e[1] \in done =>
           \E s \in H : IsHandoff(s, e[1], e[2], turn[e[1]])
  <2>1. ASSUME NEW e \in Edges, NEW type \in {"task_request", "artifact_share"}
        PROVE  LET l == Letter(e[1], e[2], type, turn[e[1]])
               IN  /\ l \in Message /\ l.re = 0 /\ l.type = type /\ l.from = e[1]
                   /\ l.to = e[2] /\ l.turn = turn[e[1]]
    <3> DEFINE from == e[1]
               to   == e[2]
    <3>1. type \in MessageType /\ from \in Nodes /\ to \in Nodes /\ turn[from] \in Nat
      BY PlanAssumption DEF MessageType, Requests
    <3> HIDE DEF from, to
    <3>2. LET l == Letter(from, to, type, turn[from])
          IN  /\ l \in Message /\ l.re = 0 /\ l.type = type /\ l.from = from
              /\ l.to = to /\ l.turn = turn[from]
      BY <3>1, LetterFields
    <3> QED BY <3>2 DEF from, to
  <2>2. ASSUME NEW s \in H
        PROVE  /\ s \in Message /\ s.re = 0 /\ s.type \in {"task_request", "artifact_share"}
               /\ s = Letter(s.from, s.to, s.type, turn[s.from])
    <3>1. PICK e \in Edges, type \in {"task_request", "artifact_share"} :
            s = Letter(e[1], e[2], type, turn[e[1]])
      BY DEF Handoffs
    <3> QED BY <2>1, <3>1
  <2>3. ASSUME NEW e \in Edges, e[1] \in done
        PROVE  \E s \in H : IsHandoff(s, e[1], e[2], turn[e[1]])
    <3>1. Letter(e[1], e[2], "task_request", turn[e[1]]) \in H
      BY <2>3 DEF Handoffs
    <3> QED BY <2>1, <3>1 DEF IsHandoff
  <2> QED BY <2>2, <2>3
<1> HIDE DEF H
<1>10. \A s \in H : s.re = 0 /\ \A n \in was \cup done : ~ IsReport(s, n, turn)
  BY <1>9 DEF IsReport
<1>11. \A s, t \in H : s.needs /\ SameReply(t, s) => t = s
  <2> SUFFICES ASSUME NEW s \in H, NEW t \in H, SameReply(t, s) PROVE t = s
    OBVIOUS
  <2>1. t.type = s.type /\ t.from = s.from /\ t.to = s.to
    BY <1>9 DEF SameReply, ReplyType
  <2>2. s = Letter(s.from, s.to, s.type, turn[s.from]) /\ t = Letter(t.from, t.to, t.type, turn[t.from])
    BY <1>9
  <2> QED BY <2>1, <2>2
<1>12. PICK later \in Nat :
         /\ Sound(sent, touched, left2, was \cup done, turn)
         /\ Added(Shown(res), Shown(sent), Dated(H, later), later)
  BY <1>8, <1>9, <1>10, <1>11, SoundSend
<1> HIDE DEF sent
<1>13. M \subseteq DOMAIN Shown(sent)
  BY <1>12 DEF Sound, Later
<1> HIDE DEF M
<1>14. Sound(read, touched, left2, was \cup done, turn) /\ DOMAIN Shown(read) = DOMAIN Shown(sent)
  BY <1>12, <1>13, SoundSet DEF Marked
<1> HIDE DEF read
<1>15. IsTx(home) /\ home.mail = read.mail
  BY <1>14, ShowMail DEF Sound
<1> HIDE DEF home
<1>16. IsTx(desk) /\ desk.mail = home.mail
  BY <1>15, ShowMail
<1> HIDE DEF desk
<1>17. IsTx(end) /\ end.mail = desk.mail
  BY <1>1, <1>16, LogMail
<1>18. Sound(end, touched, left2, was \cup done, turn) /\ Shown(end) = Shown(read)
  BY <1>14, <1>15, <1>16, <1>17, SoundNotes
<1>19. ASSUME NEW e \in Edges, e[1] \in done
       PROVE  \E m \in DOMAIN Shown(end) : IsHandoff(m, e[1], e[2], turn[e[1]])
  <2>1. PICK s \in H : s \in Message /\ IsHandoff(s, e[1], e[2], turn[e[1]])
    BY <1>9, <1>19
  <2>2. At(s, later) \in DOMAIN Shown(sent)
    BY <1>12 DEF Added, Dated
  <2>3. IsHandoff(At(s, later), e[1], e[2], turn[e[1]])
    BY <2>1, AtFields DEF IsHandoff
  <2> QED BY <1>14, <1>18, <2>2, <2>3
<1>21. PassedOver(said, A, done) \subseteq DOMAIN Shown(end)
  <2>1. PassedOver(said, A, done) \subseteq DOMAIN box
    BY DEF PassedOver, Open
  <2> QED BY <1>12, <1>14, <1>18, <1>20, <2>1 DEF Added
<1> QED BY <1>18, <1>19, <1>21 DEF StillPassed

-----------------------------------------------------------------------------
LEMMA MailPass ==
  ASSUME TypeOK, SettledInv, RecordInv, ShownInv, MailInv, DeskOK',
         SettleSkipsNet \/ PauseForApprovalNet
  PROVE  MailInv'
<1>1. [Next]_vars
  BY NetworkStep DEF NetworkNext
<1>2. pc = "schedule" /\ touched' = touched /\ passed' = passed /\ ~RecordBatch
  BY DEF SettleSkipsNet, PauseForApprovalNet, SettleSkips, PauseForApproval, RecordBatch
<1>3. \A n \in Nodes : drained[n] = {}
  BY <1>2 DEF MailInv
<1>4. Sound(SkipsTold, touched, passed, Done, tries)
  BY SkipsSound
<1>5. CASE SettleSkipsNet
  <2>1. CommitThen(SkipsTold, NoTx) /\ NoTx.mail = <<>> /\ drained' = drained /\ pc' = "check"
    BY <1>5 DEF SettleSkipsNet, SettleSkips, NoTx
  <2> QED BY <1>1, <1>2, <1>3, <1>4, <2>1, CommitMail
<1>6. CASE PauseForApprovalNet
  <2> DEFINE next == Log(Show(NoTx, Asking, "waiting"), "human_approval_requested", Asking)
  <2>1. CommitThen(SkipsTold, next) /\ pc' = "closing" /\ \A n \in Nodes : drained'[n] = {}
    BY <1>6 DEF PauseForApprovalNet, PauseForApproval, Return, ForgetBatch
  <2>2. next.mail = <<>>
    <3>1. IsTx(NoTx) /\ NoTx.mail = <<>>
      BY NoTxTx DEF NoTx
    <3>2. IsTx(Show(NoTx, Asking, "waiting")) /\ Show(NoTx, Asking, "waiting").mail = <<>>
      BY <3>1, ShowMail
    <3> QED BY <3>2, LogMail
  <2> HIDE DEF next
  <2> QED BY <1>1, <1>2, <1>3, <1>4, <2>1, <2>2, CommitMail
<1> QED BY <1>5, <1>6

LEMMA MailPrepare ==
  ASSUME TypeOK, SettledInv, RecordInv, ShownInv, MailInv, DeskOK', PrepareNet
  PROVE  MailInv'
<1>1. [Next]_vars
  BY NetworkStep DEF NetworkNext
<1>2. /\ pc = "schedule" /\ pc' = "preparing" /\ ~RecordBatch
      /\ own' = SkipsTold /\ mail' = mail /\ UNCHANGED <<touched, passed, drained, prepared>>
  BY DEF PrepareNet, Prepare, Stage, RecordBatch
<1>3. prepared' = {} /\ \A n \in Nodes : drained[n] = {}
  BY <1>2 DEF MailInv, ShownInv
<1>4. Sound(SkipsTold, touched, passed, Done, tries)
  BY SkipsSound
<1>5. Shown(own)' = Shown(SkipsTold)
  BY <1>2 DEF Shown
<1>6. /\ BoxOK(Shown(own)', touched', passed', Done, tries) /\ BoxOK(mail', touched', passed', Done, tries)
      /\ \E b \in Nat : Timed(Shown(own)', b)
  BY <1>2, <1>4, <1>5 DEF Sound, MailInv
<1>7. touched' \cup passed' \subseteq DOMAIN mail'
  BY <1>2 DEF MailInv, NetworkTypeOK
<1>8. HandoffRead'
  BY <1>2 DEF HandoffRead
<1> QED BY <1>1, <1>2, <1>3, <1>6, <1>7, <1>8, MailKept

(* A member that is prepared has read what it is called with.              *)
LEMMA MailPrepareNode ==
  ASSUME TypeOK, SettledInv, RecordInv, ShownInv, MailInv, DeskOK',
         NEW n \in Nodes, PrepareNode(n)
  PROVE  MailInv'
<1>1. [Next]_vars
  BY NetworkStep DEF NetworkNext
<1>2. /\ pc = "preparing" /\ UNCHANGED <<vars, touched, passed, mail>>
      /\ prepared' = prepared \cup {n}
      /\ n \in batch /\ n \notin prepared
  BY DEF PrepareNode, Stage
<1>3. UNCHANGED <<pc, state, node, tries>> /\ ~RecordBatch /\ pc \in Looping
  BY <1>2 DEF vars, rows, memory, session, RecordBatch, Looping, Places
<1>4. PICK page \in Pages(Unread(n)), asked \in SUBSET (Nodes \ {n}) :
        /\ own' = Log(Show(Consult(SetStatus(own, page, "acknowledged"), n, asked),
                           {n}, Desk(n)),
                      "agent_started", {n})
        /\ drained' = [drained EXCEPT ![n] = page]
  BY DEF PrepareNode, Stage
<1> DEFINE read == SetStatus(own, page, "acknowledged")
           Q    == {Letter(n, p, "information_request", 0) : p \in asked}
           sent == Send(read, Q)
           M    == DOMAIN sent.mail \ DOMAIN read.mail
           talk == Respond(sent, M)
           here == Show(talk, {n}, Desk(n))
<1>5. own' = Log(here, "agent_started", {n})
  BY <1>4 DEF Consult
<1>6. page \subseteq DOMAIN Shown(own) /\ \A m \in page : Shown(own)[m] = "delivered"
  BY DEF Pages, Unread, Inbox
<1>7. Sound(own, touched, passed, Done, tries)
  BY OwnSound
<1>8. /\ Sound(read, touched, passed, Done, tries)
      /\ Marked(Shown(own), Shown(read), page, "acknowledged")
  BY <1>6, <1>7, SoundSet
<1> HIDE DEF read
<1>9. /\ Q \in SUBSET Message
      /\ \A s \in Q : s.re = 0 /\ s.type = "information_request" /\ s = Letter(n, s.to, s.type, 0)
  <2>1. ASSUME NEW p \in asked
        PROVE  LET l == Letter(n, p, "information_request", 0)
               IN  l \in Message /\ l.re = 0 /\ l.type = "information_request" /\ l.to = p
    <3>1. "information_request" \in MessageType
      BY DEF MessageType, Requests
    <3>2. n \in Nodes \cup {Orchestrator} /\ p \in Nodes \cup {Orchestrator} /\ 0 \in Nat
      OBVIOUS
    <3> QED BY <3>1, <3>2, LetterFields
  <2> QED BY <2>1
<1> HIDE DEF Q
<1>10. \A s \in Q : s.re = 0 /\ \A k \in Done : ~ IsReport(s, k, tries)
  BY <1>9 DEF IsReport
<1>11. \A s, t \in Q : s.needs /\ SameReply(t, s) => t = s
  BY <1>9 DEF SameReply
<1>12. PICK now \in Nat :
         /\ Sound(sent, touched, passed, Done, tries)
         /\ sent.mail = Over([m \in Dated(Q, now) |-> "delivered"], read.mail)
         /\ Added(Shown(read), Shown(sent), Dated(Q, now), now)
  BY <1>8, <1>9, <1>10, <1>11, SoundSend
<1> HIDE DEF sent
<1>13. M \subseteq Dated(Q, now)
  BY <1>12 DEF Over
<1>14. M \subseteq DOMAIN Shown(sent) /\ \A m \in M \ touched : Shown(sent)[m] # "completed"
  BY <1>12, <1>13 DEF Added
<1> HIDE DEF M
<1>15. \A k \in Done : tries[k] # 0
  BY DEF MailInv
<1>16. Sound(talk, touched, passed, Done, tries)
  BY <1>12, <1>14, <1>15, SoundRespond
<1>17. PICK box, late : /\ Marked(Shown(sent), box, M, "completed")
                        /\ Added(box, Shown(talk), Dated(Replies(M), late), late)
  BY <1>12, <1>14, <1>15, SoundRespond
<1>18. Later(Shown(read), Shown(talk))
  BY <1>12, <1>17, AddedLater, MarkedLater, LaterBox
<1> HIDE DEF talk
<1>19. IsTx(here) /\ here.mail = talk.mail
  BY <1>16, ShowMail DEF Sound
<1> HIDE DEF here
<1>20. own'.mail = talk.mail
  BY <1>5, <1>19, LogMail
<1>21. Shown(own)' = Shown(talk)
  BY <1>2, <1>20 DEF Shown
<1>22. /\ BoxOK(Shown(own)', touched', passed', Done, tries) /\ BoxOK(mail', touched', passed', Done, tries)
       /\ \E b \in Nat : Timed(Shown(own)', b)
       /\ Later(Shown(own), Shown(own)')
  BY <1>2, <1>16, <1>21 DEF Sound, MailInv
<1>23. ASSUME NEW d \in DependenciesOf(n), state.out[d] # NoPayload
       PROVE  \E m \in DOMAIN Shown(talk) :
                /\ IsHandoff(m, d, n, state.used[d])
                /\ Shown(talk)[m] # "delivered" \/ FullPage(page, m)
  <2>1. d \in Nodes /\ <<d, n>> \in Edges
    BY EdgeOfDependency
  <2>2. node[d] = "completed" /\ state.used[d] = tries[d]
    BY <1>3, <1>23, <2>1, OutRecorded
  <2>3. PICK m \in DOMAIN mail : IsHandoff(m, d, n, tries[d])
    <3> DEFINE e == <<d, n>>
    <3>1. e \in Edges /\ node[e[1]] = "completed" /\ e[1] = d /\ e[2] = n
      BY <2>1, <2>2
    <3> HIDE DEF e
    <3> QED BY <3>1 DEF MailInv, HandoffOnRecord
  <2>4. m \in DOMAIN Shown(own)
    BY DEF Shown, Over
  <2>5. Shown(own)[m] = "delivered" => m \in Unread(n)
    BY <2>3, <2>4 DEF Unread, Inbox, IsHandoff
  <2>6. Shown(own)[m] # "delivered" \/ m \in page \/ FullPage(page, m)
    BY <2>5, PageLeaves DEF FullPage
  <2>7. m \in DOMAIN Shown(read) /\ (Shown(read)[m] # "delivered" \/ FullPage(page, m))
    BY <1>8, <2>4, <2>6 DEF Marked
  <2>8. m \in DOMAIN Shown(talk) /\ (Shown(talk)[m] # "delivered" \/ FullPage(page, m))
    BY <1>18, <2>7 DEF Later
  <2> QED BY <2>2, <2>3, <2>8
<1>24. \A k \in prepared' : HandedOver(Shown(own), k)'
  <2>0. DOMAIN drained = Nodes /\ prepared \subseteq Nodes
    BY DEF MailInv, NetworkTypeOK
  <2>1. HandedOver(Shown(own), n)'
    <3>1. drained'[n] = page
      BY <1>4, <2>0
    <3> QED BY <1>3, <1>21, <1>23, <3>1 DEF HandedOver
  <2>2. ASSUME NEW k \in prepared PROVE HandedOver(Shown(own), k)'
    <3>1. HandedOver(Shown(talk), k)
      BY <1>2, <1>16, <2>2, HandedLater DEF MailInv, Sound
    <3>2. drained'[k] = drained[k]
      BY <1>2, <1>4, <2>0, <2>2
    <3> QED BY <1>3, <1>21, <3>1, <3>2 DEF HandedOver
  <2> QED BY <1>2, <2>1, <2>2
<1>25. \A k \in Nodes : drained'[k] \subseteq DOMAIN Shown(own)'
  <2>1. DOMAIN drained = Nodes /\ \A k \in Nodes : drained[k] \subseteq DOMAIN Shown(own)
    BY DEF MailInv, NetworkTypeOK
  <2> QED BY <1>4, <1>6, <1>22, <2>1 DEF Later
<1>26. touched' \cup passed' \subseteq DOMAIN mail'
  BY <1>2 DEF MailInv, NetworkTypeOK
<1>27. HandoffRead'
  BY <1>2, <1>3 DEF HandoffRead
<1> QED BY <1>1, <1>2, <1>3, <1>22, <1>24, <1>25, <1>26, <1>27, MailKept

LEMMA MailDispatch ==
  ASSUME TypeOK, SettledInv, RecordInv, ShownInv, MailInv, DeskOK', DispatchNet
  PROVE  MailInv'
<1>1. [Next]_vars
  BY NetworkStep DEF NetworkNext
<1>2. /\ pc = "preparing" /\ pc' = "calling" /\ ~RecordBatch
      /\ CommitThen(own, NoTx) /\ NoTx.mail = <<>>
      /\ UNCHANGED <<touched, passed, drained, state, batch>> /\ prepared = batch
  BY DEF DispatchNet, Dispatch, RecordBatch, memory, NoTx
<1>3. Sound(own, touched, passed, Done, tries)
  BY OwnSound
<1>4. \A n \in batch' : HandedOver(Shown(own), n)
  BY <1>2 DEF MailInv
<1> QED BY <1>1, <1>2, <1>3, <1>4, CommitMail

LEMMA MailFinish ==
  ASSUME TypeOK, SettledInv, RecordInv, ShownInv, MailInv, DeskOK',
         FinishFailedNet \/ FinishCompletedNet
  PROVE  MailInv'
<1>1. [Next]_vars
  BY NetworkStep DEF NetworkNext
<1>2. /\ pc' = "closing" /\ ~RecordBatch /\ touched' = touched /\ passed' = passed
      /\ \A n \in Nodes : drained'[n] = {}
  BY DEF FinishFailedNet, FinishCompletedNet, FinishFailed, FinishCancelled, FinishCompleted,
         Return, RecordBatch, ForgetBatch
<1>3. \E next : CommitThen(own, next) /\ next.mail = <<>>
  <2> DEFINE done == Log(NoTx, "workflow_completed", {Orchestrator})
  <2>1. NoTx.mail = <<>> /\ done.mail = <<>>
    BY NoTxTx, LogMail DEF NoTx
  <2>2. CommitThen(own, NoTx) \/ CommitThen(own, done)
    BY DEF FinishFailedNet, FinishCompletedNet
  <2> HIDE DEF done
  <2> QED BY <2>1, <2>2
<1>4. Sound(own, touched, passed, Done, tries)
  BY OwnSound
<1> QED BY <1>1, <1>2, <1>3, <1>4, CommitMail

(* What was not committed is lost.                                         *)
LEMMA MailGone ==
  ASSUME TypeOK, SettledInv, RecordInv, ShownInv, MailInv, DeskOK',
         CloseNet \/ CrashNet \/ RestartNet
  PROVE  MailInv'
<1>1. [Next]_vars
  BY NetworkStep DEF NetworkNext
<1>2. /\ pc' \in {"none", "closing"} /\ ~RecordBatch
      /\ UNCHANGED <<touched, passed, mail>> /\ own' = NoTx
  BY DEF CloseNet, CrashNet, RestartNet, Close, RecordCrash, ResumeFinished, Restart, Return,
         Stage, RecordBatch
<1>3. \A n \in Nodes : drained'[n] = {}
  BY DEF CloseNet, Close, CrashNet, RestartNet, ForgetBatch, MailInv
<1>4. /\ DOMAIN Shown(own)' = DOMAIN mail
      /\ \A m \in DOMAIN mail : Shown(own)'[m] = mail[m]
  <2>1. Shown(own)' = Over(own'.mail, mail') /\ own'.mail = <<>>
    BY <1>2 DEF Shown, NoTx
  <2> QED BY <1>2, <2>1, NothingOver
<1>5. \E b \in Nat : Timed(mail, b)
  BY DEF MailInv, Timed, Shown, Over
<1>6. /\ BoxOK(mail', touched', passed', Done, tries) /\ BoxOK(Shown(own)', touched', passed', Done, tries)
      /\ \E b \in Nat : Timed(Shown(own)', b)
  BY <1>2, <1>4, <1>5, SameBox DEF MailInv
<1>7. touched' \cup passed' \subseteq DOMAIN mail'
  BY <1>2 DEF MailInv, NetworkTypeOK
<1>8. HandoffRead'
  BY <1>2 DEF HandoffRead
<1> QED BY <1>1, <1>2, <1>3, <1>6, <1>7, <1>8, MailKept

(* A batch is recorded, and what its members say is committed with it.     *)
LEMMA MailRecord ==
  ASSUME TypeOK, SettledInv, RecordInv, ShownInv, MailInv, DeskOK', RecordBatchNet
  PROVE  MailInv'
<1> DEFINE done   == {n \in batch : node'[n] = "completed"}
           failed == batch \ done
           turn   == state'.used
           said   == Reported(done, failed, turn)
<1>0. PICK A \in AnsweredSets(said, done) :
        /\ CommitThen(Finished(said, A, done, failed, turn), NoTx)
        /\ passed' = {m \in passed : m.to \notin done} \cup PassedOver(said, A, done)
  BY DEF RecordBatchNet
<1> DEFINE tx == Finished(said, A, done, failed, turn)
<1>1. [Next]_vars /\ RecordBatch
  BY NetworkStep DEF NetworkNext, RecordBatchNet
<1>2. TypeOK' /\ RecordInv'
  BY <1>1, TypeStep, RecordStep
<1>3. /\ pc' \in {"routing", "failing"} /\ pc' \in Looping
      /\ CommitThen(tx, NoTx) /\ NoTx.mail = <<>>
      /\ touched' = touched /\ prepared' = {} /\ \A n \in Nodes : drained'[n] = {}
  BY <1>0 DEF RecordBatchNet, RecordBatch, ForgetBatch, NoTx, Looping, Places
<1>4. \A n \in Nodes : turn[n] = tries'[n] /\ tries'[n] \in Nat
  BY <1>2, <1>3 DEF RecordInv, Recorded, TypeOK
<1>5. batch \in SUBSET Nodes
  BY DEF TypeOK
<1>6. \A n \in Nodes :
        /\ n \in batch => node[n] # "completed" /\ (node'[n] = "completed" => tries'[n] > 0)
        /\ n \notin batch => /\ tries'[n] = tries[n]
                             /\ node'[n] = "completed" => node[n] = "completed"
  BY <1>1, DoneRecorded
<1>7. /\ done \in SUBSET Nodes /\ failed \in SUBSET Nodes
      /\ \A n \in done : n \notin Done
      /\ Done' \subseteq Done \cup done
      /\ \A n \in Done : tries'[n] = tries[n]
  BY <1>5, <1>6 DEF Done
<1>8. \A n \in Done \cup done : n \in Nodes /\ turn[n] # 0
  <2>1. \A n \in Done : n \in Nodes /\ tries[n] > 0
    BY DEF Done, MailInv
  <2>2. \A n \in done : n \in Nodes /\ tries'[n] > 0
    BY <1>5, <1>6
  <2> HIDE DEF done, turn
  <2> QED BY <1>4, <1>7, <2>1, <2>2
<1> HIDE DEF done, failed, turn, said, tx
<1>9. Sound(own, touched, passed, Done, turn)
  <2>1. \A n \in Done : turn[n] = tries[n]
    BY <1>4, <1>7 DEF Done
  <2>2. Sound(own, touched, passed, Done, tries)
    BY OwnSound
  <2>3. BoxOK(Shown(own), touched, passed, Done, turn)
    BY <2>1, <2>2, FewerBox DEF Sound
  <2> QED BY <2>2, <2>3 DEF Sound
<1>10. \A n \in Nodes : drained[n] \subseteq DOMAIN Shown(own)
  BY DEF MailInv
<1>11. \A n \in Nodes : turn[n] \in Nat
  BY <1>4
<1>12. /\ Sound(tx, touched, passed', Done \cup done, turn)
       /\ passed' \subseteq passed \cup DOMAIN Shown(tx)
       /\ \A e \in Edges : e[1] \in done =>
            \E m \in DOMAIN Shown(tx) : IsHandoff(m, e[1], e[2], turn[e[1]])
  <2>1. said = Reported(done, failed, turn) /\ tx = Finished(said, A, done, failed, turn)
    BY DEF said, tx
  <2>2. /\ A \in AnsweredSets(said, done)
        /\ passed' = {m \in passed : m.to \notin done} \cup PassedOver(said, A, done)
    BY <1>0
  <2>3. \A n \in Done \cup done : turn[n] # 0
    BY <1>8
  <2> HIDE DEF Done
  <2>4. \A n \in done : n \notin Done
    BY <1>7
  <2> DEFINE left2 == passed'
  <2>5. left2 = StillPassed(passed, said, A, done)
    BY <2>2 DEF StillPassed
  <2> HIDE DEF left2
  <2>6. Finishing(Done, passed, turn, done, failed, said, A, left2, tx)
    BY <1>7, <1>9, <1>10, <1>11, <2>1, <2>2, <2>3, <2>4, <2>5 DEF Finishing
  <2>7. /\ Sound(tx, touched, left2, Done \cup done, turn)
        /\ left2 \subseteq passed \cup DOMAIN Shown(tx)
        /\ \A e \in Edges : e[1] \in done =>
             \E m \in DOMAIN Shown(tx) : IsHandoff(m, e[1], e[2], turn[e[1]])
    BY <2>6, FinishedMail
  <2> QED BY <2>7 DEF left2
<1>13. /\ mail' = Shown(tx) /\ DOMAIN Shown(own)' = DOMAIN mail'
       /\ \A m \in DOMAIN mail' : Shown(own)'[m] = mail'[m]
  BY <1>3, CommittedBox
<1>14. BoxOK(mail', touched', passed', Done', tries')
  <2>1. \A n \in Done' : tries'[n] = turn[n]
    BY <1>4 DEF Done
  <2> QED BY <1>3, <1>7, <1>12, <1>13, <2>1, FewerBox DEF Sound
<1>15. BoxOK(Shown(own)', touched', passed', Done', tries') /\ \E b \in Nat : Timed(Shown(own)', b)
  BY <1>12, <1>13, <1>14, SameBox DEF Sound
<1>16. DOMAIN mail \subseteq DOMAIN mail'
  BY <1>12, <1>13 DEF Sound, Later, Shown, Over
<1>17. NetworkTypeOK'
  <2>1. own'.mail = <<>>
    BY <1>3 DEF CommitThen
  <2>2. Mailbox(mail)' /\ Mailbox(own.mail)'
    BY <1>14, <2>1 DEF BoxOK, Mailbox
  <2>3. touched' \cup passed' \subseteq DOMAIN mail'
    BY <1>3, <1>12, <1>13, <1>16 DEF MailInv, NetworkTypeOK
  <2> QED BY <1>3, <2>2, <2>3 DEF NetworkTypeOK, DeskOK, Desks
<1>18. HandoffOnRecord'
  <2> SUFFICES ASSUME NEW e \in Edges, node'[e[1]] = "completed"
               PROVE  \E m \in DOMAIN mail' : IsHandoff(m, e[1], e[2], tries'[e[1]])
    BY DEF HandoffOnRecord
  <2>1. e[1] \in Nodes
    BY PlanAssumption
  <2>2. e[1] \in Done \cup done
    BY <1>7, <2>1 DEF Done
  <2>3. CASE e[1] \in done
    BY <1>4, <1>12, <1>13, <2>1, <2>3
  <2>4. CASE e[1] \in Done
    <3>1. PICK m \in DOMAIN mail : IsHandoff(m, e[1], e[2], tries[e[1]])
      BY <2>4 DEF MailInv, HandoffOnRecord, Done
    <3> QED BY <1>7, <1>16, <2>4, <3>1
  <2> QED BY <2>2, <2>3, <2>4
<1>19. \A n \in Done' : tries'[n] > 0
  <2>1. \A n \in Done' : n \in Nodes /\ turn[n] # 0
    BY <1>7, <1>8
  <2> QED BY <1>4, <2>1
<1>20. HandoffRead'
  BY <1>3 DEF HandoffRead
<1> QED BY <1>3, <1>14, <1>15, <1>17, <1>18, <1>19, <1>20 DEF MailInv

(* What the verdict found is flushed after the commit, later than all the  *)
(* mail that was committed.                                                *)
LEMMA MailRoute ==
  ASSUME TypeOK, SettledInv, RecordInv, ShownInv, MailInv, DeskOK', RouteFeedbackNet
  PROVE  MailInv'
<1>1. [Next]_vars
  BY NetworkStep DEF NetworkNext
<1>2. /\ pc = "routing" /\ pc' = "check" /\ ~RecordBatch
      /\ UNCHANGED <<touched, passed, drained, prepared>>
  BY DEF RouteFeedbackNet, RouteFeedback, RecordBatch
<1>3. PICK v \in FirstVerdict :
        CommitThen(own, Show(Send(NoTx, {Letter(v, Feedback[v], "information_request",
                                                sentBack'[Feedback[v]])}),
                             {Feedback[v]}, "waiting"))
  BY DEF RouteFeedbackNet
<1> DEFINE t    == Feedback[v]
           l    == Letter(v, t, "information_request", sentBack'[t])
           sent == Send(NoTx, {l})
           next == Show(sent, {t}, "waiting")
<1>4. /\ l \in Message /\ l.re = 0 /\ l.type = "information_request"
  <2>1. TypeOK'
    BY <1>1, TypeStep
  <2>2. v \in Nodes /\ t \in Nodes
    BY PlanAssumption DEF FirstVerdict, Verdicts
  <2> HIDE DEF t
  <2>3. /\ v \in Nodes \cup {Orchestrator} /\ t \in Nodes \cup {Orchestrator}
        /\ sentBack'[t] \in Nat /\ "information_request" \in MessageType
    BY <2>1, <2>2 DEF TypeOK, MessageType, Requests
  <2> QED BY <2>3, LetterFields
<1> HIDE DEF l
<1>5. IsTx(NoTx) /\ NoTx.mail = <<>>
  BY NoTxTx DEF NoTx
<1>6. PICK b \in Nat : Timed(Shown(own), b)
  BY DEF MailInv
<1>7. /\ DOMAIN Shown(NoTx) = DOMAIN mail
      /\ Mailbox(Shown(NoTx)) /\ Timed(Shown(NoTx), b)
  <2>1. DOMAIN Shown(NoTx) = DOMAIN mail /\ \A m \in DOMAIN mail : Shown(NoTx)[m] = mail[m]
    BY <1>5, NothingOver DEF Shown
  <2>2. Mailbox(mail) /\ Timed(mail, b)
    BY <1>6 DEF MailInv, BoxOK, Timed, Shown, Over
  <2> QED BY <2>1, <2>2 DEF Mailbox, Timed
<1>8. \A m \in DOMAIN own.mail : m.at \in Nat /\ m.at <= b
  BY <1>6, OwnSound, OwnBounded
<1>9. PICK now \in Nat :
        /\ \A m \in DOMAIN own.mail : m.at < now
        /\ sent.mail = Over([m \in Dated({l}, now) |-> "delivered"], NoTx.mail)
        /\ Added(Shown(NoTx), Shown(sent), Dated({l}, now), now)
  BY <1>4, <1>5, <1>6, <1>7, <1>8, SendMail
<1>10. IsTx(sent)
  BY <1>5, SendTx
<1> HIDE DEF sent
<1>11. own'.mail = sent.mail /\ mail' = Shown(own)
  <2>1. next.mail = sent.mail
    BY <1>10, ShowMail
  <2> QED BY <1>3, <2>1 DEF CommitThen, sent, l
<1> DEFINE N == Dated({l}, now)
<1>12. DOMAIN sent.mail = N /\ \A m \in N : sent.mail[m] = "delivered"
  BY <1>5, <1>9 DEF Over
<1>13. /\ N \subseteq Message /\ now \in Nat /\ now > 0
       /\ \A m \in N : m.re < m.at /\ m.at = now
       /\ \A m \in DOMAIN mail : m.at < now
  BY <1>7, <1>9 DEF Added
<1>14. Mailbox(Shown(own)) /\ BoxOK(Shown(own), touched, passed, Done, tries)
  BY DEF MailInv, BoxOK
<1>15. /\ DOMAIN Shown(own) = DOMAIN own.mail \cup DOMAIN mail
       /\ \A m \in DOMAIN Shown(own) : m.re < m.at
  BY <1>6 DEF Shown, Over, Timed
<1>16. \A m \in DOMAIN Shown(own) : m.at < now /\ m.re < m.at
  BY <1>9, <1>13, <1>15
<1>17. \A m \in DOMAIN Shown(own) : m \notin N
  <2>1. \A m \in DOMAIN Shown(own) : m.at \in Nat
    BY <1>14, MessageFields DEF Mailbox
  <2> QED BY <1>13, <1>16, <2>1
<1> HIDE DEF N
<1>18. /\ DOMAIN Shown(own)' = DOMAIN Shown(own) \cup N
       /\ \A m \in DOMAIN Shown(own) : Shown(own)'[m] = Shown(own)[m]
       /\ \A m \in N : Shown(own)'[m] = "delivered"
  <2>1. Shown(own)' = Over(sent.mail, Shown(own))
    BY <1>11 DEF Shown
  <2> QED BY <1>12, <1>17, <2>1 DEF Over
<1>19. Added(Shown(own), Shown(own)', N, now)
  BY <1>13, <1>14, <1>16, <1>18 DEF Added
<1>20. Fresh(N, Done, tries)
  <2>1. At(l, now).re = 0 /\ At(l, now).type = "information_request"
    BY <1>4, AtFields
  <2>2. \A m \in N : m = At(l, now)
    BY DEF N, Dated
  <2> QED BY <2>1, <2>2 DEF Fresh, Distinct, IsReport
<1>21. BoxOK(Shown(own)', touched', passed', Done, tries) /\ \E c \in Nat : Timed(Shown(own)', c)
  <2>1. BoxOK(Shown(own)', touched, passed, Done, tries)
    BY <1>14, <1>19, <1>20, AddFresh
  <2> QED BY <1>2, <1>13, <1>19, <2>1, AddedBox
<1>22. BoxOK(mail', touched', passed', Done, tries)
  BY <1>2, <1>11, <1>14
<1>23. DOMAIN mail \subseteq DOMAIN mail' /\ touched' \cup passed' \subseteq DOMAIN mail'
  BY <1>2, <1>11, <1>15 DEF MailInv, NetworkTypeOK
<1>24. \A n \in Nodes : drained'[n] = {}
  BY <1>2 DEF MailInv
<1>25. HandoffRead'
  BY <1>2 DEF HandoffRead
<1> QED BY <1>1, <1>2, <1>21, <1>22, <1>23, <1>24, <1>25, MailKept

LEMMA MailQuiet ==
  ASSUME TypeOK, SettledInv, RecordInv, ShownInv, MailInv, DeskOK', Quiet
  PROVE  MailInv'
<1>1. [Next]_vars
  BY NetworkStep DEF NetworkNext
<1>2. /\ UNCHANGED <<mail, own, touched, passed, drained, prepared>> /\ ~RecordBatch
      /\ \/ UNCHANGED <<pc, state, batch>>
         \/ pc \notin {"preparing", "calling"} /\ pc' \notin {"preparing", "calling"}
  BY DEF Quiet, network, StartExecute, StartResume, PassCheck, RouteNothing, Spawn, Operator,
         RequestCancellation, ResumeWorkflow, ApproveNode, RejectNode, SkipNode, RetryNode,
         Control, Request, memory, session, RecordBatch
<1>3. Shown(own)' = Shown(own)
  BY <1>2 DEF Shown
<1>4. /\ BoxOK(mail', touched', passed', Done, tries) /\ BoxOK(Shown(own)', touched', passed', Done, tries)
      /\ \E b \in Nat : Timed(Shown(own)', b)
      /\ \A n \in Nodes : drained'[n] \subseteq DOMAIN Shown(own)'
      /\ touched' \cup passed' \subseteq DOMAIN mail'
  BY <1>2, <1>3 DEF MailInv, NetworkTypeOK
<1>5. pc' \notin {"preparing", "calling"} => \A n \in Nodes : drained'[n] = {}
  BY <1>2 DEF MailInv
<1>6. pc' = "preparing" => \A n \in prepared' : HandedOver(Shown(own), n)'
  BY <1>2, <1>3 DEF MailInv, HandedOver
<1>7. HandoffRead'
  BY <1>2 DEF MailInv, HandoffRead, HandedOver
<1> QED BY <1>1, <1>2, <1>4, <1>5, <1>6, <1>7, MailKept

(* What others write comes under what the engine has flushed.              *)
LEMMA AddedUnder ==
  ASSUME NEW f, NEW box, NEW box2, NEW N, NEW now, Added(box, box2, N, now),
         Mailbox(f), \A m \in DOMAIN f : m.re < m.at /\ m.at < now
  PROVE  Added(Over(f, box), Over(f, box2), N, now)
<1>1. \A m \in DOMAIN f : m \notin N
  <2>1. \A m \in DOMAIN f : m.at \in Nat
    BY MessageFields DEF Mailbox
  <2> QED BY <2>1 DEF Added
<1>2. /\ DOMAIN Over(f, box) = DOMAIN f \cup DOMAIN box
      /\ \A m \in DOMAIN Over(f, box) :
           Over(f, box)[m] = IF m \in DOMAIN f THEN f[m] ELSE box[m]
  BY DEF Over
<1>3. /\ DOMAIN Over(f, box2) = DOMAIN f \cup DOMAIN box2
      /\ \A m \in DOMAIN Over(f, box2) :
           Over(f, box2)[m] = IF m \in DOMAIN f THEN f[m] ELSE box2[m]
  BY DEF Over
<1>4. Mailbox(Over(f, box))
  BY <1>2 DEF Mailbox, Added
<1>5. /\ DOMAIN Over(f, box2) = DOMAIN Over(f, box) \cup N
      /\ \A m \in DOMAIN Over(f, box) : Over(f, box2)[m] = Over(f, box)[m]
      /\ \A m \in N : Over(f, box2)[m] = "delivered"
      /\ \A m \in DOMAIN Over(f, box) : m.re < m.at /\ m.at < now
  BY <1>1, <1>2, <1>3 DEF Added
<1> QED BY <1>4, <1>5 DEF Added

LEMMA MarkedUnder ==
  ASSUME NEW f, NEW box, NEW box2, NEW M, NEW st, Marked(box, box2, M, st),
         \A m \in M : m \notin DOMAIN f
  PROVE  Marked(Over(f, box), Over(f, box2), M, st)
BY DEF Marked, Over

LEMMA OutsideMail ==
  ASSUME TypeOK, SettledInv, RecordInv, ShownInv, MailInv, DeskOK',
         NEW tx, Outside(tx), Outsider, touched' \cup passed' \subseteq DOMAIN mail',
         BoxOK(mail', touched', passed', Done, tries), BoxOK(Shown(own)', touched', passed', Done, tries),
         \E b \in Nat : Timed(Shown(own)', b),
         Later(mail, mail'), Later(Shown(own), Shown(own)')
  PROVE  MailInv'
<1>1. [Next]_vars
  BY NetworkStep DEF NetworkNext
<1>2. UNCHANGED <<vars, drained, prepared>>
  BY DEF Outside
<1>3. UNCHANGED <<pc, batch, state>> /\ ~RecordBatch
  BY <1>2 DEF vars, memory, session, rows, RecordBatch
<1>4. \A n \in Nodes : drained'[n] \subseteq DOMAIN Shown(own)'
  BY <1>2 DEF MailInv, Later
<1>5. pc' \notin {"preparing", "calling"} => \A n \in Nodes : drained'[n] = {}
  BY <1>2, <1>3 DEF MailInv
<1>6. ASSUME pc' = "preparing", NEW n \in prepared' PROVE HandedOver(Shown(own), n)'
  <2>1. HandedOver(Shown(own), n)
    BY <1>2, <1>3, <1>6 DEF MailInv
  <2>2. HandedOver(Shown(own)', n)
    BY <2>1, HandedLater
  <2> QED BY <1>2, <1>3, <2>2 DEF HandedOver
<1>7. HandoffRead'
  <2> SUFFICES ASSUME pc' = "calling", NEW n \in batch' PROVE HandedOver(mail, n)'
    BY DEF HandoffRead
  <2>1. HandedOver(mail, n)
    BY <1>3 DEF MailInv, HandoffRead
  <2>2. HandedOver(mail', n)
    BY <2>1, HandedLater
  <2> QED BY <1>2, <1>3, <2>2 DEF HandedOver
<1>8. DOMAIN mail \subseteq DOMAIN mail'
  BY DEF Later
<1> QED BY <1>1, <1>3, <1>4, <1>5, <1>6, <1>7, <1>8, MailKept

(* What the mail looks like to somebody outside, and to the engine.        *)
LEMMA Inside ==
  ASSUME ShownInv, MailInv
  PROVE  /\ IsTx(NoTx) /\ DOMAIN Shown(NoTx) = DOMAIN mail
         /\ \A m \in DOMAIN mail : Shown(NoTx)[m] = mail[m]
         /\ BoxOK(Shown(NoTx), touched, passed, Done, tries) /\ BoxOK(mail, touched, passed, Done, tries)
         /\ Mailbox(own.mail) /\ Mailbox(mail)
         /\ \E b \in Nat :
              /\ Timed(Shown(NoTx), b) /\ Timed(mail, b)
              /\ \A m \in DOMAIN own.mail : m.at \in Nat /\ m.re < m.at /\ m.at <= b
         /\ \A m \in DOMAIN Shown(own) :
              Shown(own)[m] = IF m \in DOMAIN own.mail THEN own.mail[m] ELSE mail[m]
<1>1. NoTx.mail = <<>> /\ IsTx(NoTx)
  BY NoTxTx DEF NoTx
<1>2. /\ DOMAIN Shown(NoTx) = DOMAIN mail
      /\ \A m \in DOMAIN mail : Shown(NoTx)[m] = mail[m]
  BY <1>1, NothingOver DEF Shown
<1>3. BoxOK(mail, touched, passed, Done, tries) /\ Mailbox(own.mail) /\ Mailbox(mail)
  BY DEF MailInv, NetworkTypeOK
<1>4. BoxOK(Shown(NoTx), touched, passed, Done, tries)
  BY <1>2, <1>3, SameBox
<1>5. /\ DOMAIN Shown(own) = DOMAIN own.mail \cup DOMAIN mail
      /\ \A m \in DOMAIN Shown(own) :
           Shown(own)[m] = IF m \in DOMAIN own.mail THEN own.mail[m] ELSE mail[m]
  BY DEF Shown, Over
<1>6. PICK b \in Nat : Timed(Shown(own), b)
  BY DEF MailInv
<1>7. \A m \in DOMAIN own.mail : m.at \in Nat
  BY <1>3, MessageFields DEF Mailbox
<1>8. Timed(Shown(NoTx), b) /\ Timed(mail, b)
  BY <1>2, <1>5, <1>6 DEF Timed
<1>9. \A m \in DOMAIN own.mail : m.re < m.at /\ m.at <= b
  BY <1>5, <1>6 DEF Timed
<1> QED BY <1>1, <1>2, <1>3, <1>4, <1>5, <1>7, <1>8, <1>9

LEMMA OutsideSend ==
  ASSUME TypeOK, SettledInv, RecordInv, ShownInv, MailInv, DeskOK', Outsider,
         NEW S \in SUBSET Message, \A s \in S : s.re = 0 /\ s.turn = 0,
         \A s, t \in S : SameReply(t, s) => t = s,
         Outside(Send(NoTx, S)), touched' = touched
  PROVE  MailInv'
<1> DEFINE tx == Send(NoTx, S)
<1>1. mail' = Shown(tx) /\ own' = own /\ passed' = passed
  BY DEF Outside, CommitThen
<1>2. PICK b \in Nat :
        /\ Timed(Shown(NoTx), b) /\ Timed(mail, b)
        /\ \A m \in DOMAIN own.mail : m.at \in Nat /\ m.re < m.at /\ m.at <= b
  BY Inside
<1>3. /\ IsTx(NoTx) /\ DOMAIN Shown(NoTx) = DOMAIN mail
      /\ \A m \in DOMAIN mail : Shown(NoTx)[m] = mail[m]
      /\ BoxOK(mail, touched, passed, Done, tries) /\ Mailbox(mail) /\ Mailbox(own.mail)
      /\ Mailbox(Shown(NoTx))
  BY Inside DEF BoxOK
<1>4. PICK now \in Nat :
        /\ \A m \in DOMAIN own.mail : m.at < now
        /\ Added(Shown(NoTx), Shown(tx), Dated(S, now), now)
  BY <1>2, <1>3, SendMail
<1> DEFINE N == Dated(S, now)
<1> HIDE DEF tx
<1>5. Added(mail, mail', N, now)
  BY <1>1, <1>3, <1>4 DEF Added
<1>6. Added(Shown(own), Shown(own)', N, now)
  BY <1>1, <1>2, <1>3, <1>4, <1>5, AddedUnder DEF Shown
<1>7. Fresh(N, Done, tries)
  <2>1. \A n \in Done : tries[n] # 0
    BY DEF MailInv
  <2>2. \A s \in S : s.re = 0 /\ \A n \in Done : ~ IsReport(s, n, tries)
    BY <2>1 DEF IsReport
  <2> QED BY <2>2, DatedFresh
<1> HIDE DEF N
<1>8. BoxOK(mail', touched, passed, Done, tries) /\ BoxOK(Shown(own)', touched, passed, Done, tries)
  BY <1>3, <1>5, <1>6, <1>7, AddFresh DEF MailInv
<1>9. Timed(Shown(own)', now) /\ Later(mail, mail') /\ Later(Shown(own), Shown(own)')
  BY <1>5, <1>6, AddedBox, AddedLater
<1>10. touched' \cup passed' \subseteq DOMAIN mail'
  BY <1>1, <1>9 DEF MailInv, NetworkTypeOK, Later
<1> QED BY <1>1, <1>8, <1>9, <1>10, OutsideMail DEF tx

LEMMA OutsideSet ==
  ASSUME TypeOK, SettledInv, RecordInv, ShownInv, MailInv, DeskOK', Outsider,
         NEW m \in Free, NEW st \in {"acknowledged", "completed"},
         Outside(SetStatus(NoTx, {m}, st)), touched' = touched \cup {m}
  PROVE  MailInv'
<1> DEFINE tx == SetStatus(NoTx, {m}, st)
<1>1. mail' = Shown(tx) /\ own' = own /\ passed' = passed
  BY DEF Outside, CommitThen
<1>2. m \in DOMAIN mail /\ m \notin DOMAIN own.mail /\ st \in MessageStatus /\ st # "delivered"
  BY DEF Free, MessageStatus
<1>3. /\ IsTx(NoTx) /\ DOMAIN Shown(NoTx) = DOMAIN mail
      /\ \A x \in DOMAIN mail : Shown(NoTx)[x] = mail[x]
      /\ BoxOK(mail, touched, passed, Done, tries)
  BY Inside
<1>4. Marked(Shown(NoTx), Shown(tx), {m}, st)
  <2>1. {m} \subseteq DOMAIN Shown(NoTx)
    BY <1>2, <1>3
  <2> QED BY <1>2, <1>3, <2>1, SetMail
<1> HIDE DEF tx
<1>5. Marked(mail, mail', {m}, st)
  BY <1>1, <1>3, <1>4 DEF Marked
<1>6. Marked(Shown(own), Shown(own)', {m}, st)
  BY <1>1, <1>2, <1>5, MarkedUnder DEF Shown
<1>7. BoxOK(mail, touched', passed', Done, tries) /\ BoxOK(Shown(own), touched', passed', Done, tries)
  BY <1>1, <1>3, FewerBox DEF MailInv
<1>8. BoxOK(mail', touched', passed', Done, tries) /\ BoxOK(Shown(own)', touched', passed', Done, tries)
  BY <1>5, <1>6, <1>7, MarkBox
<1>9. Later(mail, mail') /\ Later(Shown(own), Shown(own)')
  BY <1>2, <1>5, <1>6, MarkedLater
<1>10. \E b \in Nat : Timed(Shown(own)', b)
  BY <1>6 DEF MailInv, Marked, Timed
<1>11. touched' \cup passed' \subseteq DOMAIN mail'
  BY <1>1, <1>2, <1>9 DEF MailInv, NetworkTypeOK, Later
<1> QED BY <1>8, <1>9, <1>10, <1>11, OutsideMail DEF tx

LEMMA OutsideRespond ==
  ASSUME TypeOK, SettledInv, RecordInv, ShownInv, MailInv, DeskOK', Outsider,
         NEW m \in Free, Outside(Respond(NoTx, {m})), touched' = touched \cup {m}
  PROVE  MailInv'
<1> DEFINE set == SetStatus(NoTx, {m}, "completed")
           tx  == Respond(NoTx, {m})
           R   == Replies({m})
           box == Shown(set)
<1>1. mail' = Shown(tx) /\ own' = own /\ passed' = passed /\ tx = Send(set, R)
  BY DEF Outside, CommitThen, Respond, Replies
<1>2. m \in DOMAIN mail /\ m \notin DOMAIN own.mail /\ "completed" \in MessageStatus
  BY DEF Free, MessageStatus
<1>3. PICK b \in Nat :
        /\ Timed(Shown(NoTx), b) /\ Timed(mail, b)
        /\ \A x \in DOMAIN own.mail : x.at \in Nat /\ x.re < x.at /\ x.at <= b
  BY Inside
<1>4. /\ IsTx(NoTx) /\ DOMAIN Shown(NoTx) = DOMAIN mail
      /\ \A x \in DOMAIN mail : Shown(NoTx)[x] = mail[x]
      /\ BoxOK(mail, touched, passed, Done, tries) /\ Mailbox(mail) /\ Mailbox(own.mail)
  BY Inside
<1>5. IsTx(set) /\ Marked(Shown(NoTx), box, {m}, "completed")
  <2>1. {m} \subseteq DOMAIN Shown(NoTx)
    BY <1>2, <1>4
  <2> QED BY <1>2, <1>4, <2>1, SetMail, SetStatusTx
<1> HIDE DEF set, tx
<1>6. Marked(mail, box, {m}, "completed")
  BY <1>4, <1>5 DEF Marked
<1>7. Mailbox(box) /\ Timed(box, b) /\ m \in DOMAIN box
  BY <1>2, <1>3, <1>4, <1>6 DEF Marked, Mailbox, Timed
<1>8. R \in SUBSET Message /\ \A s \in R : \E x \in DOMAIN box : s.re = x.at
  <2>1. m \in Message
    BY <1>7 DEF Mailbox
  <2> DEFINE r == ReplyTo(m)
  <2>2. r \in Message /\ r.re = m.at
    BY <2>1, ReplyFields
  <2>3. R = {r}
    BY DEF Replies
  <2> HIDE DEF r, R
  <2> QED BY <1>7, <2>2, <2>3
<1> HIDE DEF R
<1>9. PICK now \in Nat :
        /\ \A x \in DOMAIN own.mail : x.at < now
        /\ Added(box, Shown(Send(set, R)), Dated(R, now), now)
  BY <1>3, <1>5, <1>7, <1>8, SendMail
<1> DEFINE N == Dated(R, now)
           mid == Over(own.mail, box)
<1>10. Added(box, mail', N, now)
  BY <1>1, <1>9
<1> HIDE DEF box
<1>11. Marked(Shown(own), mid, {m}, "completed") /\ Added(mid, Shown(own)', N, now)
  <2>1. Marked(Over(own.mail, mail), Over(own.mail, box), {m}, "completed")
    BY <1>2, <1>6, MarkedUnder
  <2>2. Added(Over(own.mail, box), Over(own.mail, mail'), N, now)
    BY <1>3, <1>4, <1>9, <1>10, AddedUnder
  <2> QED BY <1>1, <2>1, <2>2 DEF Shown
<1> HIDE DEF mid
<1>12. BoxOK(mail, touched', passed', Done, tries) /\ BoxOK(Shown(own), touched', passed', Done, tries)
  BY <1>1, <1>4, FewerBox DEF MailInv
<1>13. /\ {m} \ touched' = {}
       /\ \A n \in Done : tries[n] # 0
  BY DEF MailInv
<1>14. BoxOK(mail', touched', passed', Done, tries)
  BY <1>6, <1>10, <1>12, <1>13, ReplyBox DEF R
<1>15. BoxOK(Shown(own)', touched', passed', Done, tries)
  BY <1>11, <1>12, <1>13, ReplyBox DEF R
<1> HIDE DEF N
<1>16. Later(mail, mail') /\ Later(Shown(own), Shown(own)')
  BY <1>6, <1>10, <1>11, MarkedLater, AddedLater, LaterBox
<1>17. Timed(Shown(own)', now)
  BY <1>11, AddedBox
<1>18. touched' \cup passed' \subseteq DOMAIN mail'
  BY <1>1, <1>2, <1>16 DEF MailInv, NetworkTypeOK, Later
<1> QED BY <1>14, <1>15, <1>16, <1>17, <1>18, OutsideMail DEF tx

LEMMA SheetFields ==
  ASSUME NEW from \in Nodes \cup {Orchestrator}, NEW to \in Nodes \cup {Orchestrator},
         NEW w \in Written
  PROVE  /\ Sheet(from, to, w) \in Message /\ Sheet(from, to, w).re = 0
         /\ Sheet(from, to, w).turn = 0 /\ Sheet(from, to, w).to = to
<1>1. w[1] \in MessageType /\ w[2] \in BOOLEAN /\ w[3] \in Rank
  BY NetworkAssumption
<1> DEFINE l == Letter(from, to, w[1], 0)
<1>2. l \in Message /\ l.re = 0 /\ l.turn = 0 /\ l.to = to
  BY <1>1, LetterFields
<1>3. Sheet(from, to, w) = [l EXCEPT !.needs = w[2], !.rank = w[3]]
  BY DEF Sheet
<1> HIDE DEF l
<1> QED BY <1>1, <1>2, <1>3 DEF Message

LEMMA MailOutsider ==
  ASSUME TypeOK, SettledInv, RecordInv, ShownInv, MailInv, DeskOK', Outsider
  PROVE  MailInv'
<1>1. ASSUME NEW from \in Writers, NEW to \in Nodes \cup {Orchestrator}, SendMessage(from, to)
      PROVE  MailInv'
  <2>1. PICK w \in Written :
          Outside(Send(NoTx, {Sheet(from, to, w)}))
    BY <1>1 DEF SendMessage
  <2> DEFINE S == {Sheet(from, to, w)}
  <2>2. from \in Nodes \cup {Orchestrator}
    BY NetworkAssumption
  <2>3. S \in SUBSET Message /\ \A s \in S : s.re = 0 /\ s.turn = 0
    BY <2>2, SheetFields
  <2>4. \A s, t \in S : SameReply(t, s) => t = s
    OBVIOUS
  <2>5. touched' = touched
    BY <1>1 DEF SendMessage
  <2> HIDE DEF S
  <2> QED BY <2>1, <2>3, <2>4, <2>5, OutsideSend DEF S
<1>2. ASSUME NEW from \in Writers, Broadcast(from) PROVE MailInv'
  <2>1. PICK w \in Written :
          Outside(Send(NoTx, {Sheet(from, to, w) : to \in Nodes \ {from}}))
    BY <1>2 DEF Broadcast
  <2> DEFINE sheet(to) == Sheet(from, to, w)
             S         == {sheet(to) : to \in Nodes \ {from}}
  <2>2. from \in Nodes \cup {Orchestrator}
    BY NetworkAssumption
  <2>3. \A to \in Nodes \ {from} :
          sheet(to) \in Message /\ sheet(to).re = 0 /\ sheet(to).turn = 0 /\ sheet(to).to = to
    BY <2>2, SheetFields
  <2>4. Outside(Send(NoTx, S))
    BY <2>1
  <2> HIDE DEF sheet
  <2>5. S \in SUBSET Message /\ \A s \in S : s.re = 0 /\ s.turn = 0
    BY <2>3
  <2>6. \A s, t \in S : SameReply(t, s) => t = s
    BY <2>3 DEF SameReply
  <2>7. touched' = touched
    BY <1>2 DEF Broadcast
  <2> HIDE DEF S
  <2> QED BY <2>4, <2>5, <2>6, <2>7, OutsideSend
<1>3. ASSUME NEW m \in Free, AcknowledgeMessage(m) \/ CompleteMessage(m) PROVE MailInv'
  BY <1>3, OutsideSet DEF AcknowledgeMessage, CompleteMessage
<1>4. ASSUME NEW m \in Free, RespondToMessage(m) PROVE MailInv'
  BY <1>4, OutsideRespond DEF RespondToMessage
<1> QED BY <1>1, <1>2, <1>3, <1>4 DEF Outsider

(* Another run of an agent leaves the mail alone.                          *)
LEMMA MailOtherRun ==
  ASSUME TypeOK, SettledInv, RecordInv, ShownInv, MailInv, DeskOK',
         NEW n \in Nodes, OtherRun(n)
  PROVE  MailInv'
<1>1. [Next]_vars
  BY NetworkStep DEF NetworkNext
<1>2. UNCHANGED <<vars, mail, own, drained, prepared, touched, passed>>
  BY DEF OtherRun
<1>3. UNCHANGED <<pc, state, batch>> /\ ~RecordBatch /\ Shown(own)' = Shown(own)
  BY <1>2 DEF vars, memory, session, rows, RecordBatch, Shown
<1>4. /\ BoxOK(mail', touched', passed', Done, tries)
      /\ BoxOK(Shown(own)', touched', passed', Done, tries)
      /\ \E b \in Nat : Timed(Shown(own)', b)
      /\ \A k \in Nodes : drained'[k] \subseteq DOMAIN Shown(own)'
      /\ touched' \cup passed' \subseteq DOMAIN mail'
  BY <1>2, <1>3 DEF MailInv, NetworkTypeOK
<1>5. pc' \notin {"preparing", "calling"} => \A k \in Nodes : drained'[k] = {}
  BY <1>2, <1>3 DEF MailInv
<1>6. pc' = "preparing" => \A k \in prepared' : HandedOver(Shown(own), k)'
  BY <1>2, <1>3 DEF MailInv, HandedOver
<1>7. HandoffRead'
  BY <1>2, <1>3 DEF MailInv, HandoffRead, HandedOver
<1> QED BY <1>1, <1>2, <1>3, <1>4, <1>5, <1>6, <1>7, MailKept

-----------------------------------------------------------------------------
LEMMA MailInit == ASSUME NetworkInit PROVE MailInv
<1>1. /\ pc = "queued" /\ mail = <<>> /\ own.mail = <<>> /\ own.presence = <<>>
      /\ prepared = {} /\ touched = {} /\ passed = {} /\ elsewhere = {} /\ letters = MaxLetters
      /\ presence = [n \in Nodes |-> "idle"] /\ drained = [n \in Nodes |-> {}]
      /\ \A n \in Nodes : node[n] # "completed"
  BY DEF NetworkInit, Init, Blank, NoTx
<1>2. DOMAIN mail = {} /\ DOMAIN own.mail = {} /\ DOMAIN own.presence = {}
  BY <1>1
<1>3. DOMAIN Shown(own) = {}
  BY <1>2 DEF Shown, Over
<1>4. ASSUME NEW box, DOMAIN box = {} PROVE BoxOK(box, touched, passed, Done, tries) /\ Timed(box, 0)
  BY <1>4 DEF BoxOK, Mailbox, Distinct, AnsweredIn, ClosedOut, Timed
<1>5. NetworkTypeOK
  BY <1>1, <1>2, NetworkAssumption DEF NetworkTypeOK, Mailbox, RuntimeStatus
<1>6. Done = {} /\ HandoffOnRecord
  BY <1>1, PlanAssumption DEF Done, HandoffOnRecord
<1> QED BY <1>1, <1>2, <1>3, <1>4, <1>5, <1>6 DEF MailInv, HandoffRead

LEMMA MailStep ==
  ASSUME TypeOK, SettledInv, RecordInv, ShownInv, MailInv, [NetworkNext]_netVars
  PROVE  MailInv'
<1>1. CASE NetworkNext
  <2>1. DeskOK
    BY DEF MailInv, NetworkTypeOK, DeskOK, Desks
  <2>2. DeskOK'
    BY <1>1, <2>1, DeskStep
  <2> QED
    BY <1>1, <2>2, MailQuiet, MailPass, MailPrepare, MailPrepareNode, MailDispatch, MailRecord,
       MailRoute, MailFinish, MailGone, MailOutsider, MailOtherRun
       DEF NetworkNext
<1>2. CASE UNCHANGED netVars
  <2>1. UNCHANGED <<mail, own, presence, drained, prepared, touched, passed, elsewhere, letters,
                    pc, state, batch, node, tries>>
    BY <1>2 DEF netVars, network, vars, rows, memory, session
  <2>2. Shown(own)' = Shown(own) /\ Done' = Done
    BY <2>1 DEF Shown, Done
  <2>3. NetworkTypeOK'
    BY <2>1 DEF MailInv, NetworkTypeOK, Mailbox
  <2>4. HandoffOnRecord' /\ HandoffRead'
    BY <2>1 DEF MailInv, HandoffOnRecord, HandoffRead, HandedOver
  <2>5. pc' = "preparing" => \A n \in prepared' : HandedOver(Shown(own), n)'
    BY <2>1, <2>2 DEF MailInv, HandedOver
  <2> QED BY <2>1, <2>2, <2>3, <2>4, <2>5 DEF MailInv
<1> QED BY <1>1, <1>2

LEMMA MailInvariant == NetworkSpec => []MailInv
<1>1. NetworkSpec => [](TypeOK /\ SettledInv /\ RecordInv)
  BY NetworkRunsWorkflow, TypeCorrect, SettledInvariant, RecordInvariant, PTL
<1>2. NetworkSpec => []ShownInv
  BY ShownInvariant
<1>3. NetworkInit => MailInv
  BY MailInit
<1>4. TypeOK /\ SettledInv /\ RecordInv /\ ShownInv /\ MailInv /\ [NetworkNext]_netVars => MailInv'
  BY MailStep
<1> QED BY <1>1, <1>2, <1>3, <1>4, PTL DEF NetworkSpec

(* The network keeps to its types.                                         *)
THEOREM NetworkTypeCorrect == NetworkSpec => []NetworkTypeOK
<1>1. MailInv => NetworkTypeOK
  BY DEF MailInv
<1> QED BY <1>1, MailInvariant, PTL

(* Whoever depends on a completed step has been sent the very attempt on   *)
(* record: the letter and the status are one commit (_handoff, run()).     *)
THEOREM HandoffsOnRecord == NetworkSpec => []HandoffOnRecord
<1>1. MailInv => HandoffOnRecord
  BY DEF MailInv
<1> QED BY <1>1, MailInvariant, PTL

(* No step is called while what was handed to it lies unread, unless the   *)
(* page it read was full of mail as pressing, for every size of a page and *)
(* whoever writes to the mail meanwhile (drain_inbox).                     *)
THEOREM HandoffsRead == NetworkSpec => []HandoffRead
<1>1. MailInv => HandoffRead
  BY DEF MailInv
<1> QED BY <1>1, MailInvariant, PTL

(* The engine answers no question twice, through repairs, retries, crashes *)
(* and resumes (respond, reply_to_waiting_peers).                          *)
THEOREM NobodyAnsweredTwice == NetworkSpec => []AnsweredOnce
<1>1. MailInv => AnsweredOnce
  <2> SUFFICES ASSUME MailInv, NEW m \in DOMAIN mail \ touched, m.needs
               PROVE  Cardinality({r \in {x \in DOMAIN mail : x.re > 0} : Answers(r, m)}) <= 1
    BY DEF AnsweredOnce
  <2> DEFINE A == {r \in {x \in DOMAIN mail : x.re > 0} : Answers(r, m)}
  <2>1. AnsweredIn(mail, touched)
    BY DEF MailInv, BoxOK
  <2>2. \A r, q \in A : q = r
    BY <2>1 DEF AnsweredIn
  <2> HIDE DEF A
  <2>3. A = {} \/ \E r \in A : A = {r}
    BY <2>2
  <2>4. Cardinality(A) \in {0, 1}
    BY <2>3, FS_EmptySet, FS_Singleton
  <2> QED BY <2>4 DEF A
<1> QED BY <1>1, MailInvariant, PTL

(* Every request to a step whose result is on record, if it is still open, *)
(* came after the step reported, or had a page of mail before it when the  *)
(* step reported, for every size of a page (reply_to_waiting_peers).       *)
THEOREM RequestsClosedOut == NetworkSpec => []NoRequestForgotten
<1>1. MailInv => NoRequestForgotten
  BY DEF MailInv, BoxOK, NoRequestForgotten
<1> QED BY <1>1, MailInvariant, PTL
=============================================================================
