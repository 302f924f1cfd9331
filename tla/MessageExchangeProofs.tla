------------------------ MODULE MessageExchangeProofs ------------------------
(***************************************************************************)
(* Proofs about the message exchange, for every number of sessions, every  *)
(* size of the receive queues and every number of deadlines, broken links  *)
(* and rejected connections: an answer belongs to its request, requests    *)
(* are executed in order, and the memory node's loop ends for a cause.     *)
(***************************************************************************)
EXTENDS MessageExchange, Integers, TLAPS

(* Whether x is in a queue, and whether it is there once at most *)
Has(q, x)  == \E i \in 1 .. Len(q) : q[i] = x
Once(q, x) == \A i, j \in 1 .. Len(q) : q[i] = x /\ q[j] = x => i = j

-----------------------------------------------------------------------------
(* The inductive invariant: for each session, of its end c at the compute  *)
(* node, its end m at the memory node, whether its link is cut (k) and the *)
(* requests executed (l).                                                  *)

(* A connection takes one request at a time; one that does not exist is    *)
(* blank.                                                                  *)
ConnSound(m) ==
  /\ ~ m.open => m = NoConn
  /\ Once(m.cq, "recv")
  /\ m.recv => ~ Has(m.cq, "recv")

(* A queue pair of the memory node fails because of its link. *)
DownForCause(c, m, k) ==
  ~ m.up => m.open /\ (c.pc = "left" \/ k) /\ m.out > 0

Before == {"new", "connecting", "refused"}

(* Before it is accepted, a session has no history. *)
NotYet(c, m, l) ==
  /\ c.pc \in Before =>
       /\ ~ m.open /\ Len(l) = 0
       /\ c.n = 0 /\ c.answer = 0 /\ c.recvs = 0 /\ c.out = 0 /\ c.acked = 0
       /\ Len(c.cq) = 0
  /\ c.pc # "wait" => ~ c.sent /\ ~ c.got

(* What was executed is not newer than what was asked, and what waits to   *)
(* be executed is not older than what was executed.                        *)
Ordered(c, m, l) ==
  /\ \A i, j \in 1 .. Len(l) : i < j => l[i] <= l[j]
  /\ c.pc # "left" => m.rbuf <= c.n /\ \A i \in 1 .. Len(l) : l[i] <= c.n
  /\ Has(m.cq, "recv") => \A i \in 1 .. Len(l) : l[i] <= m.rbuf

(* While no exchange failed: the send of the exchange under way is posted, *)
(* delivered, acknowledged or known ...                                    *)
SendUnderWay(c) ==
  /\ Once(c.cq, "send")
  /\ \/ c.out = 1 /\ c.acked = 0 /\ ~ Has(c.cq, "send") /\ ~ c.sent
     \/ c.out = 0 /\ c.acked = 1 /\ ~ Has(c.cq, "send") /\ ~ c.sent
     \/ c.out = 0 /\ c.acked = 0 /\ Has(c.cq, "send") /\ ~ c.sent
     \/ c.out = 0 /\ c.acked = 0 /\ ~ Has(c.cq, "send") /\ c.sent

(* ... and its request is asked, has arrived, is executed or is answered.  *)
Asked(c, m, l) ==
  /\ c.out = 1 /\ Len(l) + 1 = c.n
  /\ m.out = 0 /\ ~ Has(m.cq, "recv")
  /\ c.recvs = 1 /\ ~ Has(c.cq, "recv") /\ ~ c.got

Arrived(c, m, l) ==
  /\ c.out = 0 /\ Len(l) + 1 = c.n
  /\ m.out = 0 /\ (m.open => Has(m.cq, "recv"))
  /\ c.recvs = 1 /\ ~ Has(c.cq, "recv") /\ ~ c.got

Executed(c, m, l) ==
  /\ c.out = 0 /\ Len(l) = c.n
  /\ m.open => m.out = 1 /\ m.sbuf = c.n
  /\ ~ Has(m.cq, "recv")
  /\ c.recvs = 1 /\ ~ Has(c.cq, "recv") /\ ~ c.got

Responded(c, m, l) ==
  /\ c.out = 0 /\ Len(l) = c.n
  /\ m.out = 0 /\ ~ Has(m.cq, "recv")
  /\ c.recvs = 0 /\ c.buf = c.n
  /\ Once(c.cq, "recv") /\ (Has(c.cq, "recv") <=> ~ c.got)

Exchanging(c, m, l) ==
  \/ Asked(c, m, l)
  \/ Arrived(c, m, l)
  \/ Executed(c, m, l)
  \/ Responded(c, m, l)

Resting(c, m, l) ==
  /\ c.answer = c.n /\ Len(l) = c.n
  /\ c.recvs = 0 /\ c.out = 0 /\ c.acked = 0 /\ Len(c.cq) = 0
  /\ m.out = 0 /\ ~ Has(m.cq, "recv")

Clean(c, m, l) ==
  ~ c.late =>
    /\ \A i \in 1 .. Len(l) : l[i] = i
    /\ Has(m.cq, "recv") => m.rbuf = Len(l) + 1
    /\ c.pc = "idle" => Resting(c, m, l)
    /\ c.pc = "wait" => SendUnderWay(c) /\ Exchanging(c, m, l)

Good(c, m, k, l) ==
  /\ ConnSound(m) /\ DownForCause(c, m, k) /\ NotYet(c, m, l)
  /\ Ordered(c, m, l) /\ Clean(c, m, l)

(* A session asks for a connection once. *)
ConnectsOnce(s) ==
  /\ Once(events, <<"connect", s>>)
  /\ Has(events, <<"connect", s>>) => cn[s].pc = "connecting" \/ loop = "ended"

AllGood == \A s \in Sessions : Good(cn[s], mn[s], cut[s], log[s])

Inv == TypeOK /\ AllGood /\ \A s \in Sessions : ConnectsOnce(s)

-----------------------------------------------------------------------------
(* Queues *)

LEMMA HasAppend ==
  ASSUME NEW S, NEW q \in Seq(S), NEW y \in S, NEW x
  PROVE  /\ Has(Append(q, y), x) <=> Has(q, x) \/ x = y
         /\ Once(q, x) /\ (y = x => ~ Has(q, x)) => Once(Append(q, y), x)
<1>1. Has(Append(q, y), x) <=> Has(q, x) \/ x = y
  BY DEF Has
<1>2. ASSUME Once(q, x), y = x => ~ Has(q, x) PROVE Once(Append(q, y), x)
  BY <1>2 DEF Has, Once
<1>. QED
  BY <1>1, <1>2

LEMMA HasTail ==
  ASSUME NEW S, NEW q \in Seq(S), q # <<>>, NEW x
  PROVE  /\ Tail(q) \in Seq(S) /\ Head(q) \in S
         /\ Once(q, x) => Once(Tail(q), x)
         /\ Once(q, x) /\ Head(q) = x => ~ Has(Tail(q), x) /\ Has(q, x)
         /\ Head(q) # x => (Has(Tail(q), x) <=> Has(q, x))
<1>1. Once(q, x) => Once(Tail(q), x)
  BY DEF Has, Once
<1>2. ASSUME Once(q, x), Head(q) = x PROVE ~ Has(Tail(q), x) /\ Has(q, x)
  BY <1>2 DEF Has, Once
<1>3. ASSUME Head(q) # x PROVE Has(Tail(q), x) <=> Has(q, x)
  BY <1>3 DEF Has
<1>. QED
  BY <1>1, <1>2, <1>3

LEMMA HasNone ==
  ASSUME NEW S, NEW q \in Seq(S)
  PROVE  /\ Len(q) = 0 <=> q = <<>>
         /\ Len(q) = 0 => \A x : ~ Has(q, x) /\ Once(q, x)
  BY DEF Has, Once

(* Blank records *)
LEMMA NewFields ==
  /\ NewSession \in SessionType
  /\ NewSession.pc = "new" /\ NewSession.n = 0 /\ ~ NewSession.sent /\ ~ NewSession.got
  /\ NewSession.answer = 0 /\ ~ NewSession.late /\ NewSession.recvs = 0
  /\ NewSession.out = 0 /\ NewSession.acked = 0 /\ NewSession.buf = 0
  /\ Len(NewSession.cq) = 0 /\ NewSession.up
  BY DEF NewSession, SessionType, Completion

LEMMA NoConnFields ==
  /\ NoConn \in ConnType
  /\ ~ NoConn.open /\ ~ NoConn.recv /\ NoConn.rbuf = 0 /\ NoConn.sbuf = 0
  /\ NoConn.out = 0 /\ Len(NoConn.cq) = 0 /\ NoConn.up
  BY DEF NoConn, ConnType, Completion

(* What the fields of a session and of a connection are *)
LEMMA SessionFields ==
  ASSUME NEW c \in SessionType
  PROVE  /\ c.pc \in {"new", "connecting", "refused", "idle", "wait", "left"}
         /\ c.n \in Nat /\ c.answer \in Nat /\ c.recvs \in Nat /\ c.out \in Nat
         /\ c.acked \in Nat /\ c.buf \in Nat
         /\ c.sent \in BOOLEAN /\ c.got \in BOOLEAN /\ c.late \in BOOLEAN
         /\ c.up \in BOOLEAN /\ c.cq \in Seq(Completion)
  BY DEF SessionType

LEMMA ConnFields ==
  ASSUME NEW m \in ConnType
  PROVE  /\ m.open \in BOOLEAN /\ m.recv \in BOOLEAN /\ m.up \in BOOLEAN
         /\ m.rbuf \in Nat /\ m.sbuf \in Nat /\ m.out \in Nat
         /\ m.cq \in Seq(Completion)
  BY DEF ConnType

-----------------------------------------------------------------------------
(* Each step, of one session: c, m, k and l before, d, w and h after it     *)

Posts(c, d) ==
  \/ d = [c EXCEPT !.n = c.n + 1, !.pc = "wait", !.recvs = c.recvs + 1,
            !.out = c.out + 1]
  \/ d = [c EXCEPT !.n = c.n + 1, !.late = TRUE]

Polls(c, d) ==
  d = [c EXCEPT !.cq = Tail(c.cq),
         !.sent = c.sent \/ Head(c.cq) = "send",
         !.got = c.got \/ Head(c.cq) = "recv"]

Acknowledged(c, d) ==
  d = [c EXCEPT !.acked = c.acked - 1, !.cq = Append(c.cq, "send")]

Requested(c, m, d, w) ==
  /\ d = [c EXCEPT !.out = c.out - 1, !.acked = c.acked + 1]
  /\ w = [m EXCEPT !.recv = FALSE, !.rbuf = c.n, !.cq = Append(m.cq, "recv")]

Delivered(c, m, d, w) ==
  /\ d = [c EXCEPT !.recvs = c.recvs - 1, !.buf = m.sbuf,
            !.cq = Append(c.cq, "recv")]
  /\ w = [m EXCEPT !.out = m.out - 1, !.cq = Append(m.cq, "send")]

LEMMA GoodConnect ==
  ASSUME NEW c \in SessionType, NEW m \in ConnType, NEW k \in BOOLEAN,
         NEW l \in Seq(Nat), Good(c, m, k, l),
         NEW d \in SessionType, NEW p \in {"connecting", "refused"},
         c.pc \in Before, d = [c EXCEPT !.pc = p]
  PROVE  Good(d, m, k, l)
<1>1. /\ d.pc = p /\ d.n = c.n /\ d.sent = c.sent /\ d.got = c.got
      /\ d.answer = c.answer /\ d.late = c.late /\ d.recvs = c.recvs
      /\ d.out = c.out /\ d.acked = c.acked /\ d.buf = c.buf /\ d.cq = c.cq
  BY DEF SessionType
<1>. QED
  BY <1>1, NoConnFields
  DEF Good, ConnSound, DownForCause, NotYet, Ordered, Clean, Before

LEMMA GoodPost ==
  ASSUME NEW c \in SessionType, NEW m \in ConnType, NEW k \in BOOLEAN,
         NEW l \in Seq(Nat), Good(c, m, k, l),
         NEW d \in SessionType, c.pc = "idle", Posts(c, d)
  PROVE  Good(d, m, k, l)
<1>. DEFINE posts == d = [c EXCEPT !.n = c.n + 1, !.pc = "wait",
                            !.recvs = c.recvs + 1, !.out = c.out + 1]
<1>1. /\ d.n = c.n + 1 /\ d.pc \in {"idle", "wait"} /\ d.sent = c.sent /\ d.got = c.got
      /\ d.acked = c.acked /\ d.buf = c.buf /\ d.cq = c.cq
      /\ ~ posts => d.late
      /\ posts => /\ d.pc = "wait" /\ d.recvs = c.recvs + 1 /\ d.out = c.out + 1
                  /\ d.late = c.late
  BY DEF SessionType, Posts
<1>. HIDE DEF posts
<1>2. c.n \in Nat /\ c.out \in Nat /\ c.recvs \in Nat /\ c.cq \in Seq(Completion)
  BY SessionFields
<1>3. m.rbuf \in Nat
  BY ConnFields
<1>4. ConnSound(m) /\ DownForCause(d, m, k) /\ NotYet(d, m, l)
  BY <1>1 DEF Good, DownForCause, NotYet, Before
<1>5. Ordered(d, m, l)
  BY <1>1, <1>2, <1>3 DEF Good, Ordered
<1>6. ASSUME ~ d.late PROVE Clean(d, m, l)
  <2>1. /\ Resting(c, m, l) /\ ~ c.late /\ d.pc = "wait" /\ d.recvs = c.recvs + 1
        /\ d.out = c.out + 1
    BY <1>1, <1>6 DEF Good, Clean
  <2>2. \A x : ~ Has(d.cq, x) /\ Once(d.cq, x)
    BY <2>1, <1>1, <1>2, HasNone DEF Resting
  <2>3. SendUnderWay(d)
    BY <2>1, <2>2, <1>1, <1>2 DEF SendUnderWay, Resting, Good, NotYet
  <2>4. Asked(d, m, l)
    BY <2>1, <2>2, <1>1, <1>2 DEF Asked, Resting, Good, NotYet
  <2>. QED
    BY <2>1, <2>3, <2>4, <1>1 DEF Clean, Exchanging, Good
<1>. QED
  BY <1>4, <1>5, <1>6 DEF Good, Clean

LEMMA GoodPoll ==
  ASSUME NEW c \in SessionType, NEW m \in ConnType, NEW k \in BOOLEAN,
         NEW l \in Seq(Nat), Good(c, m, k, l),
         NEW d \in SessionType, c.pc = "wait", c.cq # <<>>, Polls(c, d)
  PROVE  Good(d, m, k, l)
<1>1. /\ d.pc = c.pc /\ d.n = c.n /\ d.answer = c.answer /\ d.late = c.late
      /\ d.recvs = c.recvs /\ d.out = c.out /\ d.acked = c.acked /\ d.buf = c.buf
      /\ d.cq = Tail(c.cq)
      /\ d.sent <=> c.sent \/ Head(c.cq) = "send"
      /\ d.got <=> c.got \/ Head(c.cq) = "recv"
  BY DEF SessionType, Polls
<1>2. c.cq \in Seq(Completion) /\ c.sent \in BOOLEAN /\ c.got \in BOOLEAN
  BY SessionFields
<1>3. Head(c.cq) \in {"send", "recv"}
  BY <1>2, HasTail DEF Completion
<1>4. ConnSound(m) /\ DownForCause(d, m, k) /\ NotYet(d, m, l) /\ Ordered(d, m, l)
  BY <1>1 DEF Good, DownForCause, NotYet, Ordered, Before
<1>5. \A x : /\ Once(c.cq, x) => Once(Tail(c.cq), x)
             /\ Once(c.cq, x) /\ Head(c.cq) = x => ~ Has(Tail(c.cq), x) /\ Has(c.cq, x)
             /\ Head(c.cq) # x => (Has(Tail(c.cq), x) <=> Has(c.cq, x))
  BY <1>2, HasTail
<1>6. SendUnderWay(c) => SendUnderWay(d)
  BY <1>1, <1>3, <1>5 DEF SendUnderWay
<1>7. Has(c.cq, "recv") \/ Head(c.cq) # "recv"
  BY <1>2 DEF Has
<1>8. Exchanging(c, m, l) => Exchanging(d, m, l)
  <2>1. Asked(c, m, l) => Asked(d, m, l)
    BY <1>1, <1>3, <1>5, <1>7 DEF Asked
  <2>2. Arrived(c, m, l) => Arrived(d, m, l)
    BY <1>1, <1>3, <1>5, <1>7 DEF Arrived
  <2>3. Executed(c, m, l) => Executed(d, m, l)
    BY <1>1, <1>3, <1>5, <1>7 DEF Executed
  <2>4. Responded(c, m, l) => Responded(d, m, l)
    BY <1>1, <1>3, <1>5, <1>7 DEF Responded
  <2>. QED
    BY <2>1, <2>2, <2>3, <2>4 DEF Exchanging
<1>9. Clean(d, m, l)
  BY <1>1, <1>6, <1>8 DEF Good, Clean
<1>. QED
  BY <1>4, <1>9 DEF Good

(* An exchange that failed: only what holds in spite of it is left to show. *)
LEMMA GoodGivenUp ==
  ASSUME NEW c \in SessionType, NEW m \in ConnType, NEW k \in BOOLEAN,
         NEW l \in Seq(Nat), Good(c, m, k, l),
         NEW d \in SessionType, c.pc = "wait",
         d.pc = "idle", d.late, ~ d.sent, ~ d.got, d.n = c.n
  PROVE  Good(d, m, k, l)
  BY DEF Good, DownForCause, NotYet, Ordered, Clean, Before

LEMMA GoodReturn ==
  ASSUME NEW c \in SessionType, NEW m \in ConnType, NEW k \in BOOLEAN,
         NEW l \in Seq(Nat), Good(c, m, k, l),
         NEW d \in SessionType, c.pc = "wait", c.sent, c.got,
         d = [Over(c) EXCEPT !.answer = c.buf]
  PROVE  Good(d, m, k, l)
<1>1. /\ d.pc = "idle" /\ d.n = c.n /\ d.answer = c.buf /\ d.late = c.late
      /\ d.recvs = c.recvs /\ d.out = c.out /\ d.acked = c.acked
      /\ d.cq = c.cq /\ ~ d.sent /\ ~ d.got
  BY DEF SessionType, Over
<1>2. c.cq \in Seq(Completion)
  BY SessionFields
<1>3. ConnSound(m) /\ DownForCause(d, m, k) /\ NotYet(d, m, l) /\ Ordered(d, m, l)
  BY <1>1 DEF Good, DownForCause, NotYet, Ordered, Before
<1>4. ASSUME ~ d.late PROVE Clean(d, m, l)
  <2>1. SendUnderWay(c) /\ Exchanging(c, m, l) /\ ~ c.late
    BY <1>1, <1>4 DEF Good, Clean
  <2>2. c.out = 0 /\ c.acked = 0 /\ ~ Has(c.cq, "send")
    BY <2>1 DEF SendUnderWay
  <2>3. Responded(c, m, l)
    BY <2>1 DEF Exchanging, Asked, Arrived, Executed
  <2>4. ~ Has(c.cq, "recv")
    BY <2>3 DEF Responded
  <2>5. Len(c.cq) = 0
    BY <2>2, <2>4, <1>2 DEF Has, Completion
  <2>6. Resting(d, m, l)
    BY <1>1, <2>2, <2>3, <2>5 DEF Resting, Responded
  <2>. QED
    BY <1>1, <2>1, <2>6 DEF Clean, Good
<1>. QED
  BY <1>3, <1>4 DEF Good, Clean

LEMMA GoodLeave ==
  ASSUME NEW c \in SessionType, NEW m \in ConnType, NEW k \in BOOLEAN,
         NEW l \in Seq(Nat), Good(c, m, k, l),
         NEW d \in SessionType, c.pc \in {"idle", "wait"},
         d.pc = "left", d.late <=> c.late, ~ d.sent, ~ d.got
  PROVE  Good(d, m, k, l)
  BY DEF Good, DownForCause, NotYet, Ordered, Clean, Before

LEMMA GoodDeliverRequest ==
  ASSUME NEW c \in SessionType, NEW m \in ConnType, NEW k \in BOOLEAN,
         NEW l \in Seq(Nat), Good(c, m, k, l),
         NEW d \in SessionType, NEW w \in ConnType,
         m.open, c.pc # "left", m.up, c.out > 0, m.recv,
         Requested(c, m, d, w)
  PROVE  Good(d, w, k, l)
<1>1. /\ d.pc = c.pc /\ d.n = c.n /\ d.answer = c.answer /\ d.late = c.late
      /\ d.recvs = c.recvs /\ d.out = c.out - 1 /\ d.acked = c.acked + 1
      /\ d.buf = c.buf /\ d.cq = c.cq /\ d.sent = c.sent /\ d.got = c.got
  BY DEF SessionType, Requested
<1>2. /\ w.open = m.open /\ ~ w.recv /\ w.rbuf = c.n /\ w.sbuf = m.sbuf
      /\ w.out = m.out /\ w.cq = Append(m.cq, "recv") /\ w.up = m.up
  BY DEF ConnType, Requested
<1>3. /\ c.n \in Nat /\ c.out \in Nat /\ c.acked \in Nat /\ m.cq \in Seq(Completion)
      /\ "recv" \in Completion
  BY SessionFields, ConnFields DEF Completion
<1>4. Has(w.cq, "recv") /\ Once(w.cq, "recv")
  BY <1>2, <1>3, HasAppend DEF Good, ConnSound
<1>5. c.pc \notin Before
  BY <1>3 DEF Good, NotYet
<1>6. ConnSound(w) /\ DownForCause(d, w, k) /\ NotYet(d, w, l)
  BY <1>1, <1>2, <1>4, <1>5 DEF Good, ConnSound, DownForCause, NotYet
<1>7. Ordered(d, w, l)
  BY <1>1, <1>2, <1>3 DEF Good, Ordered
<1>8. ASSUME ~ d.late PROVE Clean(d, w, l)
  <2>1. c.pc # "idle"
    BY <1>1, <1>3, <1>8 DEF Good, Clean, Resting
  <2>2. c.pc = "wait" /\ SendUnderWay(c) /\ Exchanging(c, m, l) /\ ~ c.late
    BY <2>1, <1>1, <1>5, <1>8, SessionFields DEF Good, Clean, Before
  <2>3. Asked(c, m, l)
    BY <2>2, <1>3 DEF Exchanging, Arrived, Executed, Responded
  <2>4. Arrived(d, w, l)
    BY <2>3, <1>1, <1>2, <1>4 DEF Asked, Arrived
  <2>5. SendUnderWay(d)
    BY <2>2, <2>3, <1>1 DEF SendUnderWay, Asked
  <2>. QED
    BY <1>1, <1>2, <2>2, <2>3, <2>4, <2>5 DEF Clean, Exchanging, Good, Asked
<1>. QED
  BY <1>6, <1>7, <1>8 DEF Good, Clean

LEMMA GoodAcknowledge ==
  ASSUME NEW c \in SessionType, NEW m \in ConnType, NEW k \in BOOLEAN,
         NEW l \in Seq(Nat), Good(c, m, k, l),
         NEW d \in SessionType, c.acked > 0, Acknowledged(c, d)
  PROVE  Good(d, m, k, l)
<1>1. /\ d.pc = c.pc /\ d.n = c.n /\ d.answer = c.answer /\ d.late = c.late
      /\ d.recvs = c.recvs /\ d.out = c.out /\ d.acked = c.acked - 1
      /\ d.buf = c.buf /\ d.cq = Append(c.cq, "send") /\ d.sent = c.sent /\ d.got = c.got
  BY DEF SessionType, Acknowledged
<1>2. c.acked \in Nat /\ c.cq \in Seq(Completion) /\ "send" \in Completion
  BY SessionFields DEF Completion
<1>3. /\ Has(d.cq, "send") /\ (Has(d.cq, "recv") <=> Has(c.cq, "recv"))
      /\ Once(c.cq, "recv") => Once(d.cq, "recv")
      /\ Once(c.cq, "send") /\ ~ Has(c.cq, "send") => Once(d.cq, "send")
  BY <1>1, <1>2, HasAppend
<1>4. c.pc \notin Before
  BY <1>2 DEF Good, NotYet
<1>5. ConnSound(m) /\ DownForCause(d, m, k) /\ NotYet(d, m, l) /\ Ordered(d, m, l)
  BY <1>1, <1>4 DEF Good, DownForCause, NotYet, Ordered
<1>6. ASSUME ~ d.late PROVE Clean(d, m, l)
  <2>1. c.pc # "idle"
    BY <1>1, <1>2, <1>6 DEF Good, Clean, Resting
  <2>2. c.pc = "wait" => SendUnderWay(d)
    BY <1>1, <1>2, <1>3, <1>6 DEF Good, Clean, SendUnderWay
  <2>3. c.pc = "wait" => Exchanging(d, m, l)
    <3>1. Asked(c, m, l) => Asked(d, m, l)
      BY <1>1, <1>3 DEF Asked
    <3>2. Arrived(c, m, l) => Arrived(d, m, l)
      BY <1>1, <1>3 DEF Arrived
    <3>3. Executed(c, m, l) => Executed(d, m, l)
      BY <1>1, <1>3 DEF Executed
    <3>4. Responded(c, m, l) => Responded(d, m, l)
      BY <1>1, <1>3 DEF Responded
    <3>. QED
      BY <3>1, <3>2, <3>3, <3>4, <1>1, <1>6 DEF Good, Clean, Exchanging
  <2>. QED
    BY <1>1, <1>6, <2>1, <2>2, <2>3 DEF Clean, Good
<1>. QED
  BY <1>5, <1>6 DEF Good, Clean

LEMMA GoodDeliverResponse ==
  ASSUME NEW c \in SessionType, NEW m \in ConnType, NEW k \in BOOLEAN,
         NEW l \in Seq(Nat), Good(c, m, k, l),
         NEW d \in SessionType, NEW w \in ConnType,
         m.open, c.pc # "left", m.up, m.out > 0, c.recvs > 0,
         Delivered(c, m, d, w)
  PROVE  Good(d, w, k, l)
<1>1. /\ d.pc = c.pc /\ d.n = c.n /\ d.answer = c.answer /\ d.late = c.late
      /\ d.recvs = c.recvs - 1 /\ d.out = c.out /\ d.acked = c.acked
      /\ d.buf = m.sbuf /\ d.cq = Append(c.cq, "recv") /\ d.sent = c.sent /\ d.got = c.got
  BY DEF SessionType, Delivered
<1>2. /\ w.open = m.open /\ w.recv = m.recv /\ w.rbuf = m.rbuf /\ w.sbuf = m.sbuf
      /\ w.out = m.out - 1 /\ w.cq = Append(m.cq, "send") /\ w.up = m.up
  BY DEF ConnType, Delivered
<1>3. /\ c.recvs \in Nat /\ m.out \in Nat /\ c.cq \in Seq(Completion)
      /\ m.cq \in Seq(Completion) /\ "recv" \in Completion /\ "send" \in Completion
  BY SessionFields, ConnFields DEF Completion
<1>4. (Has(w.cq, "recv") <=> Has(m.cq, "recv")) /\ (Once(m.cq, "recv") => Once(w.cq, "recv"))
  BY <1>2, <1>3, HasAppend
<1>5. /\ Has(d.cq, "recv") /\ (Has(d.cq, "send") <=> Has(c.cq, "send"))
      /\ Once(c.cq, "send") => Once(d.cq, "send")
      /\ Once(c.cq, "recv") /\ ~ Has(c.cq, "recv") => Once(d.cq, "recv")
  BY <1>1, <1>3, HasAppend
<1>6. c.pc \notin Before
  BY <1>3 DEF Good, NotYet
<1>7. ConnSound(w) /\ DownForCause(d, w, k) /\ NotYet(d, w, l) /\ Ordered(d, w, l)
  BY <1>1, <1>2, <1>4, <1>6 DEF Good, ConnSound, DownForCause, NotYet, Ordered
<1>8. ASSUME ~ d.late PROVE Clean(d, w, l)
  <2>1. c.pc # "idle"
    BY <1>1, <1>3, <1>8 DEF Good, Clean, Resting
  <2>2. c.pc = "wait" => SendUnderWay(d)
    BY <1>1, <1>5, <1>8 DEF Good, Clean, SendUnderWay
  <2>3. ASSUME c.pc = "wait" PROVE Exchanging(d, w, l)
    <3>1. Exchanging(c, m, l)
      BY <2>3, <1>1, <1>8 DEF Good, Clean
    <3>2. Executed(c, m, l)
      BY <3>1, <1>3 DEF Exchanging, Asked, Arrived, Responded
    <3>3. Once(c.cq, "recv")
      BY <3>2 DEF Executed, Has, Once
    <3>4. Responded(d, w, l)
      BY <3>2, <3>3, <1>1, <1>2, <1>3, <1>4, <1>5 DEF Executed, Responded
    <3>. QED
      BY <3>4 DEF Exchanging
  <2>. QED
    BY <1>1, <1>2, <1>4, <1>8, <2>1, <2>2, <2>3 DEF Clean, Good
<1>. QED
  BY <1>7, <1>8 DEF Good, Clean

LEMMA GoodBreak ==
  ASSUME NEW c \in SessionType, NEW m \in ConnType, NEW k \in BOOLEAN,
         NEW l \in Seq(Nat), Good(c, m, k, l)
  PROVE  Good(c, m, TRUE, l)
  BY DEF Good, DownForCause

LEMMA GoodSessionFails ==
  ASSUME NEW c \in SessionType, NEW m \in ConnType, NEW k \in BOOLEAN,
         NEW l \in Seq(Nat), Good(c, m, k, l),
         NEW d \in SessionType, d = [c EXCEPT !.up = FALSE]
  PROVE  Good(d, m, k, l)
<1>1. /\ d.pc = c.pc /\ d.n = c.n /\ d.answer = c.answer /\ d.late = c.late
      /\ d.recvs = c.recvs /\ d.out = c.out /\ d.acked = c.acked
      /\ d.buf = c.buf /\ d.cq = c.cq /\ d.sent = c.sent /\ d.got = c.got
  BY DEF SessionType
<1>2. SendUnderWay(c) => SendUnderWay(d)
  BY <1>1 DEF SendUnderWay
<1>3. Exchanging(c, m, l) => Exchanging(d, m, l)
  BY <1>1 DEF Exchanging, Asked, Arrived, Executed, Responded
<1>4. Clean(d, m, l)
  BY <1>1, <1>2, <1>3 DEF Good, Clean, Resting
<1>. QED
  BY <1>1, <1>4 DEF Good, DownForCause, NotYet, Ordered

LEMMA GoodConnFails ==
  ASSUME NEW c \in SessionType, NEW m \in ConnType, NEW k \in BOOLEAN,
         NEW l \in Seq(Nat), Good(c, m, k, l),
         NEW w \in ConnType, m.open, c.pc = "left" \/ k, m.out > 0,
         w = [m EXCEPT !.up = FALSE]
  PROVE  Good(c, w, k, l)
<1>1. /\ w.open = m.open /\ w.recv = m.recv /\ w.rbuf = m.rbuf /\ w.sbuf = m.sbuf
      /\ w.out = m.out /\ w.cq = m.cq
  BY DEF ConnType
<1>2. Exchanging(c, m, l) => Exchanging(c, w, l)
  BY <1>1 DEF Exchanging, Asked, Arrived, Executed, Responded
<1>3. Clean(c, w, l)
  BY <1>1, <1>2 DEF Good, Clean, Resting
<1>. QED
  BY <1>1, <1>3 DEF Good, ConnSound, DownForCause, NotYet, Ordered

(* The memory node's end is gone. *)
LEMMA GoodDispose ==
  ASSUME NEW c \in SessionType, NEW m \in ConnType, NEW k \in BOOLEAN,
         NEW l \in Seq(Nat), Good(c, m, k, l)
  PROVE  Good(c, NoConn, k, l)
<1>1. \A x : ~ Has(NoConn.cq, x) /\ Once(NoConn.cq, x)
  BY NoConnFields, HasNone DEF ConnType
<1>2. ConnSound(NoConn) /\ DownForCause(c, NoConn, k) /\ NotYet(c, NoConn, l)
  BY <1>1, NoConnFields DEF Good, ConnSound, DownForCause, NotYet
<1>3. Ordered(c, NoConn, l)
  BY <1>1, NoConnFields, SessionFields DEF Good, Ordered
<1>4. Exchanging(c, m, l) => Exchanging(c, NoConn, l)
  <2>1. Asked(c, m, l) => Asked(c, NoConn, l)
    BY <1>1, NoConnFields DEF Asked
  <2>2. Arrived(c, m, l) => Arrived(c, NoConn, l)
    BY <1>1, NoConnFields DEF Arrived
  <2>3. Executed(c, m, l) => Executed(c, NoConn, l)
    BY <1>1, NoConnFields DEF Executed
  <2>4. Responded(c, m, l) => Responded(c, NoConn, l)
    BY <1>1, NoConnFields DEF Responded
  <2>. QED
    BY <2>1, <2>2, <2>3, <2>4 DEF Exchanging
<1>5. Clean(c, NoConn, l)
  BY <1>1, <1>4, NoConnFields DEF Good, Clean, Resting
<1>. QED
  BY <1>2, <1>3, <1>5 DEF Good

LEMMA GoodAccept ==
  ASSUME NEW c \in SessionType, NEW m \in ConnType, NEW k \in BOOLEAN,
         NEW l \in Seq(Nat), Good(c, m, k, l),
         NEW d \in SessionType, NEW w \in ConnType, c.pc = "connecting",
         d = [c EXCEPT !.pc = "idle"],
         w = [NoConn EXCEPT !.open = TRUE, !.recv = TRUE]
  PROVE  Good(d, w, k, l)
<1>1. /\ d.pc = "idle" /\ d.n = c.n /\ d.answer = c.answer /\ d.late = c.late
      /\ d.recvs = c.recvs /\ d.out = c.out /\ d.acked = c.acked
      /\ d.cq = c.cq /\ d.sent = c.sent /\ d.got = c.got
  BY DEF SessionType
<1>2. /\ w.open /\ w.recv /\ w.rbuf = 0 /\ w.out = 0 /\ Len(w.cq) = 0 /\ w.up
  BY NoConnFields DEF ConnType
<1>3. \A x : ~ Has(w.cq, x) /\ Once(w.cq, x)
  BY <1>2, HasNone, ConnFields
<1>4. /\ c.n = 0 /\ c.answer = 0 /\ c.recvs = 0 /\ c.out = 0 /\ c.acked = 0
      /\ Len(c.cq) = 0 /\ Len(l) = 0 /\ ~ c.sent /\ ~ c.got
  BY DEF Good, NotYet, Before
<1>5. ConnSound(w) /\ DownForCause(d, w, k) /\ NotYet(d, w, l)
  BY <1>1, <1>2, <1>3, <1>4 DEF ConnSound, DownForCause, NotYet, Before
<1>6. Ordered(d, w, l)
  BY <1>1, <1>2, <1>3, <1>4 DEF Ordered
<1>7. Clean(d, w, l)
  BY <1>1, <1>2, <1>3, <1>4 DEF Clean, Resting
<1>. QED
  BY <1>5, <1>6, <1>7 DEF Good

(* A request is executed and its response is on the way. *)
LEMMA GoodAnswer ==
  ASSUME NEW c \in SessionType, NEW m \in ConnType, NEW k \in BOOLEAN,
         NEW l \in Seq(Nat), Good(c, m, k, l),
         NEW w \in ConnType, NEW h \in Seq(Nat),
         m.cq # <<>>, Head(m.cq) = "recv",
         w = AnswerOf(m), h = Append(l, m.rbuf)
  PROVE  Good(c, w, k, h)
<1>1. /\ w.open = m.open /\ w.recv /\ w.rbuf = m.rbuf /\ w.sbuf = m.rbuf
      /\ w.out = m.out + 1 /\ w.cq = Tail(m.cq) /\ w.up = m.up
  BY DEF ConnType, AnswerOf
<1>2. /\ m.cq \in Seq(Completion) /\ m.out \in Nat /\ m.rbuf \in Nat
      /\ c.n \in Nat
  BY SessionFields, ConnFields
<1>3. Has(m.cq, "recv") /\ ~ Has(w.cq, "recv") /\ Once(w.cq, "recv")
  <2>1. Once(m.cq, "recv")
    BY DEF Good, ConnSound
  <2>2. /\ Once(Tail(m.cq), "recv")
        /\ ~ Has(Tail(m.cq), "recv") /\ Has(m.cq, "recv")
    BY <2>1, <1>2, HasTail
  <2>. QED
    BY <2>2, <1>1
<1>4. m.open
  BY <1>2, <1>3, NoConnFields, HasNone DEF Good, ConnSound
<1>5. c.pc \notin Before
  BY <1>4 DEF Good, NotYet
<1>6. /\ Len(h) = Len(l) + 1 /\ h[Len(l) + 1] = m.rbuf
      /\ \A i \in 1 .. Len(l) : h[i] = l[i]
      /\ \A i \in 1 .. Len(h) : i \in 1 .. Len(l) \/ i = Len(l) + 1
      /\ Len(l) \in Nat /\ \A i \in 1 .. Len(l) : l[i] \in Nat
  BY <1>2
<1>7. ConnSound(w) /\ DownForCause(c, w, k) /\ NotYet(c, w, h)
  BY <1>1, <1>2, <1>3, <1>4, <1>5 DEF Good, ConnSound, DownForCause, NotYet
<1>8. Ordered(c, w, h)
  <2>1. /\ \A i, j \in 1 .. Len(l) : i < j => l[i] <= l[j]
        /\ c.pc # "left" => m.rbuf <= c.n /\ \A i \in 1 .. Len(l) : l[i] <= c.n
        /\ \A i \in 1 .. Len(l) : l[i] <= m.rbuf
    BY <1>3 DEF Good, Ordered
  <2>2. \A i, j \in 1 .. Len(h) : i < j => h[i] <= h[j]
    BY <2>1, <1>2, <1>6
  <2>3. c.pc # "left" => w.rbuf <= c.n /\ \A i \in 1 .. Len(h) : h[i] <= c.n
    BY <2>1, <1>1, <1>2, <1>6
  <2>. QED
    BY <2>2, <2>3, <1>3 DEF Ordered
<1>9. ASSUME ~ c.late PROVE Clean(c, w, h)
  <2>1. (\A i \in 1 .. Len(l) : l[i] = i) /\ m.rbuf = Len(l) + 1
    BY <1>3, <1>9 DEF Good, Clean
  <2>2. \A i \in 1 .. Len(h) : h[i] = i
    BY <2>1, <1>6
  <2>3. c.pc # "idle"
    BY <1>3, <1>9 DEF Good, Clean, Resting
  <2>4. ASSUME c.pc = "wait" PROVE SendUnderWay(c) /\ Exchanging(c, w, h)
    <3>1. SendUnderWay(c) /\ Exchanging(c, m, l)
      BY <2>4, <1>9 DEF Good, Clean
    <3>2. Arrived(c, m, l)
      BY <3>1, <1>3 DEF Exchanging, Asked, Executed, Responded
    <3>3. Executed(c, w, h)
      BY <3>2, <2>1, <1>1, <1>2, <1>3, <1>6 DEF Arrived, Executed
    <3>. QED
      BY <3>1, <3>3 DEF Exchanging
  <2>. QED
    BY <2>2, <2>3, <2>4, <1>3 DEF Clean
<1>. QED
  BY <1>7, <1>8, <1>9 DEF Good, Clean

(* The completion of a response is taken. *)
LEMMA GoodSkip ==
  ASSUME NEW c \in SessionType, NEW m \in ConnType, NEW k \in BOOLEAN,
         NEW l \in Seq(Nat), Good(c, m, k, l),
         NEW w \in ConnType, m.cq # <<>>, Head(m.cq) # "recv",
         w = [m EXCEPT !.cq = Tail(m.cq)]
  PROVE  Good(c, w, k, l)
<1>1. /\ w.open = m.open /\ w.recv = m.recv /\ w.rbuf = m.rbuf /\ w.sbuf = m.sbuf
      /\ w.out = m.out /\ w.cq = Tail(m.cq) /\ w.up = m.up
  BY DEF ConnType
<1>2. m.cq \in Seq(Completion)
  BY ConnFields
<1>3. /\ Has(w.cq, "recv") <=> Has(m.cq, "recv")
      /\ Once(m.cq, "recv") => Once(w.cq, "recv")
  BY <1>1, <1>2, HasTail
<1>4. m.open
  BY <1>2, NoConnFields, HasNone DEF Good, ConnSound
<1>5. Exchanging(c, m, l) => Exchanging(c, w, l)
  BY <1>1, <1>3 DEF Exchanging, Asked, Arrived, Executed, Responded
<1>6. Clean(c, w, l)
  BY <1>1, <1>3, <1>5 DEF Good, Clean, Resting
<1>. QED
  BY <1>1, <1>3, <1>4, <1>6 DEF Good, ConnSound, DownForCause, NotYet, Ordered

LEMMA GoodInit ==
  Good(NewSession, NoConn, FALSE, <<>>)
<1>1. \A x : ~ Has(NoConn.cq, x) /\ Once(NoConn.cq, x)
  BY NoConnFields, HasNone DEF ConnType
<1>. QED
  BY <1>1, NewFields, NoConnFields
  DEF Good, ConnSound, DownForCause, NotYet, Ordered, Clean

-----------------------------------------------------------------------------
(* Types *)

LEMMA InitType ==
  Init => TypeOK
<1>. SUFFICES ASSUME Init PROVE TypeOK
  OBVIOUS
<1>1. cn \in [Sessions -> SessionType] /\ mn \in [Sessions -> ConnType]
  BY NewFields, NoConnFields DEF Init
<1>2. \A s \in Sessions : cn[s].recvs <= RecvWr[s]
  BY NewFields, RecvWrAssumption DEF Init
<1>3. /\ events \in Seq({"connect", "disconnect"} \X Sessions)
      /\ list \in Seq(Sessions) /\ turn \in Seq(Sessions)
      /\ log \in [Sessions -> Seq(Nat)]
  BY DEF Init
<1>4. cut \in [Sessions -> BOOLEAN]
  BY DEF Init
<1>5. loop \in {"run", "stalled", "ended"} /\ stop \in BOOLEAN /\ faults \in Nat
  BY DEF Init
<1>. QED
  BY <1>1, <1>2, <1>3, <1>4, <1>5 DEF TypeOK

(* A step that changes one session, and it keeps its type *)
LEMMA SessionTyped ==
  ASSUME TypeOK, NEW s \in Sessions, NEW d \in SessionType, d.recvs <= RecvWr[s],
         cn' = [cn EXCEPT ![s] = d]
  PROVE  /\ cn' \in [Sessions -> SessionType]
         /\ \A t \in Sessions : cn'[t].recvs <= RecvWr[t]
         /\ cn'[s] = d /\ \A t \in Sessions : t # s => cn'[t] = cn[t]
<1>1. cn' \in [Sessions -> SessionType]
  BY DEF TypeOK
<1>2. cn'[s] = d /\ \A t \in Sessions : t # s => cn'[t] = cn[t]
  BY DEF TypeOK
<1>3. \A t \in Sessions : cn'[t].recvs <= RecvWr[t]
  BY <1>2 DEF TypeOK
<1>. QED
  BY <1>1, <1>2, <1>3

LEMMA ConnTyped ==
  ASSUME TypeOK, NEW s \in Sessions, NEW w \in ConnType,
         mn' = [mn EXCEPT ![s] = w]
  PROVE  /\ mn' \in [Sessions -> ConnType]
         /\ mn'[s] = w /\ \A t \in Sessions : t # s => mn'[t] = mn[t]
  BY DEF TypeOK

-----------------------------------------------------------------------------
(* Steps *)

Event == {"connect", "disconnect"} \X Sessions

(* Only session s changes. *)
LEMMA OneSession ==
  ASSUME AllGood, NEW s \in Sessions, Good(cn[s], mn[s], cut[s], log[s])',
         \A t \in Sessions \ {s} :
           /\ cn'[t] = cn[t] /\ mn'[t] = mn[t] /\ cut'[t] = cut[t] /\ log'[t] = log[t]
  PROVE  AllGood'
<1>. SUFFICES ASSUME NEW t \in Sessions, t # s
              PROVE Good(cn[t], mn[t], cut[t], log[t])'
  BY DEF AllGood
<1>1. cn'[t] = cn[t] /\ mn'[t] = mn[t] /\ cut'[t] = cut[t] /\ log'[t] = log[t]
  OBVIOUS
<1>. QED
  BY <1>1 DEF AllGood

(* No event comes or goes. *)
LEMMA SameEvents ==
  ASSUME \A s \in Sessions : ConnectsOnce(s), UNCHANGED events,
         loop = "ended" => loop' = "ended",
         \A s \in Sessions : cn[s].pc = "connecting" =>
           cn'[s].pc = "connecting" \/ loop' = "ended"
  PROVE  \A s \in Sessions : ConnectsOnce(s)'
<1>. SUFFICES ASSUME NEW s \in Sessions PROVE ConnectsOnce(s)'
  OBVIOUS
<1>1. /\ Once(events, <<"connect", s>>)
      /\ Has(events, <<"connect", s>>) => cn[s].pc = "connecting" \/ loop = "ended"
  BY DEF ConnectsOnce
<1>2. /\ Once(events', <<"connect", s>>)
      /\ Has(events', <<"connect", s>>) => cn'[s].pc = "connecting" \/ loop' = "ended"
  BY <1>1
<1>. QED
  BY <1>2 DEF ConnectsOnce

LEMMA EventComes ==
  ASSUME events \in Seq(Event), NEW y \in Event, events' = Append(events, y),
         NEW t \in Sessions
  PROVE  /\ Has(events', <<"connect", t>>) <=>
              Has(events, <<"connect", t>>) \/ y = <<"connect", t>>
         /\ /\ Once(events, <<"connect", t>>)
            /\ y = <<"connect", t>> => ~ Has(events, <<"connect", t>>)
            => Once(events', <<"connect", t>>)
<1>1. PICK q \in Seq(Event) : q = events
  OBVIOUS
<1>2. PICK x : x = <<"connect", t>>
  OBVIOUS
<1>3. /\ Has(Append(q, y), x) <=> Has(q, x) \/ x = y
      /\ Once(q, x) /\ (y = x => ~ Has(q, x)) => Once(Append(q, y), x)
  BY HasAppend
<1>. QED
  BY <1>1, <1>2, <1>3

(* An event is handled. *)
LEMMA EventGoes ==
  ASSUME events \in Seq(Event), events # <<>>, events' = Tail(events),
         NEW t \in Sessions, Once(events, <<"connect", t>>)
  PROVE  /\ events' \in Seq(Event) /\ Head(events) \in Event
         /\ Once(events', <<"connect", t>>)
         /\ Has(events', <<"connect", t>>) =>
              Has(events, <<"connect", t>>) /\ Head(events) # <<"connect", t>>
<1>1. PICK q \in Seq(Event) : q = events
  OBVIOUS
<1>2. PICK x : x = <<"connect", t>>
  OBVIOUS
<1>3. /\ Tail(q) \in Seq(Event) /\ Head(q) \in Event
      /\ Once(q, x) => Once(Tail(q), x)
      /\ Once(q, x) /\ Head(q) = x => ~ Has(Tail(q), x) /\ Has(q, x)
      /\ Head(q) # x => (Has(Tail(q), x) <=> Has(q, x))
  BY <1>1, HasTail
<1>. QED
  BY <1>1, <1>2, <1>3

LEMMA ConnectStep ==
  ASSUME Inv, NEW s \in Sessions, Connect(s)
  PROVE  Inv'
<1>. TypeOK /\ AllGood /\ \A t \in Sessions : ConnectsOnce(t)
  BY DEF Inv
<1>1. /\ cn[s].pc = "new" /\ loop # "ended"
      /\ events' = Append(events, <<"connect", s>>)
      /\ UNCHANGED <<mn, cut, list, turn, loop, stop, log, faults>>
  BY DEF Connect, hostVars
<1>2. cn[s] \in SessionType /\ mn[s] \in ConnType /\ cut[s] \in BOOLEAN /\ log[s] \in Seq(Nat)
      /\ cn[s].recvs <= RecvWr[s]
  BY DEF TypeOK
<1>3. PICK d \in SessionType : d = [cn[s] EXCEPT !.pc = "connecting"]
  BY <1>2 DEF SessionType
<1>4. cn' = [cn EXCEPT ![s] = d]
  BY <1>3 DEF Connect, TypeOK
<1>5. d.pc = "connecting" /\ d.recvs = cn[s].recvs
  BY <1>2, <1>3 DEF SessionType
<1>6. /\ cn' \in [Sessions -> SessionType] /\ \A t \in Sessions : cn'[t].recvs <= RecvWr[t]
      /\ cn'[s] = d /\ \A t \in Sessions : t # s => cn'[t] = cn[t]
  BY <1>2, <1>4, <1>5, SessionTyped
<1>7. events \in Seq(Event) /\ events' \in Seq(Event)
  BY <1>1 DEF TypeOK, Event
<1>8. TypeOK'
  BY <1>1, <1>6, <1>7 DEF TypeOK, Event
<1>9. AllGood'
  <2>1. Good(cn[s], mn[s], cut[s], log[s])
    BY DEF AllGood
  <2>2. Good(d, mn[s], cut[s], log[s])
    BY <2>1, <1>1, <1>2, <1>3, GoodConnect DEF Before
  <2>. QED
    BY <2>2, <1>1, <1>6, OneSession
<1>10. ASSUME NEW t \in Sessions PROVE ConnectsOnce(t)'
  <2>1. <<"connect", s>> \in Event
    BY DEF Event
  <2>2. t # s => <<"connect", s>> # <<"connect", t>>
    OBVIOUS
  <2>3. /\ Has(events', <<"connect", t>>) <=> Has(events, <<"connect", t>>) \/ t = s
        /\ Once(events, <<"connect", t>>) /\ (t = s => ~ Has(events, <<"connect", t>>))
             => Once(events', <<"connect", t>>)
    BY <1>1, <1>7, <2>1, <2>2, EventComes
  <2>4. ~ Has(events, <<"connect", s>>)
    BY <1>1 DEF ConnectsOnce
  <2>. QED
    BY <2>3, <2>4, <1>1, <1>5, <1>6 DEF ConnectsOnce
<1>. QED
  BY <1>8, <1>9, <1>10 DEF Inv

(* A step of session s alone *)
LEMMA SessionStep ==
  ASSUME Inv, NEW s \in Sessions, NEW d \in SessionType, d.recvs <= RecvWr[s],
         cn' = [cn EXCEPT ![s] = d],
         UNCHANGED <<mn, cut, events, list, turn, loop, stop, log>>, faults' \in Nat,
         Good(cn[s], mn[s], cut[s], log[s]) => Good(d, mn[s], cut[s], log[s]),
         cn[s].pc = "connecting" => d.pc = "connecting" \/ loop = "ended"
  PROVE  Inv'
<1>. TypeOK /\ AllGood /\ \A t \in Sessions : ConnectsOnce(t)
  BY DEF Inv
<1>1. /\ cn' \in [Sessions -> SessionType] /\ \A t \in Sessions : cn'[t].recvs <= RecvWr[t]
      /\ cn'[s] = d /\ \A t \in Sessions : t # s => cn'[t] = cn[t]
  BY SessionTyped
<1>2. TypeOK'
  BY <1>1 DEF TypeOK
<1>3. AllGood'
  <2>1. Good(d, mn[s], cut[s], log[s])
    BY DEF AllGood
  <2>. QED
    BY <2>1, <1>1, OneSession
<1>4. \A t \in Sessions : ConnectsOnce(t)'
  BY <1>1, SameEvents
<1>. QED
  BY <1>2, <1>3, <1>4 DEF Inv

(* What a step of session s may rely on *)
LEMMA Here ==
  ASSUME Inv, NEW s \in Sessions
  PROVE  /\ cn[s] \in SessionType /\ mn[s] \in ConnType /\ cut[s] \in BOOLEAN
         /\ log[s] \in Seq(Nat) /\ cn[s].recvs <= RecvWr[s]
         /\ cn[s].recvs \in Nat /\ RecvWr[s] \in Nat /\ faults \in Nat
         /\ Good(cn[s], mn[s], cut[s], log[s])
  BY RecvWrAssumption DEF Inv, TypeOK, AllGood, SessionType

LEMMA ConnectFailsStep ==
  ASSUME Inv, NEW s \in Sessions, ConnectFails(s)
  PROVE  Inv'
<1>1. PICK d \in SessionType : d = [cn[s] EXCEPT !.pc = "refused"]
  BY Here DEF SessionType
<1>2. cn' = [cn EXCEPT ![s] = d]
  BY <1>1 DEF ConnectFails, Inv, TypeOK
<1>3. d.recvs = cn[s].recvs
  BY <1>1, Here DEF SessionType
<1>4. Good(cn[s], mn[s], cut[s], log[s]) => Good(d, mn[s], cut[s], log[s])
  BY <1>1, Here, GoodConnect DEF ConnectFails, Before
<1>. QED
  BY <1>2, <1>3, <1>4, Here, SessionStep DEF ConnectFails, hostVars

LEMMA PostStep ==
  ASSUME Inv, NEW s \in Sessions, Post(s)
  PROVE  Inv'
<1>1. PICK c \in SessionType, m \in ConnType, k \in BOOLEAN, l \in Seq(Nat) :
        c = cn[s] /\ m = mn[s] /\ k = cut[s] /\ l = log[s]
  BY Here
<1>2. c.n \in Nat /\ c.recvs \in Nat /\ c.out \in Nat /\ RecvWr[s] \in Nat
  BY SessionFields, Here
<1>3. c.n + 1 \in Nat /\ c.recvs + 1 \in Nat /\ c.out + 1 \in Nat
  BY SessionFields
<1>4. c.pc = "idle"
  BY <1>1 DEF Post
<1>5. PICK d \in SessionType :
        /\ Posts(c, d)
        /\ d.recvs <= RecvWr[s]
        /\ cn' = [cn EXCEPT ![s] = d]
  <2>1. CASE c.recvs < RecvWr[s]
    <3>1. PICK d \in SessionType :
            d = [c EXCEPT !.n = c.n + 1, !.pc = "wait", !.recvs = c.recvs + 1,
                   !.out = c.out + 1]
      BY <1>3 DEF SessionType
    <3>2. d.recvs = c.recvs + 1
      BY <3>1 DEF SessionType
    <3>3. d.recvs <= RecvWr[s]
      BY <3>2, <2>1, <1>2
    <3>4. ~ (c.recvs >= RecvWr[s])
      BY <2>1, <1>2
    <3>5. cn' = [cn EXCEPT ![s].n = @ + 1, ![s].pc = "wait", ![s].recvs = @ + 1,
                   ![s].out = @ + 1]
      BY <3>4, <1>1 DEF Post
    <3>6. cn' = [cn EXCEPT ![s] = d]
      BY <3>1, <3>5, <1>1 DEF Inv, TypeOK
    <3>. QED
      BY <3>1, <3>3, <3>6 DEF Posts
  <2>2. CASE ~ (c.recvs < RecvWr[s])
    <3>1. PICK d \in SessionType : d = [c EXCEPT !.n = c.n + 1, !.late = TRUE]
      BY <1>3 DEF SessionType
    <3>2. d.recvs <= RecvWr[s]
      BY <3>1, <1>1, Here DEF SessionType
    <3>3. cn' = [cn EXCEPT ![s].n = @ + 1, ![s].late = TRUE]
      BY <2>2, <1>1 DEF Post
    <3>4. cn' = [cn EXCEPT ![s] = d]
      BY <3>1, <3>3, <1>1 DEF Inv, TypeOK
    <3>. QED
      BY <3>1, <3>2, <3>4 DEF Posts
  <2>. QED
    BY <2>1, <2>2
<1>6. Good(c, m, k, l) => Good(d, m, k, l)
  BY <1>4, <1>5, GoodPost
<1>. QED
  BY <1>1, <1>4, <1>5, <1>6, Here, SessionStep DEF Post, hostVars

LEMMA PollStep ==
  ASSUME Inv, NEW s \in Sessions, Poll(s)
  PROVE  Inv'
<1>1. PICK c \in SessionType, m \in ConnType, k \in BOOLEAN, l \in Seq(Nat) :
        c = cn[s] /\ m = mn[s] /\ k = cut[s] /\ l = log[s]
  BY Here
<1>2. c.cq \in Seq(Completion) /\ c.sent \in BOOLEAN /\ c.got \in BOOLEAN /\ c.cq # <<>>
      /\ c.pc = "wait"
  BY <1>1, SessionFields DEF Poll
<1>3. Tail(c.cq) \in Seq(Completion)
  BY <1>2
<1>4. PICK d \in SessionType : Polls(c, d)
  BY <1>2, <1>3 DEF SessionType, Polls
<1>5. cn' = [cn EXCEPT ![s] = d]
  BY <1>1, <1>4 DEF Poll, Inv, TypeOK, Polls
<1>6. d.recvs = c.recvs
  BY <1>4 DEF SessionType, Polls
<1>7. Good(c, m, k, l) => Good(d, m, k, l)
  BY <1>2, <1>4, GoodPoll
<1>. QED
  BY <1>1, <1>2, <1>5, <1>6, <1>7, Here, SessionStep DEF Poll, hostVars

LEMMA PollFailedStep ==
  ASSUME Inv, NEW s \in Sessions, PollFailed(s)
  PROVE  Inv'
<1>1. PICK c \in SessionType, m \in ConnType, k \in BOOLEAN, l \in Seq(Nat) :
        c = cn[s] /\ m = mn[s] /\ k = cut[s] /\ l = log[s]
  BY Here
<1>2. PICK d \in SessionType :
        d = [Over(c) EXCEPT !.late = TRUE, !.recvs = 0, !.out = 0, !.acked = 0]
  BY DEF SessionType, Over
<1>3. cn' = [cn EXCEPT ![s] = d]
  BY <1>1, <1>2 DEF PollFailed
<1>4. /\ d.recvs = 0 /\ d.pc = "idle" /\ d.late /\ ~ d.sent /\ ~ d.got /\ d.n = c.n
  BY <1>2 DEF SessionType, Over
<1>5. c.pc = "wait"
  BY <1>1 DEF PollFailed
<1>6. Good(c, m, k, l) => Good(d, m, k, l)
  BY <1>4, <1>5, GoodGivenUp
<1>7. d.recvs <= RecvWr[s]
  BY <1>4, Here
<1>. QED
  BY <1>1, <1>3, <1>5, <1>6, <1>7, Here, SessionStep DEF PollFailed, hostVars

LEMMA ExpireStep ==
  ASSUME Inv, NEW s \in Sessions, Expire(s)
  PROVE  Inv'
<1>1. PICK c \in SessionType, m \in ConnType, k \in BOOLEAN, l \in Seq(Nat) :
        c = cn[s] /\ m = mn[s] /\ k = cut[s] /\ l = log[s]
  BY Here
<1>2. PICK d \in SessionType : d = [Over(c) EXCEPT !.late = TRUE]
  BY DEF SessionType, Over
<1>3. cn' = [cn EXCEPT ![s] = d]
  BY <1>1, <1>2 DEF Expire
<1>4. d.recvs = c.recvs /\ d.pc = "idle" /\ d.late /\ ~ d.sent /\ ~ d.got /\ d.n = c.n
  BY <1>2 DEF SessionType, Over
<1>5. c.pc = "wait" /\ faults' \in Nat
  BY <1>1, Here DEF Expire, Faulty
<1>6. Good(c, m, k, l) => Good(d, m, k, l)
  BY <1>4, <1>5, GoodGivenUp
<1>7. d.recvs <= RecvWr[s]
  BY <1>1, <1>4, Here
<1>. QED
  BY <1>1, <1>3, <1>5, <1>6, <1>7, SessionStep DEF Expire, hostVars

LEMMA ReturnStep ==
  ASSUME Inv, NEW s \in Sessions, Return(s)
  PROVE  Inv'
<1>1. PICK c \in SessionType, m \in ConnType, k \in BOOLEAN, l \in Seq(Nat) :
        c = cn[s] /\ m = mn[s] /\ k = cut[s] /\ l = log[s]
  BY Here
<1>2. c.buf \in Nat
  BY SessionFields
<1>3. PICK d \in SessionType : d = [Over(c) EXCEPT !.answer = c.buf]
  BY <1>2 DEF SessionType, Over
<1>4. cn' = [cn EXCEPT ![s] = d]
  BY <1>1, <1>3 DEF Return
<1>5. d.recvs = c.recvs
  BY <1>3 DEF SessionType, Over
<1>6. c.pc = "wait" /\ c.sent /\ c.got
  BY <1>1 DEF Return, Complete
<1>7. Good(c, m, k, l) => Good(d, m, k, l)
  BY <1>3, <1>6, GoodReturn
<1>8. d.recvs <= RecvWr[s]
  BY <1>1, <1>5, Here
<1>. QED
  BY <1>1, <1>4, <1>6, <1>7, <1>8, Here, SessionStep DEF Return, hostVars

LEMMA AcknowledgeStep ==
  ASSUME Inv, NEW s \in Sessions, Acknowledge(s)
  PROVE  Inv'
<1>1. PICK c \in SessionType, m \in ConnType, k \in BOOLEAN, l \in Seq(Nat) :
        c = cn[s] /\ m = mn[s] /\ k = cut[s] /\ l = log[s]
  BY Here
<1>2. c.acked \in Nat /\ c.acked > 0 /\ c.cq \in Seq(Completion)
  BY <1>1, SessionFields DEF Acknowledge
<1>3. c.acked - 1 \in Nat /\ Append(c.cq, "send") \in Seq(Completion)
  BY <1>2 DEF Completion
<1>4. PICK d \in SessionType : Acknowledged(c, d)
  BY <1>3 DEF SessionType, Acknowledged
<1>5. cn' = [cn EXCEPT ![s].acked = @ - 1, ![s].cq = Append(@, "send")]
  BY DEF Acknowledge
<1>6. cn' = [cn EXCEPT ![s] = d]
  BY <1>1, <1>4, <1>5 DEF Inv, TypeOK, Acknowledged
<1>7. d.recvs = c.recvs /\ d.pc = c.pc
  BY <1>4 DEF SessionType, Acknowledged
<1>8. Good(c, m, k, l) => Good(d, m, k, l)
  BY <1>2, <1>4, GoodAcknowledge
<1>9. d.recvs <= RecvWr[s]
  BY <1>1, <1>7, Here
<1>. QED
  BY <1>1, <1>6, <1>7, <1>8, <1>9, Here, SessionStep DEF Acknowledge, hostVars

LEMMA SessionFailsStep ==
  ASSUME Inv, NEW s \in Sessions, SessionFails(s)
  PROVE  Inv'
<1>1. PICK c \in SessionType, m \in ConnType, k \in BOOLEAN, l \in Seq(Nat) :
        c = cn[s] /\ m = mn[s] /\ k = cut[s] /\ l = log[s]
  BY Here
<1>2. PICK d \in SessionType : d = [c EXCEPT !.up = FALSE]
  BY DEF SessionType
<1>3. cn' = [cn EXCEPT ![s] = d]
  BY <1>1, <1>2 DEF SessionFails, Inv, TypeOK
<1>4. d.recvs = c.recvs /\ d.pc = c.pc
  BY <1>2 DEF SessionType
<1>5. Good(c, m, k, l) => Good(d, m, k, l)
  BY <1>2, GoodSessionFails
<1>6. d.recvs <= RecvWr[s]
  BY <1>1, <1>4, Here
<1>. QED
  BY <1>1, <1>3, <1>4, <1>5, <1>6, Here, SessionStep, ZenonT(30) DEF SessionFails, hostVars

LEMMA LeaveStep ==
  ASSUME Inv, NEW s \in Sessions, Leave(s)
  PROVE  Inv'
<1>. TypeOK /\ AllGood /\ \A t \in Sessions : ConnectsOnce(t)
  BY DEF Inv
<1>1. PICK c \in SessionType, m \in ConnType, k \in BOOLEAN, l \in Seq(Nat) :
        c = cn[s] /\ m = mn[s] /\ k = cut[s] /\ l = log[s]
  BY Here
<1>2. c.late \in BOOLEAN
  BY SessionFields
<1>3. PICK d \in SessionType : d = [NewSession EXCEPT !.pc = "left", !.late = c.late]
  BY <1>2, NewFields DEF SessionType
<1>4. cn' = [cn EXCEPT ![s] = d]
  BY <1>1, <1>3 DEF Leave
<1>5. /\ d.recvs = 0 /\ c.pc \in {"idle", "wait"}
      /\ d.pc = "left" /\ d.late = c.late /\ ~ d.sent /\ ~ d.got
  BY <1>1, <1>3 DEF Leave, NewSession
<1>6. Good(d, m, k, l)
  <2>1. Good(c, m, k, l)
    BY <1>1 DEF AllGood
  <2>. QED
    BY <2>1, <1>5, GoodLeave
<1>7. UNCHANGED <<mn, cut, list, turn, loop, stop, log, faults>>
  BY DEF Leave, hostVars
<1>8. events' = events \/ events' = Append(events, <<"disconnect", s>>)
  BY DEF Leave
<1>9. d.recvs <= RecvWr[s]
  BY <1>5, Here
<1>10. /\ cn' \in [Sessions -> SessionType] /\ \A t \in Sessions : cn'[t].recvs <= RecvWr[t]
       /\ cn'[s] = d /\ \A t \in Sessions : t # s => cn'[t] = cn[t]
  BY <1>4, <1>9, SessionTyped
<1>11. events \in Seq(Event) /\ events' \in Seq(Event) /\ <<"disconnect", s>> \in Event
  <2>1. events \in Seq(Event) /\ <<"disconnect", s>> \in Event
    BY DEF TypeOK, Event
  <2>2. PICK y \in Event, q \in Seq(Event) : y = <<"disconnect", s>> /\ q = events
    BY <2>1
  <2>3. Append(q, y) \in Seq(Event)
    OBVIOUS
  <2>. QED
    BY <2>1, <2>2, <2>3, <1>8
<1>12. TypeOK'
  BY <1>7, <1>10, <1>11 DEF TypeOK, Event
<1>13. AllGood'
  BY <1>1, <1>6, <1>7, <1>10, OneSession
<1>14. \A t \in Sessions : cn[t].pc = "connecting" => cn'[t].pc = "connecting"
  BY <1>1, <1>5, <1>10
<1>15. CASE events' = events
  <2>1. \A t \in Sessions : ConnectsOnce(t)'
    BY <1>7, <1>14, <1>15, SameEvents
  <2>. QED
    BY <2>1, <1>12, <1>13 DEF Inv
<1>16. CASE events' = Append(events, <<"disconnect", s>>)
  <2>1. ASSUME NEW t \in Sessions PROVE ConnectsOnce(t)'
    <3>1. PICK y \in Event : y = <<"disconnect", s>>
      BY <1>11
    <3>2. y # <<"connect", t>>
      BY <3>1
    <3>3. /\ Has(events', <<"connect", t>>) <=> Has(events, <<"connect", t>>)
          /\ Once(events, <<"connect", t>>) => Once(events', <<"connect", t>>)
      BY <3>1, <3>2, <1>11, <1>16, EventComes
    <3>. QED
      BY <3>3, <1>7, <1>14 DEF ConnectsOnce
  <2>. QED
    BY <2>1, <1>12, <1>13 DEF Inv
<1>. QED
  BY <1>8, <1>15, <1>16

(* A step of the connection of session s, perhaps with its session *)
LEMMA PairStep ==
  ASSUME Inv, NEW s \in Sessions,
         NEW d \in SessionType, NEW w \in ConnType, NEW h \in Seq(Nat),
         d.recvs <= RecvWr[s], d.pc = cn[s].pc,
         cn' = [cn EXCEPT ![s] = d], mn' = [mn EXCEPT ![s] = w],
         log' = [log EXCEPT ![s] = h],
         UNCHANGED <<cut, events, list, turn, loop, stop, faults>>,
         Good(d, w, cut[s], h)
  PROVE  Inv'
<1>. TypeOK /\ AllGood /\ \A t \in Sessions : ConnectsOnce(t)
  BY DEF Inv
<1>1. /\ cn' \in [Sessions -> SessionType] /\ \A t \in Sessions : cn'[t].recvs <= RecvWr[t]
      /\ cn'[s] = d /\ \A t \in Sessions : t # s => cn'[t] = cn[t]
  BY SessionTyped
<1>2. mn' \in [Sessions -> ConnType] /\ mn'[s] = w /\ \A t \in Sessions : t # s => mn'[t] = mn[t]
  BY ConnTyped
<1>3. log' \in [Sessions -> Seq(Nat)] /\ log'[s] = h /\ \A t \in Sessions : t # s => log'[t] = log[t]
  BY DEF TypeOK
<1>4. TypeOK'
  BY <1>1, <1>2, <1>3 DEF TypeOK
<1>5. AllGood'
  BY <1>1, <1>2, <1>3, OneSession
<1>6. \A t \in Sessions : ConnectsOnce(t)'
  BY <1>1, SameEvents
<1>. QED
  BY <1>4, <1>5, <1>6 DEF Inv

LEMMA DeliverRequestStep ==
  ASSUME Inv, NEW s \in Sessions, DeliverRequest(s)
  PROVE  Inv'
<1>1. PICK c \in SessionType, m \in ConnType, k \in BOOLEAN, l \in Seq(Nat) :
        /\ c = cn[s] /\ m = mn[s] /\ k = cut[s] /\ l = log[s]
        /\ c.recvs <= RecvWr[s] /\ Good(c, m, k, l)
  BY Here
<1>2. /\ m.open /\ c.pc # "left" /\ m.up /\ c.out > 0 /\ m.recv
  BY <1>1 DEF DeliverRequest, Linked
<1>3. c.out - 1 \in Nat /\ c.acked + 1 \in Nat /\ c.n \in Nat
      /\ Append(m.cq, "recv") \in Seq(Completion)
  BY <1>2, SessionFields, ConnFields DEF Completion
<1>4. PICK d \in SessionType, w \in ConnType : Requested(c, m, d, w)
  <2>1. PICK d \in SessionType : d = [c EXCEPT !.out = c.out - 1, !.acked = c.acked + 1]
    BY <1>3 DEF SessionType
  <2>2. PICK w \in ConnType :
          w = [m EXCEPT !.recv = FALSE, !.rbuf = c.n, !.cq = Append(m.cq, "recv")]
    BY <1>3 DEF ConnType
  <2>. QED
    BY <2>1, <2>2 DEF Requested
<1>5. /\ cn' = [cn EXCEPT ![s].out = @ - 1, ![s].acked = @ + 1]
      /\ mn' = [mn EXCEPT ![s].recv = FALSE, ![s].rbuf = cn[s].n,
                  ![s].cq = Append(@, "recv")]
  BY DEF DeliverRequest
<1>6. cn' = [cn EXCEPT ![s] = d]
  BY <1>1, <1>4, <1>5 DEF Inv, TypeOK, Requested
<1>7. mn' = [mn EXCEPT ![s] = w]
  BY <1>1, <1>4, <1>5 DEF Inv, TypeOK, Requested
<1>8. d.recvs = c.recvs /\ d.pc = c.pc
  BY <1>4 DEF SessionType, Requested
<1>9. Good(d, w, k, l)
  BY <1>1, <1>2, <1>4, GoodDeliverRequest
<1>10. log' = [log EXCEPT ![s] = l]
  BY <1>1 DEF DeliverRequest, Inv, TypeOK
<1>11. UNCHANGED <<cut, events, list, turn, loop, stop, faults>>
  BY DEF DeliverRequest, hostVars
<1>. QED
  BY <1>1, <1>6, <1>7, <1>8, <1>9, <1>10, <1>11, PairStep

LEMMA DeliverResponseStep ==
  ASSUME Inv, NEW s \in Sessions, DeliverResponse(s)
  PROVE  Inv'
<1>1. PICK c \in SessionType, m \in ConnType, k \in BOOLEAN, l \in Seq(Nat) :
        /\ c = cn[s] /\ m = mn[s] /\ k = cut[s] /\ l = log[s]
        /\ c.recvs <= RecvWr[s] /\ Good(c, m, k, l)
  BY Here
<1>2. m.open /\ c.pc # "left" /\ m.up /\ m.out > 0 /\ c.recvs > 0
  BY <1>1 DEF DeliverResponse, Linked
<1>3. c.recvs - 1 \in Nat /\ m.out - 1 \in Nat /\ m.sbuf \in Nat
      /\ Append(c.cq, "recv") \in Seq(Completion) /\ Append(m.cq, "send") \in Seq(Completion)
  BY <1>2, SessionFields, ConnFields DEF Completion
<1>4. PICK d \in SessionType, w \in ConnType : Delivered(c, m, d, w)
  <2>1. PICK d \in SessionType :
          d = [c EXCEPT !.recvs = c.recvs - 1, !.buf = m.sbuf, !.cq = Append(c.cq, "recv")]
    BY <1>3 DEF SessionType
  <2>2. PICK w \in ConnType : w = [m EXCEPT !.out = m.out - 1, !.cq = Append(m.cq, "send")]
    BY <1>3 DEF ConnType
  <2>. QED
    BY <2>1, <2>2 DEF Delivered
<1>5. /\ cn' = [cn EXCEPT ![s].recvs = @ - 1, ![s].buf = mn[s].sbuf,
                  ![s].cq = Append(@, "recv")]
      /\ mn' = [mn EXCEPT ![s].out = @ - 1, ![s].cq = Append(@, "send")]
  BY DEF DeliverResponse
<1>6. cn' = [cn EXCEPT ![s] = d]
  BY <1>1, <1>4, <1>5 DEF Inv, TypeOK, Delivered
<1>7. mn' = [mn EXCEPT ![s] = w]
  BY <1>1, <1>4, <1>5 DEF Inv, TypeOK, Delivered
<1>8. d.recvs = c.recvs - 1 /\ d.pc = c.pc
  BY <1>4 DEF SessionType, Delivered
<1>9. Good(d, w, k, l)
  BY <1>1, <1>2, <1>4, GoodDeliverResponse
<1>10. log' = [log EXCEPT ![s] = l]
  BY <1>1 DEF DeliverResponse, Inv, TypeOK
<1>11. UNCHANGED <<cut, events, list, turn, loop, stop, faults>>
  BY DEF DeliverResponse, hostVars
<1>12. c.recvs \in Nat /\ RecvWr[s] \in Nat
  BY <1>1, Here
<1>13. d.recvs <= RecvWr[s]
  BY <1>1, <1>8, <1>12
<1>. QED
  BY <1>1, <1>6, <1>7, <1>8, <1>9, <1>10, <1>11, <1>13, PairStep

LEMMA BreakStep ==
  ASSUME Inv, NEW s \in Sessions, Break(s)
  PROVE  Inv'
<1>. TypeOK /\ AllGood /\ \A t \in Sessions : ConnectsOnce(t)
  BY DEF Inv
<1>1. /\ cut' \in [Sessions -> BOOLEAN] /\ cut'[s] = TRUE
      /\ \A t \in Sessions : t # s => cut'[t] = cut[t]
  BY DEF Break, TypeOK
<1>2. UNCHANGED <<cn, mn, events, list, turn, loop, stop, log>> /\ faults' \in Nat
  BY Here DEF Break, Faulty, hostVars
<1>3. Good(cn[s], mn[s], TRUE, log[s])
  BY Here, GoodBreak
<1>4. TypeOK'
  BY <1>1, <1>2 DEF TypeOK
<1>5. AllGood'
  BY <1>1, <1>2, <1>3, OneSession
<1>6. \A t \in Sessions : ConnectsOnce(t)'
  BY <1>2, SameEvents
<1>. QED
  BY <1>4, <1>5, <1>6 DEF Inv

LEMMA ConnFailsStep ==
  ASSUME Inv, NEW s \in Sessions, ConnFails(s)
  PROVE  Inv'
<1>1. PICK c \in SessionType, m \in ConnType, k \in BOOLEAN, l \in Seq(Nat) :
        /\ c = cn[s] /\ m = mn[s] /\ k = cut[s] /\ l = log[s]
        /\ c.recvs <= RecvWr[s] /\ Good(c, m, k, l)
  BY Here
<1>2. m.open /\ (c.pc = "left" \/ k) /\ m.out > 0
  BY <1>1 DEF ConnFails, Linked
<1>3. PICK w \in ConnType : w = [m EXCEPT !.up = FALSE]
  BY DEF ConnType
<1>4. mn' = [mn EXCEPT ![s] = w]
  BY <1>1, <1>3 DEF ConnFails, Inv, TypeOK
<1>5. Good(c, w, k, l)
  BY <1>1, <1>2, <1>3, GoodConnFails
<1>6. cn' = [cn EXCEPT ![s] = c] /\ log' = [log EXCEPT ![s] = l]
  BY <1>1 DEF ConnFails, Inv, TypeOK
<1>7. UNCHANGED <<cut, events, list, turn, loop, stop, faults>>
  BY DEF ConnFails, hostVars
<1>. QED
  BY <1>1, <1>4, <1>5, <1>6, <1>7, PairStep

(* Handling an event: what is left of the events stays sound if s, which   *)
(* the event was about, waits for no connection any more.                  *)
LEMMA EventHandled ==
  ASSUME Inv, events # <<>>, events' = Tail(events), loop' = loop,
         NEW s \in Sessions, Head(events)[2] = s,
         cn'[s].pc # cn[s].pc => Head(events) = <<"connect", s>>,
         \A t \in Sessions : t # s => cn'[t] = cn[t]
  PROVE  /\ events' \in Seq(Event)
         /\ \A t \in Sessions : ConnectsOnce(t)'
<1>. events \in Seq(Event) /\ \A t \in Sessions : ConnectsOnce(t)
  BY DEF Inv, TypeOK, Event
<1>1. ASSUME NEW t \in Sessions PROVE events' \in Seq(Event) /\ ConnectsOnce(t)'
  <2>1. /\ Once(events, <<"connect", t>>)
        /\ Has(events, <<"connect", t>>) => cn[t].pc = "connecting" \/ loop = "ended"
    BY DEF ConnectsOnce
  <2>2. /\ events' \in Seq(Event)
        /\ Once(events', <<"connect", t>>)
        /\ Has(events', <<"connect", t>>) =>
             Has(events, <<"connect", t>>) /\ Head(events) # <<"connect", t>>
    BY <2>1, EventGoes
  <2>3. Has(events', <<"connect", t>>) => cn'[t].pc = cn[t].pc
    BY <2>2
  <2>4. Has(events', <<"connect", t>>) => cn'[t].pc = "connecting" \/ loop' = "ended"
    BY <2>1, <2>2, <2>3
  <2>. QED
    BY <2>2, <2>4 DEF ConnectsOnce
<1>. QED
  BY <1>1

(* While it is handled, the session of the event is waiting for it. *)
LEMMA Awaited ==
  ASSUME Inv, NEW s \in Sessions, loop = "run",
         events # <<>>, Head(events) = <<"connect", s>>
  PROVE  cn[s].pc = "connecting"
<1>1. Has(events, <<"connect", s>>)
  <2>1. PICK q \in Seq(Event) : q = events
    BY DEF Inv, TypeOK, Event
  <2>2. 1 \in 1 .. Len(q) /\ q[1] = <<"connect", s>>
    BY <2>1
  <2>. QED
    BY <2>1, <2>2 DEF Has
<1>. QED
  BY <1>1 DEF Inv, ConnectsOnce

LEMMA AcceptStep ==
  ASSUME Inv, NEW s \in Sessions, Accept(s), loop = "run",
         events # <<>>, events' = Tail(events), Head(events) = <<"connect", s>>,
         UNCHANGED <<cut, stop, log>>
  PROVE  Inv'
<1>. TypeOK /\ AllGood /\ \A t \in Sessions : ConnectsOnce(t)
  BY DEF Inv
<1>1. PICK c \in SessionType, m \in ConnType, k \in BOOLEAN, l \in Seq(Nat) :
        /\ c = cn[s] /\ m = mn[s] /\ k = cut[s] /\ l = log[s]
        /\ c.recvs <= RecvWr[s] /\ Good(c, m, k, l)
  BY Here
<1>2. c.pc = "connecting"
  BY <1>1, Awaited
<1>3. PICK d \in SessionType : d = [c EXCEPT !.pc = "idle"]
  BY DEF SessionType
<1>4. PICK w \in ConnType : w = [NoConn EXCEPT !.open = TRUE, !.recv = TRUE]
  BY NoConnFields DEF ConnType
<1>5. cn' = [cn EXCEPT ![s] = d] /\ mn' = [mn EXCEPT ![s] = w]
  BY <1>1, <1>3, <1>4 DEF Accept, TypeOK
<1>6. d.recvs = c.recvs
  BY <1>3 DEF SessionType
<1>7. Good(d, w, k, l)
  BY <1>1, <1>2, <1>3, <1>4, GoodAccept
<1>8. /\ cn' \in [Sessions -> SessionType] /\ \A t \in Sessions : cn'[t].recvs <= RecvWr[t]
      /\ cn'[s] = d /\ \A t \in Sessions : t # s => cn'[t] = cn[t]
  BY <1>1, <1>5, <1>6, SessionTyped
<1>9. mn' \in [Sessions -> ConnType] /\ mn'[s] = w /\ \A t \in Sessions : t # s => mn'[t] = mn[t]
  BY <1>5, ConnTyped
<1>10. list' \in Seq(Sessions) /\ turn' \in Seq(Sessions)
  BY DEF Accept, TypeOK
<1>11. loop' = loop /\ faults' = faults
  BY DEF Accept
<1>12. Head(events)[2] = s
  OBVIOUS
<1>13. events' \in Seq(Event) /\ \A t \in Sessions : ConnectsOnce(t)'
  BY <1>8, <1>11, <1>12, EventHandled
<1>14. TypeOK'
  BY <1>8, <1>9, <1>10, <1>11, <1>13 DEF TypeOK, Event
<1>15. AllGood'
  BY <1>1, <1>7, <1>8, <1>9, OneSession
<1>. QED
  BY <1>13, <1>14, <1>15 DEF Inv

LEMMA RejectStep ==
  ASSUME Inv, NEW s \in Sessions, Reject(s), loop = "run",
         events # <<>>, events' = Tail(events), Head(events) = <<"connect", s>>,
         UNCHANGED <<cut, stop, log>>
  PROVE  Inv'
<1>. TypeOK /\ AllGood /\ \A t \in Sessions : ConnectsOnce(t)
  BY DEF Inv
<1>1. PICK c \in SessionType, m \in ConnType, k \in BOOLEAN, l \in Seq(Nat) :
        /\ c = cn[s] /\ m = mn[s] /\ k = cut[s] /\ l = log[s]
        /\ c.recvs <= RecvWr[s] /\ Good(c, m, k, l)
  BY Here
<1>2. c.pc = "connecting"
  BY <1>1, Awaited
<1>3. PICK d \in SessionType : d = [c EXCEPT !.pc = "refused"]
  BY DEF SessionType
<1>4. cn' = [cn EXCEPT ![s] = d]
  BY <1>1, <1>3 DEF Reject, TypeOK
<1>5. d.recvs = c.recvs
  BY <1>3 DEF SessionType
<1>6. Good(d, m, k, l)
  BY <1>1, <1>2, <1>3, GoodConnect DEF Before
<1>7. /\ cn' \in [Sessions -> SessionType] /\ \A t \in Sessions : cn'[t].recvs <= RecvWr[t]
      /\ cn'[s] = d /\ \A t \in Sessions : t # s => cn'[t] = cn[t]
  BY <1>1, <1>4, <1>5, SessionTyped
<1>8. /\ UNCHANGED <<mn, list, loop>> /\ turn' \in Seq(Sessions) /\ faults' \in Nat
  BY DEF Reject, Faulty, TypeOK
<1>9. Head(events)[2] = s
  OBVIOUS
<1>10. events' \in Seq(Event) /\ \A t \in Sessions : ConnectsOnce(t)'
  BY <1>7, <1>8, <1>9, EventHandled
<1>11. TypeOK'
  BY <1>7, <1>8, <1>10 DEF TypeOK, Event
<1>12. AllGood'
  BY <1>1, <1>6, <1>7, <1>8, OneSession
<1>. QED
  BY <1>10, <1>11, <1>12 DEF Inv

LEMMA DisposeStep ==
  ASSUME Inv, NEW s \in Sessions, Dispose(s), loop = "run",
         events # <<>>, events' = Tail(events), Head(events)[2] = s,
         UNCHANGED <<cut, stop, log>>
  PROVE  Inv'
<1>. TypeOK /\ AllGood /\ \A t \in Sessions : ConnectsOnce(t)
  BY DEF Inv
<1>1. mn' = [mn EXCEPT ![s] = NoConn]
  BY DEF Dispose
<1>2. mn' \in [Sessions -> ConnType] /\ mn'[s] = NoConn
      /\ \A t \in Sessions : t # s => mn'[t] = mn[t]
  BY <1>1, NoConnFields, ConnTyped
<1>3. list' \in Seq(Sessions) /\ turn' \in Seq(Sessions)
  <2>1. PICK i \in 1 .. Len(list) :
          list' = SubSeq(list, 1, i - 1) \o SubSeq(list, i + 1, Len(list))
    BY DEF Dispose
  <2>2. list \in Seq(Sessions)
    BY DEF TypeOK
  <2>3. SubSeq(list, 1, i - 1) \in Seq(Sessions) /\ SubSeq(list, i + 1, Len(list)) \in Seq(Sessions)
    BY <2>2
  <2>4. list' \in Seq(Sessions)
    BY <2>1, <2>3
  <2>. QED
    BY <2>4 DEF Dispose
<1>4. UNCHANGED <<cn, loop, faults>>
  BY DEF Dispose
<1>5. Good(cn[s], NoConn, cut[s], log[s])
  BY Here, GoodDispose
<1>6. events' \in Seq(Event) /\ \A t \in Sessions : ConnectsOnce(t)'
  BY <1>4, EventHandled
<1>7. TypeOK'
  BY <1>2, <1>3, <1>4, <1>6 DEF TypeOK, Event
<1>8. AllGood'
  BY <1>2, <1>4, <1>5, OneSession
<1>. QED
  BY <1>6, <1>7, <1>8 DEF Inv

LEMMA HandleEventStep ==
  ASSUME Inv, HandleEvent
  PROVE  Inv'
<1>1. PICK q \in Seq(Event) : q = events
  BY DEF Inv, TypeOK, Event
<1>2. /\ loop = "run" /\ events # <<>> /\ events' = Tail(events)
      /\ UNCHANGED <<cut, stop, log>>
  BY DEF HandleEvent
<1>3. PICK p \in {"connect", "disconnect"}, s \in Sessions : Head(events) = <<p, s>>
  <2>1. Head(q) \in Event
    BY <1>1, <1>2
  <2>. QED
    BY <2>1, <1>1 DEF Event
<1>4. Head(events)[1] = p /\ Head(events)[2] = s
  BY <1>3
<1>5. CASE p = "connect"
  <2>1. Accept(s) \/ Reject(s)
    BY <1>4, <1>5 DEF HandleEvent
  <2>. QED
    BY <2>1, <1>2, <1>3, <1>5, AcceptStep, RejectStep
<1>6. CASE p = "disconnect"
  <2>1. Dispose(s)
    BY <1>4, <1>6 DEF HandleEvent
  <2>. QED
    BY <2>1, <1>2, <1>4, DisposeStep
<1>. QED
  BY <1>5, <1>6

LEMMA ServeStep ==
  ASSUME Inv, NEW s \in Sessions, Serve(s)
  PROVE  Inv'
<1>1. PICK c \in SessionType, m \in ConnType, k \in BOOLEAN, l \in Seq(Nat) :
        /\ c = cn[s] /\ m = mn[s] /\ k = cut[s] /\ l = log[s]
        /\ c.recvs <= RecvWr[s] /\ Good(c, m, k, l)
  BY Here
<1>2. m.cq \in Seq(Completion) /\ m.out \in Nat /\ m.rbuf \in Nat /\ m.cq # <<>>
  BY <1>1, ConnFields DEF Serve
<1>3. Tail(m.cq) \in Seq(Completion) /\ m.out + 1 \in Nat
  <2>1. PICK q \in Seq(Completion) : q = m.cq /\ q # <<>>
    BY <1>2
  <2>2. Tail(q) \in Seq(Completion)
    BY <2>1
  <2>. QED
    BY <2>1, <2>2, <1>2
<1>4. cn' = [cn EXCEPT ![s] = c]
  BY <1>1 DEF Serve, Inv, TypeOK
<1>5. UNCHANGED <<cut, events, list, turn, loop, stop, faults>>
  BY DEF Serve, hostVars
<1>6. CASE IsRequest(Head(mn[s].cq))
  <2>1. Head(m.cq) = "recv"
    BY <1>1, <1>6 DEF IsRequest
  <2>2. PICK w \in ConnType : w = AnswerOf(m)
    BY <1>2, <1>3 DEF ConnType, AnswerOf
  <2>3. PICK h \in Seq(Nat) : h = Append(l, m.rbuf)
    <3>1. PICK r \in Nat : r = m.rbuf
      BY <1>2
    <3>2. Append(l, r) \in Seq(Nat)
      OBVIOUS
    <3>. QED
      BY <3>1, <3>2
  <2>4. mn' = [mn EXCEPT ![s] = w]
    BY <1>1, <1>6, <2>2 DEF Serve
  <2>5. log' = [log EXCEPT ![s] = h]
    BY <1>1, <1>6, <2>3 DEF Serve
  <2>6. Good(c, w, k, h)
    BY <1>1, <1>2, <2>1, <2>2, <2>3, GoodAnswer
  <2>. QED
    BY <1>1, <1>4, <1>5, <2>4, <2>5, <2>6, PairStep
<1>7. CASE ~ IsRequest(Head(mn[s].cq))
  <2>1. Head(m.cq) # "recv"
    BY <1>1, <1>7 DEF IsRequest
  <2>2. PICK w \in ConnType : w = [m EXCEPT !.cq = Tail(m.cq)]
    BY <1>3 DEF ConnType
  <2>3. mn' = [mn EXCEPT ![s].cq = Tail(@)]
    BY <1>7 DEF Serve
  <2>4. mn' = [mn EXCEPT ![s] = w]
    BY <1>1, <2>2, <2>3 DEF Inv, TypeOK
  <2>5. log' = [log EXCEPT ![s] = l]
    BY <1>1, <1>7 DEF Serve, Inv, TypeOK
  <2>6. Good(c, w, k, l)
    BY <1>1, <1>2, <2>1, <2>2, GoodSkip
  <2>. QED
    BY <1>1, <1>4, <1>5, <2>4, <2>5, <2>6, PairStep
<1>. QED
  BY <1>6, <1>7

(* The clean-up: no connection is left. *)
LEMMA EndStep ==
  ASSUME Inv, End, UNCHANGED <<cn, cut, events, stop, log, faults>>
  PROVE  Inv'
<1>. TypeOK /\ AllGood /\ \A t \in Sessions : ConnectsOnce(t)
  BY DEF Inv
<1>1. mn' \in [Sessions -> ConnType] /\ \A t \in Sessions : mn'[t] = NoConn
  BY NoConnFields DEF End
<1>2. list' \in Seq(Sessions) /\ turn' \in Seq(Sessions) /\ loop' = "ended"
  BY DEF End
<1>3. TypeOK'
  BY <1>1, <1>2 DEF TypeOK
<1>4. ASSUME NEW t \in Sessions PROVE Good(cn[t], mn[t], cut[t], log[t])'
  <2>1. Good(cn[t], NoConn, cut[t], log[t])
    BY Here, GoodDispose
  <2>. QED
    BY <2>1, <1>1
<1>5. \A t \in Sessions : ConnectsOnce(t)'
  BY <1>2, SameEvents
<1>. QED
  BY <1>3, <1>4, <1>5 DEF Inv, AllGood

(* Only the schedule of the memory node changes. *)
LEMMA TurnStep ==
  ASSUME Inv, UNCHANGED <<cn, mn, cut, events, list, log>>,
         loop' = loop \/ (loop = "run" /\ loop' = "stalled"), turn' \in Seq(Sessions), stop' \in BOOLEAN, faults' \in Nat
  PROVE  Inv'
<1>. TypeOK /\ AllGood /\ \A t \in Sessions : ConnectsOnce(t)
  BY DEF Inv
<1>1. TypeOK'
  BY DEF TypeOK
<1>2. AllGood'
  BY DEF AllGood
<1>3. \A t \in Sessions : ConnectsOnce(t)'
  BY SameEvents
<1>. QED
  BY <1>1, <1>2, <1>3 DEF Inv

LEMMA ServiceStep ==
  ASSUME Inv, Service
  PROVE  Inv'
<1>1. PICK q \in Seq(Sessions) : q = turn /\ q # <<>>
  BY DEF Inv, TypeOK, Service
<1>2. PICK s \in Sessions : s = Head(turn)
  BY <1>1
<1>3. Serve(s) \/ NothingToServe(s) \/ ServeFails(s)
  BY <1>2 DEF Service
<1>4. CASE NothingToServe(s)
  <2>1. turn' \in Seq(Sessions)
    BY <1>1, <1>4 DEF NothingToServe
  <2>2. stop' \in BOOLEAN /\ faults' \in Nat
    BY <1>4 DEF NothingToServe, Inv, TypeOK
  <2>. QED
    BY <1>4, <2>1, <2>2, TurnStep DEF NothingToServe
<1>5. CASE ServeFails(s)
  BY <1>5, EndStep DEF ServeFails
<1>. QED
  BY <1>3, <1>4, <1>5, ServeStep

LEMMA Step ==
  Inv /\ [Next]_vars => Inv'
<1>. SUFFICES ASSUME Inv, [Next]_vars PROVE Inv'
  OBVIOUS
<1>1. ASSUME NEW s \in Sessions, Caller(s) PROVE Inv'
  BY <1>1, PollStep, PollFailedStep, ReturnStep DEF Caller
<1>2. ASSUME NEW s \in Sessions, Network(s) PROVE Inv'
  BY <1>2, DeliverRequestStep, AcknowledgeStep, DeliverResponseStep DEF Network
<1>3. ASSUME NEW s \in Sessions,
             Connect(s) \/ ConnectFails(s) \/ Post(s) \/ Expire(s) \/ Leave(s)
      PROVE  Inv'
  BY <1>3, ConnectStep, ConnectFailsStep, PostStep, ExpireStep, LeaveStep
<1>4. ASSUME NEW s \in Sessions, Break(s) \/ SessionFails(s) \/ ConnFails(s) PROVE Inv'
  BY <1>4, BreakStep, SessionFailsStep, ConnFailsStep
<1>5. CASE NextRound
  BY <1>5, TurnStep DEF NextRound, Inv, TypeOK
<1>6. CASE StopLoop
  BY <1>6, EndStep DEF StopLoop
<1>7. CASE RequestStop
  <2>1. stop' \in BOOLEAN /\ faults' \in Nat /\ turn' \in Seq(Sessions)
    BY <1>7 DEF RequestStop, Faulty, Inv, TypeOK, hostVars
  <2>. QED
    BY <1>7, <2>1, TurnStep DEF RequestStop, hostVars
<1>8. CASE UNCHANGED vars
  BY <1>8, TurnStep DEF vars, hostVars, Inv, TypeOK
<1>9. CASE Stall
  <2>1. stop' \in BOOLEAN /\ faults' \in Nat /\ turn' \in Seq(Sessions)
    BY <1>9 DEF Stall, Faulty, Inv, TypeOK
  <2>. QED
    BY <1>9, <2>1, TurnStep DEF Stall
<1>. QED
  BY <1>1, <1>2, <1>3, <1>4, <1>5, <1>6, <1>7, <1>8, <1>9, HandleEventStep, ServiceStep
  DEF Next, Host

-----------------------------------------------------------------------------
(* What follows *)

LEMMA Start ==
  Init => Inv
<1>. SUFFICES ASSUME Init PROVE Inv
  OBVIOUS
<1>1. AllGood
  <2>1. SUFFICES ASSUME NEW s \in Sessions PROVE Good(cn[s], mn[s], cut[s], log[s])
    BY DEF AllGood
  <2>2. cn[s] = NewSession /\ mn[s] = NoConn /\ cut[s] = FALSE /\ log[s] = <<>>
    BY DEF Init
  <2>. QED
    BY <2>2, GoodInit
<1>2. ASSUME NEW s \in Sessions PROVE ConnectsOnce(s)
  <2>1. events = <<>> /\ events \in Seq(Event)
    BY DEF Init
  <2>2. \A x : ~ Has(events, x) /\ Once(events, x)
    BY <2>1, HasNone
  <2>. QED
    BY <2>2 DEF ConnectsOnce
<1>. QED
  BY <1>1, <1>2, InitType DEF Inv

(* The inductive invariant holds for any number of sessions, and whatever  *)
(* deadlines pass, links break and connections are rejected                *)
(* (td_rdma_client_msg_exchange with td_rdma_host_run).                    *)
THEOREM Invariant ==
  Spec => []Inv
  BY Start, Step, PTL DEF Spec

(* Every variable keeps its type, and no more receives are posted than the *)
(* queue of the session takes (max_recv_wr).                               *)
THEOREM TypeCorrect ==
  Spec => []TypeOK
<1>1. Inv => TypeOK
  BY DEF Inv
<1>. QED
  BY <1>1, Invariant, PTL

(* An exchange on a session of which none failed before returns the        *)
(* response to its own request, which was executed once and last.          *)
THEOREM AnswersBelong ==
  Spec => []OwnAnswer
<1>1. ASSUME Inv, NEW s \in Sessions, cn[s].pc = "idle", ~ cn[s].late
      PROVE  cn[s].answer = cn[s].n /\ log[s] = [i \in 1 .. cn[s].n |-> i]
  <2>1. PICK l \in Seq(Nat) : l = log[s]
    BY <1>1, Here
  <2>2. cn[s].answer = cn[s].n /\ Len(l) = cn[s].n /\ \A i \in 1 .. Len(l) : l[i] = i
    BY <2>1, <1>1, Here DEF Good, Clean, Resting
  <2>3. l = [i \in 1 .. Len(l) |-> l[i]]
    OBVIOUS
  <2>. QED
    BY <2>1, <2>2, <2>3
<1>2. Inv => OwnAnswer
  BY <1>1 DEF OwnAnswer
<1>. QED
  BY <1>2, Invariant, PTL

(* Requests of a session are executed in the order in which they were      *)
(* made, with or without deadlines between them.                           *)
THEOREM OrderKept ==
  Spec => []InOrder
<1>1. ASSUME Inv, NEW s \in Sessions
      PROVE  /\ \A i, j \in 1 .. Len(log[s]) : i < j => log[s][i] <= log[s][j]
             /\ ~ cn[s].late => \A i \in 1 .. Len(log[s]) : log[s][i] = i
  BY <1>1, Here DEF Good, Ordered, Clean
<1>2. Inv => InOrder
  BY <1>1 DEF InOrder
<1>. QED
  BY <1>2, Invariant, PTL

(* The memory node's loop ends only when it is stopped or because of a     *)
(* response that cannot be delivered any more.                             *)
THEOREM EndsForCause ==
  Spec => EndsOnlyForCause
<1>. DEFINE Cause == stop \/ \E s \in Sessions : mn[s].open /\ ~ Linked(s) /\ mn[s].out > 0
<1>1. ASSUME Inv, Next, loop' # loop, loop' = "ended" PROVE Cause
  <2>1. Host
    BY <1>1
    DEF Next, Connect, ConnectFails, Post, Caller, Poll, PollFailed, Return, Expire,
        Leave, Network, DeliverRequest, Acknowledge, DeliverResponse, Break,
        SessionFails, ConnFails, RequestStop, Stall, hostVars
  <2>2. ~ HandleEvent
    <3>1. SUFFICES ASSUME HandleEvent PROVE FALSE
      OBVIOUS
    <3>2. PICK q \in Seq(Event) : q = events /\ q # <<>>
      BY <1>1, <3>1 DEF Inv, TypeOK, Event, HandleEvent
    <3>3. Head(q)[1] = "connect" \/ Head(q)[1] = "disconnect"
      BY <3>2 DEF Event
    <3>4. \E s : Accept(s) \/ Reject(s) \/ Dispose(s)
      BY <3>1, <3>2, <3>3 DEF HandleEvent
    <3>. QED
      BY <3>4, <1>1 DEF Accept, Reject, Dispose
  <2>3. ~ NextRound
    BY <1>1 DEF NextRound
  <2>4. CASE StopLoop
    BY <2>4 DEF StopLoop
  <2>5. CASE Service
    <3>1. PICK s \in Sessions : s = Head(turn) /\ (Serve(s) \/ NothingToServe(s) \/ ServeFails(s))
      BY <2>5, <1>1 DEF Service, Inv, TypeOK
    <3>2. ServeFails(s)
      BY <3>1, <1>1 DEF Serve, NothingToServe, hostVars
    <3>3. ~ mn[s].up
      BY <3>2 DEF ServeFails
    <3>. QED
      BY <3>3, <1>1, Here DEF Good, DownForCause, Linked
  <2>. QED
    BY <2>1, <2>2, <2>3, <2>4, <2>5 DEF Host
<1>2. Inv /\ [Next]_vars => [loop' # loop /\ loop' = "ended" => Cause]_vars
  <2>. SUFFICES ASSUME Inv, [Next]_vars, ~ UNCHANGED vars, loop' # loop, loop' = "ended"
                 PROVE Cause
    OBVIOUS
  <2>1. Next
    OBVIOUS
  <2>. HIDE DEF Cause
  <2>. QED
    BY <2>1, <1>1
<1>. QED
  BY <1>2, Invariant, PTL DEF Spec, EndsOnlyForCause
=============================================================================
