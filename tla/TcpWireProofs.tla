---------------------------- MODULE TcpWireProofs ----------------------------
(***************************************************************************)
(* Proofs about the TCP transport, for every number of compute nodes,      *)
(* operations and faults: an operation returns its own answer, operations  *)
(* are executed in order, and SIGPIPE kills nobody without a cause.        *)
(***************************************************************************)
EXTENDS TcpWire, Integers, TLAPS, SequenceTheorems

-----------------------------------------------------------------------------
(* The inductive invariant: for each session, of its compute node c, its   *)
(* connection k, its thread t, the operations executed l and the answers   *)
(* a.  In u, whether the memory node could not take a WRITE; in z, whether *)
(* it did so or came to an end; in v, whether it accepts connections.      *)

In(k)  == k.data["mn"]    \* on its way to the memory node
Out(k) == k.data["cn"]    \* on its way to the compute node

Engaged(c) == c.pc \in Exchanging \cup {"idle"}
Waiting(t) == t.pc \in {"check", "recv"}
Ran(l, n)  == \E j \in 1 .. Len(l) : l[j] = n

(* Signals come from the end that is closed; where nothing is, nothing is  *)
(* on its way.                                                             *)
Wired(c, k) ==
  /\ k.state["cn"] \in {"fin", "reset", "pipe"} \/ k.coming["cn"] # <<>> => k.state["mn"] = "closed"
  /\ k.state["mn"] \in {"fin", "reset", "pipe"} \/ k.coming["mn"] # <<>> => k.state["cn"] = "closed"
  /\ \A e \in Ends :
       /\ k.state[e] = "closed" => k.coming[e] = <<>> /\ k.data[e] = <<>>
       /\ k.state[e] \in {"reset", "pipe"} => k.coming[e] = <<>>
       /\ k.state[e] = "fin" => k.coming[e] \in {<<>>, <<"rst">>}
  /\ Engaged(c) <=> k.state["cn"] # "closed"
  /\ c.pc = "new" => k.state["mn"] = "closed"

(* A thread has a connection until it ends. *)
Hosted(c, k, t, v) ==
  /\ t.pc \notin {"none", "closed"} => k.state["mn"] # "closed"
  /\ t.pc = "closed" => k.state["mn"] = "closed"
  /\ c.pc = "new" => t.pc = "none" \/ ~ v

(* Operations were executed in order, and what waits to be executed comes  *)
(* after them.                                                             *)
InSequence(c, k, t, l) ==
  /\ \A i, j \in 1 .. Len(l) : i < j => l[i] < l[j]
  /\ \A i \in 1 .. Len(l) : l[i] <= c.n
  /\ c.pc = "sendHeader" => \A i \in 1 .. Len(l) : l[i] < c.n
  /\ c.pc = "new" => Len(l) = 0
  /\ \A i \in 1 .. Len(In(k)) :
       In(k)[i].part = "header" =>
         /\ In(k)[i].op \in WireOps /\ In(k)[i].n <= c.n
         /\ \A j \in 1 .. Len(l) : l[j] < In(k)[i].n
         /\ t.pc # "recvPayload"
         /\ \A j \in 1 .. Len(In(k)) : In(k)[j].part = "header" => i = j
  /\ t.pc = "recvPayload" =>
       t.n <= c.n /\ \A j \in 1 .. Len(l) : l[j] < t.n

(* What was answered, and what is being asked *)
Counted(c, l, a) ==
  /\ \A i \in 1 .. Len(a) : a[i].ok => a[i].of = {i} /\ Ran(l, i)
  /\ c.pc = "new" => c.op = "HELLO" /\ c.n = 0 /\ Len(a) = 0
  /\ c.pc = "idle" => Len(a) = c.n
  /\ c.pc \in Exchanging =>
       IF c.op = "HELLO" THEN c.n = 0 /\ Len(a) = 0 ELSE Len(a) + 1 = c.n
  /\ c.pc = "sendPayload" => c.op = "WRITE"
  /\ c.pc = "recvPayload" => c.op = "READ" /\ c.got = c.n /\ Ran(l, c.n)

(* The payload of a WRITE that could not be taken may be left. *)
Left(q, u) ==
  \/ Len(q) = 0
  \/ Len(q) = 1 /\ q[1].part = "payload" /\ u

(* A header says how it went. *)
Tells(c, l, status, u) ==
  /\ status = 0 /\ c.op \in Ops => Ran(l, c.n)
  /\ status = 1 => c.op = "READ" \/ (c.op = "WRITE" /\ u)
  /\ c.pc = "sendPayload" => status = 1

(* While both ends are there, the exchange is in one of these phases.      *)
Unasked(c, k, t, u) ==
  /\ c.pc \in {"idle", "sendHeader"}
  /\ Len(Out(k)) = 0
  /\ \/ Waiting(t) /\ Left(In(k), u)
     \/ t.pc = "none" /\ c.op = "HELLO" /\ c.pc = "sendHeader" /\ Len(In(k)) = 0

Asked(c, k, t, u) ==
  /\ c.pc \in {"sendPayload", "recvHeader"}
  /\ Len(Out(k)) = 0
  /\ Waiting(t) \/ (t.pc = "none" /\ c.op = "HELLO")
  /\ \E h \in {1, 2} :
       /\ h = 2 => In(k)[1].part = "payload" /\ u
       /\ Len(In(k)) >= h
       /\ In(k)[h].part = "header" /\ In(k)[h].op = c.op /\ In(k)[h].n = c.n
       /\ IF c.op = "WRITE" /\ c.pc = "recvHeader"
          THEN Len(In(k)) = h + 1 /\ In(k)[h + 1].part = "payload"
          ELSE Len(In(k)) = h

Taking(c, k, t) ==
  /\ c.pc \in {"sendPayload", "recvHeader"} /\ c.op = "WRITE"
  /\ Len(Out(k)) = 0
  /\ t.pc = "recvPayload" /\ t.op = "WRITE" /\ t.n = c.n
  /\ IF c.pc = "sendPayload" THEN Len(In(k)) = 0
     ELSE Len(In(k)) = 1 /\ In(k)[1].part = "payload"

Answering(c, k, t, l, u) ==
  /\ c.pc \in {"sendPayload", "recvHeader"}
  /\ Len(Out(k)) = 0
  /\ t.pc = "reply" /\ t.op = c.op /\ t.n = c.n
  /\ Tells(c, l, t.status, u)
  /\ Left(In(k), u) /\ (c.pc = "sendPayload" => Len(In(k)) = 0)

AnsweringMore(c, k, t, l, u) ==
  /\ c.op = "READ" /\ Ran(l, c.n) /\ Left(In(k), u)
  /\ t.pc = "replyPayload" /\ t.op = "READ" /\ t.n = c.n
  /\ \/ c.pc = "recvHeader" /\ Len(Out(k)) = 1 /\ Out(k)[1] = Header("ACK", c.n, 0)
     \/ c.pc = "recvPayload" /\ Len(Out(k)) = 0

(* The answer is there. *)
Answer(c, k, l, u) ==
  \/ /\ c.pc \in {"sendPayload", "recvHeader"}
     /\ \E s \in {0, 1} :
          /\ Len(Out(k)) > 0 /\ Out(k)[1] = Header("ACK", c.n, s)
          /\ Tells(c, l, s, u)
          /\ IF c.op = "READ" /\ s = 0
             THEN Len(Out(k)) = 2 /\ Out(k)[2] = Payload(c.n)
             ELSE Len(Out(k)) = 1
  \/ c.pc = "recvPayload" /\ Len(Out(k)) = 1 /\ Out(k)[1] = Payload(c.n)

Answered(c, k, t, l, u) ==
  /\ Waiting(t)
  /\ Left(In(k), u) /\ (c.pc = "sendPayload" => Len(In(k)) = 0)
  /\ Answer(c, k, l, u)

Talking(c, k, t, l, u) ==
  Engaged(c) /\ k.state["mn"] # "closed" =>
    \/ Unasked(c, k, t, u)
    \/ Asked(c, k, t, u)
    \/ Taking(c, k, t)
    \/ Answering(c, k, t, l, u)
    \/ AnsweringMore(c, k, t, l, u)
    \/ Answered(c, k, t, l, u)

(* A connection that was not taken on *)
Refused(c, k) ==
  /\ c.op = "HELLO" /\ Len(Out(k)) = 0
  /\ \/ c.pc = "recvHeader"
     \/ /\ c.pc = "sendHeader" /\ k.state["cn"] \in {"open", "fin"}
        /\ k.coming["cn"] \in {<<>>, <<"fin">>}

(* When the memory node's end is gone, what can still be read is the       *)
(* answer or a part of it.                                                 *)
Alone(c, k, l, u, z) ==
  Engaged(c) /\ k.state["mn"] = "closed" =>
    /\ c.pc \in {"idle", "sendHeader"} => Len(Out(k)) = 0 \/ k.state["cn"] = "pipe"
    /\ c.pc \in {"sendPayload", "recvHeader", "recvPayload"} =>
         \/ Len(Out(k)) = 0
         \/ Answer(c, k, l, u)
         \/ /\ c.pc = "recvHeader" /\ c.op = "READ" /\ Ran(l, c.n)
            /\ Len(Out(k)) = 1 /\ Out(k)[1] = Header("ACK", c.n, 0)
    /\ z \/ Refused(c, k) \/ (c.op = "CLOSE" /\ c.pc = "recvHeader")

(* Who went the regular way has left nothing to answer. *)
Gone(c, k, t, z) ==
  /\ c.pc = "closed" /\ k.state["mn"] # "closed" =>
       Len(In(k)) = 0 /\ (t.pc = "none" \/ Waiting(t))
  /\ c.pc = "killed" => z

Sound(c, k, t, l, a, u, z, v) ==
  /\ Wired(c, k) /\ Hosted(c, k, t, v)
  /\ InSequence(c, k, t, l) /\ Counted(c, l, a)
  /\ Talking(c, k, t, l, u) /\ Alone(c, k, l, u, z) /\ Gone(c, k, t, z)

(* Who answers a CLOSE has closed, too. *)
ClosedBoth(c, k) ==
  c.op = "CLOSE" /\ c.pc = "recvHeader" /\ k.state["mn"] # "closed" => Len(Out(k)) = 0

Good(c, k, t, l, a, u, z, v) == Sound(c, k, t, l, a, u, z, v) /\ ClosedBoth(c, k)

Untaken == "mallocWrite" \in faults
Cause   == stop \/ main # "serve" \/ Untaken

AllGood ==
  \A c \in Clients :
    Good(cn[c], conn[c], thread[c], log[c], answers[c], Untaken, Cause, main = "serve")

Inv ==
  /\ TypeOK /\ AllGood
  /\ main = "killed" => \E c \in Clients : cn[c].pc \in {"crashed", "killed"}

-----------------------------------------------------------------------------
(* Connections                                                             *)

Signals == {<<>>, <<"fin">>, <<"rst">>, <<"fin", "rst">>}

LEMMA SignalFacts ==
  /\ Append(<<>>, "rst") = <<"rst">> /\ Append(<<"fin">>, "rst") = <<"fin", "rst">>
  /\ Tail(<<"fin">>) = <<>> /\ Head(<<"fin">>) = "fin"
  /\ Tail(<<"rst">>) = <<>> /\ Head(<<"rst">>) = "rst"
  /\ Tail(<<"fin", "rst">>) = <<"rst">> /\ Head(<<"fin", "rst">>) = "fin"
<1>. DEFINE S == {"fin", "rst"}
<1>1. Append(<<"fin">>, "rst") = <<"fin", "rst">>
  <2>1. \A x, y \in S : Append(<<x>>, y) = <<x, y>>
    <3>1. SUFFICES ASSUME NEW x \in S, NEW y \in S PROVE Append(<<x>>, y) = <<x, y>>
      OBVIOUS
    <3>. HIDE DEF S
    <3>2. <<x>> \in Seq(S) /\ <<x, y>> \in Seq(S) /\ Len(<<x, y>>) = 2 /\ Len(<<x>>) = 1
      OBVIOUS
    <3>3. Append(<<x>>, y) \in Seq(S) /\ Len(Append(<<x>>, y)) = 2
      BY <3>2, AppendProperties
    <3>4. \A i \in 1 .. 2 : Append(<<x>>, y)[i] = <<x, y>>[i]
      BY <3>2, AppendProperties
    <3>. QED
      BY <3>2, <3>3, <3>4, SeqEqual
  <2>. QED
    BY <2>1
<1>2. Append(<<>>, "rst") = <<"rst">>
  OBVIOUS
<1>3. Tail(<<"fin">>) = <<>> /\ Tail(<<"rst">>) = <<>>
  OBVIOUS
<1>4. Tail(<<"fin", "rst">>) = <<"rst">>
  OBVIOUS
<1>5. Head(<<"fin">>) = "fin" /\ Head(<<"rst">>) = "rst" /\ Head(<<"fin", "rst">>) = "fin"
  OBVIOUS
<1>. QED
  BY <1>1, <1>2, <1>3, <1>4, <1>5

LEMMA Peers ==
  /\ Peer("cn") = "mn" /\ Peer("mn") = "cn"
  /\ "cn" \in Ends /\ "mn" \in Ends
<1>1. \A f \in Ends : (f # "cn" <=> f = "mn") /\ (f # "mn" <=> f = "cn")
  BY DEF Ends
<1>2. "cn" \in Ends /\ "mn" \in Ends
  BY DEF Ends
<1>3. Peer("cn") \in Ends /\ Peer("cn") # "cn"
  BY <1>2 DEF Peer
<1>4. Peer("mn") \in Ends /\ Peer("mn") # "mn"
  BY <1>2 DEF Peer
<1>. QED
  BY <1>1, <1>2, <1>3, <1>4

LEMMA SocketFields ==
  ASSUME NEW k \in Connections(Parts), NEW e \in Ends
  PROVE  /\ k.state[e] \in SocketStates /\ k.data[e] \in Seq(Parts)
         /\ k.coming[e] \in Signals
  BY DEF Connections, Signals

(* How each operation changes a connection between its end e and the other *)
(* end f                                                                   *)
LEMMA SentIs ==
  ASSUME NEW k \in Connections(Parts), NEW e \in Ends, NEW f \in Ends, f = Peer(e), f # e,
         NEW part \in Parts, NEW w, w = Sent(k, e, part)
  PROVE  /\ w \in Connections(Parts) /\ w.state = k.state
         /\ k.state[f] # "closed" =>
              /\ w.data[f] = Append(k.data[f], part) /\ w.data[e] = k.data[e]
              /\ w.coming = k.coming
         /\ k.state[f] = "closed" =>
              /\ w.data = k.data /\ w.coming[f] = k.coming[f]
              /\ w.coming[e] =
                   IF k.coming[e] \in {<<>>, <<"fin">>} /\ k.state[e] # "pipe"
                   THEN Append(k.coming[e], "rst") ELSE k.coming[e]
<1>1. CASE k.state[f] # "closed"
  <2>1. w = [k EXCEPT !.data[f] = Append(@, part)]
    BY <1>1 DEF Sent
  <2>2. Append(k.data[f], part) \in Seq(Parts)
    BY SocketFields
  <2>3. w.state = k.state /\ w.coming = k.coming
    BY <2>1 DEF Connections
  <2>4. w.data = [k.data EXCEPT ![f] = Append(k.data[f], part)]
    BY <2>1 DEF Connections
  <2>5. k.data \in [Ends -> Seq(Parts)]
    BY DEF Connections
  <2>6. /\ w.data \in [Ends -> Seq(Parts)]
        /\ w.data[f] = Append(k.data[f], part) /\ w.data[e] = k.data[e]
    BY <2>2, <2>4, <2>5
  <2>7. w = [state |-> w.state, data |-> w.data, coming |-> w.coming]
    BY <2>1 DEF Connections
  <2>8. w \in Connections(Parts)
    BY <2>3, <2>6, <2>7 DEF Connections
  <2>. QED
    BY <2>3, <2>6, <2>8, <1>1
<1>2. CASE k.state[f] = "closed" /\ k.coming[e] \in {<<>>, <<"fin">>} /\ k.state[e] # "pipe"
  <2>1. w = [k EXCEPT !.coming[e] = Append(@, "rst")]
    BY <1>2 DEF Sent
  <2>2. Append(k.coming[e], "rst") \in Signals
    BY <1>2, SignalFacts DEF Signals
  <2>3. w.state = k.state /\ w.data = k.data
    BY <2>1 DEF Connections
  <2>4. w.coming = [k.coming EXCEPT ![e] = Append(k.coming[e], "rst")]
    BY <2>1 DEF Connections
  <2>5. k.coming \in [Ends -> Signals]
    BY DEF Connections, Signals
  <2>6. /\ w.coming \in [Ends -> Signals]
        /\ w.coming[e] = Append(k.coming[e], "rst") /\ w.coming[f] = k.coming[f]
    BY <2>2, <2>4, <2>5
  <2>7. w = [state |-> w.state, data |-> w.data, coming |-> w.coming]
    BY <2>1 DEF Connections
  <2>8. w \in Connections(Parts)
    BY <2>3, <2>6, <2>7 DEF Connections, Signals
  <2>. QED
    BY <2>3, <2>6, <2>8, <1>2
<1>3. CASE k.state[f] = "closed" /\ ~ (k.coming[e] \in {<<>>, <<"fin">>} /\ k.state[e] # "pipe")
  <2>1. w = k
    BY <1>3 DEF Sent
  <2>. QED
    BY <2>1, <1>3
<1>. QED
  BY <1>1, <1>2, <1>3

LEMMA ReceivedIs ==
  ASSUME NEW k \in Connections(Parts), NEW e \in Ends, CanReceive(k, e),
         NEW w, w = Received(k, e)
  PROVE  /\ w \in Connections(Parts) /\ w.state = k.state /\ w.coming = k.coming
         /\ w.data[e] = Tail(k.data[e])
         /\ \A f \in Ends : f # e => w.data[f] = k.data[f]
<1>1. w = [k EXCEPT !.data[e] = Tail(@)]
  BY DEF Received
<1>2. Tail(k.data[e]) \in Seq(Parts)
  <2>1. PICK q \in Seq(Parts) : q = k.data[e] /\ q # <<>>
    BY SocketFields DEF CanReceive
  <2>. QED
    BY <2>1
<1>3. w.state = k.state /\ w.coming = k.coming
  BY <1>1 DEF Connections
<1>4. w.data = [k.data EXCEPT ![e] = Tail(k.data[e])]
  BY <1>1 DEF Connections
<1>5. k.data \in [Ends -> Seq(Parts)]
  BY DEF Connections
<1>6. /\ w.data \in [Ends -> Seq(Parts)] /\ w.data[e] = Tail(k.data[e])
      /\ \A f \in Ends : f # e => w.data[f] = k.data[f]
  BY <1>2, <1>4, <1>5
<1>7. w = [state |-> w.state, data |-> w.data, coming |-> w.coming]
  BY <1>1 DEF Connections
<1>8. w \in Connections(Parts)
  BY <1>3, <1>6, <1>7 DEF Connections
<1>. QED
  BY <1>3, <1>6, <1>8

LEMMA ReportedIs ==
  ASSUME NEW k \in Connections(Parts), NEW e \in Ends,
         NEW w, w = Reported(k, e)
  PROVE  /\ w \in Connections(Parts) /\ w.data = k.data /\ w.coming = k.coming
         /\ w.state[e] = IF k.state[e] = "reset" THEN "pipe" ELSE k.state[e]
         /\ \A f \in Ends : f # e => w.state[f] = k.state[f]
<1>1. CASE k.state[e] = "reset"
  <2>1. w = [k EXCEPT !.state[e] = "pipe"]
    BY <1>1 DEF Reported
  <2>2. w.data = k.data /\ w.coming = k.coming
    BY <2>1 DEF Connections
  <2>3. w.state = [k.state EXCEPT ![e] = "pipe"]
    BY <2>1 DEF Connections
  <2>4. k.state \in [Ends -> SocketStates]
    BY DEF Connections
  <2>5. /\ w.state \in [Ends -> SocketStates] /\ w.state[e] = "pipe"
        /\ \A f \in Ends : f # e => w.state[f] = k.state[f]
    BY <2>3, <2>4 DEF SocketStates
  <2>6. w = [state |-> w.state, data |-> w.data, coming |-> w.coming]
    BY <2>1 DEF Connections
  <2>7. w \in Connections(Parts)
    BY <2>2, <2>5, <2>6 DEF Connections
  <2>. QED
    BY <2>2, <2>5, <2>7, <1>1
<1>2. CASE k.state[e] # "reset"
  <2>1. w = k
    BY <1>2 DEF Reported
  <2>. QED
    BY <2>1, <1>2
<1>. QED
  BY <1>1, <1>2

LEMMA ArrivedIs ==
  ASSUME NEW k \in Connections(Parts), NEW e \in Ends, k.coming[e] # <<>>,
         k.state[e] = "fin" => k.coming[e] \in {<<>>, <<"rst">>},
         NEW w, w = Arrived(k, e)
  PROVE  /\ w \in Connections(Parts) /\ w.data = k.data
         /\ \A f \in Ends : f # e => w.state[f] = k.state[f] /\ w.coming[f] = k.coming[f]
         /\ \/ /\ k.coming[e] \in {<<"fin">>, <<"fin", "rst">>} /\ w.state[e] = "fin"
               /\ w.coming[e] = IF k.coming[e] = <<"fin">> THEN <<>> ELSE <<"rst">>
            \/ /\ k.coming[e] = <<"rst">> /\ w.coming[e] = <<>>
               /\ w.state[e] = IF k.state[e] = "fin" THEN "pipe" ELSE "reset"
<1>. DEFINE s == CASE Head(k.coming[e]) = "fin" -> "fin"
                   [] k.state[e] = "fin"        -> "pipe"
                   [] OTHER                     -> "reset"
<1>1. w = [k EXCEPT !.coming[e] = Tail(@), !.state[e] = s]
  BY DEF Arrived, Connections
<1>2. k.coming[e] \in {<<"fin">>, <<"rst">>, <<"fin", "rst">>}
  BY SocketFields DEF Signals
<1>3. /\ k.coming[e] = <<"fin">> => Tail(k.coming[e]) = <<>> /\ Head(k.coming[e]) = "fin"
      /\ k.coming[e] = <<"rst">> => Tail(k.coming[e]) = <<>> /\ Head(k.coming[e]) = "rst"
      /\ k.coming[e] = <<"fin", "rst">> =>
           Tail(k.coming[e]) = <<"rst">> /\ Head(k.coming[e]) = "fin"
  BY SignalFacts
<1>4. s \in SocketStates /\ Tail(k.coming[e]) \in Signals
  BY <1>2, <1>3 DEF SocketStates, Signals
<1>5. \/ k.coming[e] \in {<<"fin">>, <<"fin", "rst">>} /\ s = "fin"
      \/ k.coming[e] = <<"rst">> /\ s = IF k.state[e] = "fin" THEN "pipe" ELSE "reset"
  <2>1. CASE k.coming[e] = <<"rst">>
    <3>1. Head(k.coming[e]) = "rst" /\ "rst" # "fin"
      BY <2>1, <1>3
    <3>. QED
      BY <2>1, <3>1
  <2>2. CASE k.coming[e] \in {<<"fin">>, <<"fin", "rst">>}
    <3>1. Head(k.coming[e]) = "fin" /\ k.coming[e] # <<"rst">>
      BY <2>2, <1>3
    <3>2. k.state[e] # "fin"
      BY <3>1
    <3>. QED
      BY <2>2, <3>1, <3>2
  <2>. QED
    BY <1>2, <2>1, <2>2
<1>. HIDE DEF s
<1>6. w.data = k.data /\ w.coming = [k.coming EXCEPT ![e] = Tail(k.coming[e])]
      /\ w.state = [k.state EXCEPT ![e] = s]
  BY <1>1 DEF Connections
<1>7. k.coming \in [Ends -> Signals] /\ k.state \in [Ends -> SocketStates]
  BY DEF Connections, Signals
<1>8. /\ w.coming \in [Ends -> Signals] /\ w.coming[e] = Tail(k.coming[e])
      /\ w.state \in [Ends -> SocketStates] /\ w.state[e] = s
      /\ \A f \in Ends : f # e => w.state[f] = k.state[f] /\ w.coming[f] = k.coming[f]
  BY <1>4, <1>6, <1>7
<1>9. w = [state |-> w.state, data |-> w.data, coming |-> w.coming]
  BY <1>1 DEF Connections
<1>10. w \in Connections(Parts)
  BY <1>6, <1>8, <1>9 DEF Connections, Signals
<1>11. <<"fin", "rst">> # <<"fin">>
  OBVIOUS
<1>. QED
  BY <1>3, <1>5, <1>6, <1>8, <1>10, <1>11

LEMMA ClosingsAre ==
  ASSUME NEW k \in Connections(Parts), NEW e \in Ends, NEW f \in Ends, f = Peer(e), f # e,
         NEW unread \in BOOLEAN, NEW w \in Closings(k, e, unread)
  PROVE  /\ w \in Connections(Parts)
         /\ w.state[e] = "closed" /\ w.data[e] = <<>> /\ w.coming[e] = <<>>
         /\ w.state[f] = k.state[f] /\ w.data[f] = k.data[f]
         /\ k.state[f] = "closed" => w.coming[f] = k.coming[f]
         /\ k.state[f] # "closed" =>
              /\ w.coming[f] \in {<<"fin">>, <<"rst">>, <<"fin", "rst">>}
              /\ ~ unread /\ Len(k.data[e]) = 0 => w.coming[f] = <<"fin">>
<1>. DEFINE gone == [k EXCEPT !.state[e] = "closed", !.data[e] = <<>>, !.coming[e] = <<>>]
<1>1. PICK g : g = gone
  OBVIOUS
<1>2. g = [k EXCEPT !.state = [k.state EXCEPT ![e] = "closed"],
                    !.data = [k.data EXCEPT ![e] = <<>>],
                    !.coming = [k.coming EXCEPT ![e] = <<>>]]
  BY <1>1 DEF Connections
<1>3. /\ k.state \in [Ends -> SocketStates] /\ k.data \in [Ends -> Seq(Parts)]
      /\ k.coming \in [Ends -> Signals]
  BY DEF Connections, Signals
<1>4. /\ g.state = [k.state EXCEPT ![e] = "closed"]
      /\ g.data = [k.data EXCEPT ![e] = <<>>]
      /\ g.coming = [k.coming EXCEPT ![e] = <<>>]
      /\ g = [state |-> g.state, data |-> g.data, coming |-> g.coming]
  BY <1>2 DEF Connections
<1>5. /\ g.state \in [Ends -> SocketStates] /\ g.state[e] = "closed" /\ g.state[f] = k.state[f]
      /\ g.data \in [Ends -> Seq(Parts)] /\ g.data[e] = <<>> /\ g.data[f] = k.data[f]
      /\ g.coming \in [Ends -> Signals] /\ g.coming[e] = <<>> /\ g.coming[f] = k.coming[f]
  BY <1>3, <1>4 DEF SocketStates, Signals
<1>6. g \in Connections(Parts)
  BY <1>4, <1>5 DEF Connections, Signals
<1>7. CASE k.state[f] = "closed"
  <2>1. w = g
    BY <1>1, <1>7 DEF Closings
  <2>. QED
    BY <2>1, <1>5, <1>6, <1>7
<1>8. CASE k.state[f] # "closed"
  <2>1. PICK signals \in IF unread \/ k.data[e] # <<>> THEN {<<"rst">>, <<"fin", "rst">>}
                         ELSE {<<"fin">>} :
          w = [g EXCEPT !.coming[f] = signals]
    <3>1. w \in {[gone EXCEPT !.coming[Peer(e)] = signals] :
                   signals \in IF unread \/ k.data[e] # <<>>
                               THEN {<<"rst">>, <<"fin", "rst">>} ELSE {<<"fin">>}}
      BY <1>8, Zenon DEF Closings
    <3>2. PICK signals \in IF unread \/ k.data[e] # <<>> THEN {<<"rst">>, <<"fin", "rst">>}
                           ELSE {<<"fin">>} :
            w = [gone EXCEPT !.coming[Peer(e)] = signals]
      BY <3>1, Zenon
    <3>3. w = [g EXCEPT !.coming[f] = signals]
      BY <3>2, <1>1, Zenon
    <3>. QED
      BY <3>3
  <2>2. /\ signals \in {<<"fin">>, <<"rst">>, <<"fin", "rst">>}
        /\ ~ unread /\ k.data[e] = <<>> => signals = <<"fin">>
    BY <2>1
  <2>3. signals \in Signals
    BY <2>2 DEF Signals
  <2>4. /\ w.state = g.state /\ w.data = g.data
        /\ w.coming = [g.coming EXCEPT ![f] = signals]
        /\ w = [state |-> w.state, data |-> w.data, coming |-> w.coming]
    BY <2>1, <1>6 DEF Connections
  <2>5. w.coming \in [Ends -> Signals] /\ w.coming[f] = signals /\ w.coming[e] = <<>>
    BY <2>3, <2>4, <1>5
  <2>6. w \in Connections(Parts)
    BY <2>4, <2>5, <1>5 DEF Connections, Signals
  <2>7. Len(k.data[e]) = 0 => k.data[e] = <<>>
    BY SocketFields
  <2>. QED
    BY <2>2, <2>4, <2>5, <2>6, <2>7, <1>5, <1>8
<1>. QED
  BY <1>7, <1>8

LEMMA NewConnections ==
  /\ NoConnection \in Connections(Parts) /\ Established \in Connections(Parts)
  /\ \A e \in Ends :
       /\ NoConnection.state[e] = "closed" /\ Established.state[e] = "open"
       /\ NoConnection.data[e] = <<>> /\ Established.data[e] = <<>>
       /\ NoConnection.coming[e] = <<>> /\ Established.coming[e] = <<>>
<1>1. /\ NoConnection.state = [e \in Ends |-> "closed"]
      /\ NoConnection.data = [e \in Ends |-> <<>>]
      /\ NoConnection.coming = [e \in Ends |-> <<>>]
      /\ Established.state = [e \in Ends |-> "open"]
      /\ Established.data = [e \in Ends |-> <<>>]
      /\ Established.coming = [e \in Ends |-> <<>>]
  BY DEF NoConnection, Established
<1>2. <<>> \in Seq(Parts)
  OBVIOUS
<1>3. NoConnection \in Connections(Parts)
  BY <1>2 DEF NoConnection, Connections, SocketStates
<1>4. Established = [state |-> [e \in Ends |-> "open"], data |-> [e \in Ends |-> <<>>],
                     coming |-> [e \in Ends |-> <<>>]]
  BY DEF Established, NoConnection
<1>5. Established \in Connections(Parts)
  BY <1>2, <1>4 DEF Connections, SocketStates
<1>. QED
  BY <1>1, <1>3, <1>5

-----------------------------------------------------------------------------
(* Types                                                                   *)

CallType   == [pc : Exchanging \cup Ended \cup {"new", "idle"}, op : WireOps,
               n : Requests, got : Requests]
ThreadType == [pc : {"none", "check", "recv", "recvPayload", "reply", "replyPayload", "closed"},
               op : WireOps, n : Requests, status : {0, 1}]
AnswerType == [op : Ops, ok : BOOLEAN, of : SUBSET Requests]

LEMMA PartsAre ==
  /\ \A p \in Parts : /\ p.part \in {"header", "payload"} /\ p.n \in Nat /\ p.status \in {0, 1}
                      /\ p.part = "payload" => p.op = "none"
                      /\ p.op \in WireOps \cup {"ACK", "none"}
  /\ \A op \in WireOps \cup {"ACK"}, n \in Nat, s \in {0, 1} :
       /\ Header(op, n, s) \in Parts
       /\ Header(op, n, s).part = "header" /\ Header(op, n, s).op = op
       /\ Header(op, n, s).n = n /\ Header(op, n, s).status = s
  /\ \A n \in Nat : /\ Payload(n) \in Parts
                    /\ Payload(n).part = "payload" /\ Payload(n).n = n
<1>1. \A op \in WireOps \cup {"ACK"}, n \in Nat, s \in {0, 1} :
       /\ Header(op, n, s) \in Parts
       /\ Header(op, n, s).part = "header" /\ Header(op, n, s).op = op
       /\ Header(op, n, s).n = n /\ Header(op, n, s).status = s
  BY DEF Header, Parts, Requests
<1>2. \A n \in Nat : /\ Payload(n) \in Parts
                     /\ Payload(n).part = "payload" /\ Payload(n).n = n
  BY DEF Payload, Parts, Requests
<1>3. \A p \in Parts : /\ p.part \in {"header", "payload"} /\ p.n \in Nat /\ p.status \in {0, 1}
                       /\ p.part = "payload" => p.op = "none"
                       /\ p.op \in WireOps \cup {"ACK", "none"}
  BY DEF Parts, Requests, WireOps, Ops
<1>. QED
  BY <1>1, <1>2, <1>3

(* What a session is made of *)
Session(c, k, t, l, a) ==
  /\ c \in CallType /\ k \in Connections(Parts) /\ t \in ThreadType
  /\ l \in Seq(Nat) /\ a \in Seq(AnswerType)

LEMMA SessionFields ==
  ASSUME NEW c, NEW k, NEW t, NEW l, NEW a, Session(c, k, t, l, a)
  PROVE  /\ c.pc \in Exchanging \cup Ended \cup {"new", "idle"} /\ c.op \in WireOps
         /\ c.n \in Nat /\ c.got \in Nat
         /\ t.pc \in {"none", "check", "recv", "recvPayload", "reply", "replyPayload", "closed"}
         /\ t.op \in WireOps /\ t.n \in Nat /\ t.status \in {0, 1}
         /\ In(k) \in Seq(Parts) /\ Out(k) \in Seq(Parts)
         /\ k.state["cn"] \in SocketStates /\ k.state["mn"] \in SocketStates
         /\ k.coming["cn"] \in Signals /\ k.coming["mn"] \in Signals
         /\ Len(l) \in Nat /\ \A i \in 1 .. Len(l) : l[i] \in Nat
         /\ Len(a) \in Nat
<1>1. k \in Connections(Parts) /\ "cn" \in Ends /\ "mn" \in Ends
  BY Peers DEF Session
<1>2. /\ k.state["cn"] \in SocketStates /\ k.state["mn"] \in SocketStates
      /\ k.coming["cn"] \in Signals /\ k.coming["mn"] \in Signals
      /\ In(k) \in Seq(Parts) /\ Out(k) \in Seq(Parts)
  BY <1>1, SocketFields DEF In, Out
<1>3. l \in Seq(Nat) /\ a \in Seq(AnswerType)
  BY DEF Session
<1>4. Len(l) \in Nat /\ (\A i \in 1 .. Len(l) : l[i] \in Nat) /\ Len(a) \in Nat
  BY <1>3
<1>5. /\ c.pc \in Exchanging \cup Ended \cup {"new", "idle"} /\ c.op \in WireOps
      /\ c.n \in Nat /\ c.got \in Nat
  BY DEF Session, CallType, Requests
<1>6. /\ t.pc \in {"none", "check", "recv", "recvPayload", "reply", "replyPayload", "closed"}
      /\ t.op \in WireOps /\ t.n \in Nat /\ t.status \in {0, 1}
  BY DEF Session, ThreadType, Requests
<1>. QED
  BY <1>2, <1>4, <1>5, <1>6

-----------------------------------------------------------------------------
(* What a step of a session, or the end of another, does to the invariant  *)

LEMMA Weaker ==
  ASSUME NEW c, NEW k, NEW t, NEW l, NEW a,
         NEW u \in BOOLEAN, NEW z \in BOOLEAN, NEW v \in BOOLEAN,
         NEW u2 \in BOOLEAN, NEW z2 \in BOOLEAN, NEW v2 \in BOOLEAN,
         u => u2, z => z2, v2 => v,
         Good(c, k, t, l, a, u, z, v)
  PROVE  Good(c, k, t, l, a, u2, z2, v2)
<1>1. /\ Wired(c, k) /\ Hosted(c, k, t, v)
      /\ InSequence(c, k, t, l) /\ Counted(c, l, a)
      /\ Talking(c, k, t, l, u) /\ Alone(c, k, l, u, z) /\ Gone(c, k, t, z) /\ ClosedBoth(c, k)
  BY DEF Good, Sound
<1>2. Hosted(c, k, t, v2)
  BY <1>1 DEF Hosted
<1>3. \A q : Left(q, u) => Left(q, u2)
  BY DEF Left
<1>4. \A s : Tells(c, l, s, u) => Tells(c, l, s, u2)
  BY DEF Tells
<1>5. Answer(c, k, l, u) => Answer(c, k, l, u2)
  BY <1>4 DEF Answer
<1>6. Talking(c, k, t, l, u2)
  <2>1. Unasked(c, k, t, u) => Unasked(c, k, t, u2)
    BY <1>3 DEF Unasked
  <2>2. Asked(c, k, t, u) => Asked(c, k, t, u2)
    BY DEF Asked
  <2>3. Answering(c, k, t, l, u) => Answering(c, k, t, l, u2)
    BY <1>3, <1>4 DEF Answering
  <2>4. AnsweringMore(c, k, t, l, u) => AnsweringMore(c, k, t, l, u2)
    BY <1>3 DEF AnsweringMore
  <2>5. Answered(c, k, t, l, u) => Answered(c, k, t, l, u2)
    BY <1>3, <1>5 DEF Answered
  <2>. QED
    BY <1>1, <2>1, <2>2, <2>3, <2>4, <2>5 DEF Talking
<1>7. Alone(c, k, l, u2, z2)
  BY <1>1, <1>5 DEF Alone
<1>8. Gone(c, k, t, z2)
  BY <1>1 DEF Gone
<1>. QED
  BY <1>1, <1>2, <1>6, <1>7, <1>8 DEF Good, Sound

(* d is c, but for where it is. *)
Moved(c, d, pc) == d.pc = pc /\ d.op = c.op /\ d.n = c.n /\ d.got = c.got

Accepts(v) == v

Opened(w) == w = Established

LEMMA ConnectGood ==
  ASSUME NEW c, NEW k, NEW t, NEW l, NEW a, Session(c, k, t, l, a),
         NEW u \in BOOLEAN, NEW z \in BOOLEAN, NEW v \in BOOLEAN, Accepts(v),
         Good(c, k, t, l, a, u, z, v),
         c.pc = "new", NEW d, Moved(c, d, "sendHeader"), NEW w, Opened(w)
  PROVE  Good(d, w, t, l, a, u, z, v)
<1>1. /\ Wired(c, k) /\ Hosted(c, k, t, v)
      /\ InSequence(c, k, t, l) /\ Counted(c, l, a)
  BY DEF Good, Sound
<1>2. d.pc = "sendHeader" /\ d.op = "HELLO" /\ d.n = 0 /\ t.pc = "none" /\ Len(a) = 0 /\ Len(l) = 0
  BY <1>1 DEF Accepts, Moved, Counted, Hosted, InSequence
<1>3. /\ \A e \in Ends : w.state[e] = "open" /\ w.data[e] = <<>> /\ w.coming[e] = <<>>
      /\ Len(In(w)) = 0 /\ Len(Out(w)) = 0
      /\ w.state["cn"] = "open" /\ w.state["mn"] = "open"
      /\ w.coming["cn"] = <<>> /\ w.coming["mn"] = <<>>
  BY NewConnections, Peers DEF In, Out, Opened
<1>4. Wired(d, w)
  BY <1>2, <1>3 DEF Wired, Engaged, Exchanging
<1>5. Hosted(d, w, t, v) /\ InSequence(d, w, t, l)
  BY <1>2, <1>3 DEF Hosted, InSequence
<1>6. Counted(d, l, a)
  BY <1>1, <1>2 DEF Counted
<1>7. Talking(d, w, t, l, u) /\ Alone(d, w, l, u, z) /\ Gone(d, w, t, z) /\ ClosedBoth(d, w)
  BY <1>2, <1>3 DEF Talking, Unasked, Alone, Gone, ClosedBoth
<1>. QED
  BY <1>4, <1>5, <1>6, <1>7 DEF Good, Sound

(* There is no memory for the session. *)
ConnectClosed(w) ==
  /\ w.state["cn"] = "closed" /\ w.data["cn"] = <<>> /\ w.coming["cn"] = <<>>
  /\ w.state["mn"] = "open" /\ w.data["mn"] = <<>> /\ w.coming["mn"] = <<"fin">>

LEMMA NotConnectedGood ==
  ASSUME NEW c, NEW k, NEW t, NEW l, NEW a, Session(c, k, t, l, a),
         NEW u \in BOOLEAN, NEW z \in BOOLEAN, NEW v \in BOOLEAN,
         Good(c, k, t, l, a, u, z, v),
         c.pc = "new", NEW d, Moved(c, d, "closed"), NEW w,
         (~ Accepts(v) /\ w = k) \/ (Accepts(v) /\ ConnectClosed(w))
  PROVE  Good(d, w, t, l, a, u, z, v)
<1>1. /\ Wired(c, k) /\ Hosted(c, k, t, v)
      /\ InSequence(c, k, t, l) /\ Counted(c, l, a)
  BY DEF Good, Sound
<1>2. d.pc = "closed" /\ d.op = "HELLO" /\ d.n = 0 /\ Len(a) = 0 /\ Len(l) = 0
  BY <1>1 DEF Moved, Counted, InSequence
<1>3. Alone(d, w, l, u, z) /\ Talking(d, w, t, l, u) /\ ClosedBoth(d, w) /\ ~ Engaged(d) /\ ~ Engaged(c)
  BY <1>2 DEF Alone, Talking, ClosedBoth, Engaged, Exchanging
<1>4. Counted(d, l, a)
  BY <1>1, <1>2 DEF Counted, Exchanging
<1>5. CASE ~ Accepts(v) /\ w = k
  <2>1. k.state["mn"] = "closed" /\ In(k) = <<>>
    BY <1>1, Peers DEF Wired, In
  <2>2. Wired(d, w)
    BY <1>1, <1>2, <1>3, <1>5 DEF Wired
  <2>3. Hosted(d, w, t, v)
    BY <1>1, <1>2, <1>5 DEF Hosted, Accepts
  <2>4. InSequence(d, w, t, l)
    BY <1>1, <1>2, <1>5 DEF InSequence, Moved
  <2>5. Gone(d, w, t, z)
    BY <1>2, <1>5, <2>1 DEF Gone
  <2>. QED
    BY <1>3, <1>4, <2>2, <2>3, <2>4, <2>5 DEF Good, Sound
<1>6. CASE Accepts(v) /\ ConnectClosed(w)
  <2>1. t.pc = "none"
    BY <1>1, <1>6 DEF Hosted, Accepts
  <2>2. Wired(d, w)
    BY <1>2, <1>3, <1>6 DEF Wired, ConnectClosed, Ends
  <2>3. Len(In(w)) = 0
    BY <1>6 DEF ConnectClosed, In
  <2>4. Hosted(d, w, t, v) /\ InSequence(d, w, t, l) /\ Gone(d, w, t, z)
    BY <1>2, <2>1, <2>3 DEF Hosted, InSequence, Gone
  <2>. QED
    BY <1>3, <1>4, <2>2, <2>4 DEF Good, Sound
<1>. QED
  BY <1>5, <1>6

LEMMA CallGood ==
  ASSUME NEW c, NEW k, NEW t, NEW l, NEW a, Session(c, k, t, l, a),
         NEW u \in BOOLEAN, NEW z \in BOOLEAN, NEW v \in BOOLEAN,
         Good(c, k, t, l, a, u, z, v),
         c.pc = "idle", NEW d,
         d.pc = "sendHeader", d.op \in Ops \cup {"CLOSE"}, d.n = c.n + 1
  PROVE  Good(d, k, t, l, a, u, z, v)
<1>1. /\ Wired(c, k) /\ Hosted(c, k, t, v)
      /\ InSequence(c, k, t, l) /\ Counted(c, l, a)
      /\ Talking(c, k, t, l, u) /\ Alone(c, k, l, u, z) /\ Gone(c, k, t, z)
  BY DEF Good, Sound
<1>2. Engaged(d) /\ Engaged(c)
  BY DEF Engaged, Exchanging
<1>3. c.n \in Nat /\ Len(l) \in Nat /\ (\A i \in 1 .. Len(l) : l[i] \in Nat)
      /\ In(k) \in Seq(Parts)
  BY SessionFields
<1>4. Wired(d, k) /\ Hosted(d, k, t, v) /\ Gone(d, k, t, z) /\ ClosedBoth(d, k)
  BY <1>1, <1>2 DEF Wired, Hosted, Gone, ClosedBoth
<1>5. InSequence(d, k, t, l)
  <2>1. \A i \in 1 .. Len(l) : l[i] < d.n /\ l[i] <= d.n
    BY <1>1, <1>3 DEF InSequence
  <2>2. \A i \in 1 .. Len(In(k)) : In(k)[i].n \in Nat
    BY <1>3, PartsAre
  <2>3. \A i \in 1 .. Len(In(k)) : In(k)[i].n <= c.n => In(k)[i].n <= d.n
    BY <2>2, <1>3
  <2>4. t.n \in Nat
    BY SessionFields
  <2>5. t.n <= c.n => t.n <= d.n
    BY <2>4, <1>3
  <2>. QED
    BY <1>1, <2>1, <2>3, <2>5 DEF InSequence
<1>6. Counted(d, l, a)
  BY <1>1, <1>3 DEF Counted, Exchanging, Ops
<1>7. Talking(d, k, t, l, u)
  <2>1. SUFFICES ASSUME k.state["mn"] # "closed" PROVE Unasked(d, k, t, u)
    BY DEF Talking
  <2>2. Unasked(c, k, t, u)
    BY <2>1, <1>1, <1>2 DEF Talking, Asked, Taking, Answering, AnsweringMore, Answered, Answer
  <2>. QED
    BY <2>2 DEF Unasked
<1>8. Alone(d, k, l, u, z)
  BY <1>1, <1>2 DEF Alone, Refused
<1>. QED
  BY <1>1, <1>4, <1>5, <1>6, <1>7, <1>8 DEF Good, Sound

(* w is k after the compute node sent p. *)
CnSent(k, p, w) ==
  /\ w.state = k.state /\ w.coming["mn"] = k.coming["mn"] /\ w.data["cn"] = k.data["cn"]
  /\ k.state["mn"] # "closed" =>
       /\ w.coming["cn"] = k.coming["cn"]
       /\ Len(In(w)) = Len(In(k)) + 1 /\ In(w)[Len(In(w))] = p
       /\ \A i \in 1 .. Len(In(k)) : In(w)[i] = In(k)[i]
  /\ k.state["mn"] = "closed" =>
       /\ w.data["mn"] = k.data["mn"]
       /\ \/ w.coming["cn"] = k.coming["cn"]
          \/ k.coming["cn"] = <<>> /\ w.coming["cn"] = <<"rst">>
          \/ k.coming["cn"] = <<"fin">> /\ w.coming["cn"] = <<"fin", "rst">>

LEMMA CnSends ==
  ASSUME NEW k \in Connections(Parts), NEW p \in Parts, NEW w, w = Sent(k, "cn", p)
  PROVE  CnSent(k, p, w)
<1>. DEFINE keeps == ~ (k.coming["cn"] \in {<<>>, <<"fin">>} /\ k.state["cn"] # "pipe")
<1>1. /\ w \in Connections(Parts) /\ w.state = k.state
      /\ k.state["mn"] # "closed" =>
           /\ w.data["mn"] = Append(k.data["mn"], p) /\ w.data["cn"] = k.data["cn"]
           /\ w.coming = k.coming
      /\ k.state["mn"] = "closed" =>
           /\ w.data = k.data /\ w.coming["mn"] = k.coming["mn"]
           /\ w.coming["cn"] =
                IF k.coming["cn"] \in {<<>>, <<"fin">>} /\ k.state["cn"] # "pipe"
                THEN Append(k.coming["cn"], "rst") ELSE k.coming["cn"]
  BY SentIs, Peers
<1>2. PICK q \in Seq(Parts) : q = k.data["mn"]
  BY SocketFields, Peers
<1>3. /\ Len(Append(q, p)) = Len(q) + 1 /\ Append(q, p)[Len(q) + 1] = p
      /\ \A i \in 1 .. Len(q) : Append(q, p)[i] = q[i]
  BY AppendProperties
<1>4. CASE k.state["mn"] # "closed"
  <2>1. w.data["mn"] = Append(q, p)
    BY <1>1, <1>2, <1>4
  <2>. QED
    BY <1>1, <1>2, <1>3, <1>4, <2>1 DEF CnSent, In
<1>5. CASE k.state["mn"] = "closed"
  <2>1. \/ w.coming["cn"] = k.coming["cn"]
        \/ k.coming["cn"] = <<>> /\ w.coming["cn"] = <<"rst">>
        \/ k.coming["cn"] = <<"fin">> /\ w.coming["cn"] = <<"fin", "rst">>
    BY <1>1, <1>5, SignalFacts
  <2>. QED
    BY <1>1, <1>5, <2>1 DEF CnSent
<1>. QED
  BY <1>4, <1>5

(* Sending never takes a connection out of its ways. *)
LEMMA CnSentWired ==
  ASSUME NEW c, NEW k \in Connections(Parts), NEW w, NEW p, CnSent(k, p, w), Wired(c, k),
         SendGoes(k, "cn"), NEW d, Engaged(d) <=> Engaged(c), d.pc # "new"
  PROVE  Wired(d, w)
<1>1. k.state["cn"] \in {"open", "fin"}
  BY DEF SendGoes
<1>2. k.state["cn"] = "fin" => k.coming["cn"] # <<"fin">>
  <2>1. <<"fin">> # <<>> /\ <<"fin">> # <<"rst">>
    BY SignalFacts
  <2>. QED
    BY <2>1, Peers DEF Wired
<1>3. CASE k.state["mn"] # "closed"
  <2>1. k.state["mn"] \notin {"fin", "reset", "pipe"} /\ w.coming["mn"] = <<>>
    BY <1>1, <1>3 DEF Wired, CnSent
  <2>2. k.state["cn"] = "open" /\ w.coming["cn"] = <<>>
    BY <1>1, <1>3 DEF Wired, CnSent
  <2>. QED
    BY <1>1, <1>3, <2>1, <2>2 DEF Wired, CnSent, Ends
<1>4. CASE k.state["mn"] = "closed"
  BY <1>1, <1>2, <1>4 DEF Wired, CnSent, Ends
<1>. QED
  BY <1>3, <1>4

LEMMA SendHeaderGood ==
  ASSUME NEW c, NEW k, NEW t, NEW l, NEW a, Session(c, k, t, l, a),
         NEW u \in BOOLEAN, NEW z \in BOOLEAN, NEW v \in BOOLEAN,
         Good(c, k, t, l, a, u, z, v),
         c.pc = "sendHeader", SendGoes(k, "cn"),
         NEW p \in Parts, p.part = "header", p.op = c.op, p.n = c.n,
         NEW d, Moved(c, d, IF c.op = "WRITE" THEN "sendPayload" ELSE "recvHeader"),
         NEW w, CnSent(k, p, w)
  PROVE  Good(d, w, t, l, a, u, z, v)
<1>1. /\ Wired(c, k) /\ Hosted(c, k, t, v)
      /\ InSequence(c, k, t, l) /\ Counted(c, l, a)
      /\ Talking(c, k, t, l, u) /\ Alone(c, k, l, u, z) /\ Gone(c, k, t, z)
  BY DEF Good, Sound
<1>2. Engaged(d) /\ Engaged(c) /\ d.pc \in {"sendPayload", "recvHeader"} /\ d.op = c.op /\ d.n = c.n
  BY DEF Engaged, Exchanging, Moved
<1>3. /\ c.n \in Nat /\ Len(l) \in Nat /\ (\A i \in 1 .. Len(l) : l[i] \in Nat)
      /\ In(k) \in Seq(Parts) /\ Out(k) \in Seq(Parts) /\ k \in Connections(Parts)
      /\ k.state["cn"] \in {"open", "fin"} /\ c.op \in WireOps /\ Out(w) = Out(k)
  BY SessionFields DEF Session, SendGoes, CnSent, Out
<1>4. Wired(d, w)
  BY <1>1, <1>2, <1>3, CnSentWired
<1>5. Hosted(d, w, t, v) /\ Gone(d, w, t, z)
  BY <1>1, <1>2 DEF Hosted, Gone, CnSent
<1>6. Counted(d, l, a)
  BY <1>1, <1>2 DEF Counted, Moved, Exchanging
<1>7. CASE k.state["mn"] # "closed"
  <2>1. Unasked(c, k, t, u)
    BY <1>7, <1>1, <1>2 DEF Talking, Asked, Taking, Answering, AnsweringMore, Answered, Answer
  <2>2. /\ Len(In(w)) = Len(In(k)) + 1 /\ In(w)[Len(In(w))] = p
        /\ \A i \in 1 .. Len(In(k)) : In(w)[i] = In(k)[i]
        /\ Len(In(k)) \in {0, 1} /\ Len(Out(k)) = 0
        /\ Len(In(k)) = 1 => In(k)[1].part = "payload" /\ u
        /\ w.state["mn"] # "closed"
    BY <1>3, <1>7, <2>1 DEF CnSent, Unasked, Left
  <2>3. Asked(d, w, t, u)
    <3>1. Waiting(t) \/ (t.pc = "none" /\ d.op = "HELLO")
      BY <2>1, <1>2 DEF Unasked
    <3>2. c.op = "WRITE" => d.pc # "recvHeader"
      BY DEF Moved
    <3>3. CASE Len(In(k)) = 0
      BY <1>2, <1>3, <2>2, <3>1, <3>2, <3>3 DEF Asked
    <3>4. CASE Len(In(k)) = 1
      BY <1>2, <1>3, <2>2, <3>1, <3>2, <3>4 DEF Asked
    <3>. QED
      BY <2>2, <3>3, <3>4
  <2>4. InSequence(d, w, t, l)
    <3>1. \A i \in 1 .. Len(l) : l[i] < d.n /\ l[i] <= d.n
      BY <1>1, <1>2, <1>3 DEF InSequence
    <3>2. t.pc # "recvPayload"
      BY <2>1 DEF Unasked, Waiting
    <3>3. \A i \in 1 .. Len(In(w)) : In(w)[i].part = "header" => i = Len(In(w)) /\ In(w)[i] = p
      BY <2>2
    <3>. QED
      BY <1>1, <1>2, <1>3, <3>1, <3>2, <3>3 DEF InSequence
  <2>5. Talking(d, w, t, l, u) /\ Alone(d, w, l, u, z)
    BY <2>2, <2>3 DEF Talking, Alone
  <2>6. ClosedBoth(d, w)
    BY <1>3, <2>2 DEF ClosedBoth
  <2>. QED
    BY <1>4, <1>5, <1>6, <2>4, <2>5, <2>6 DEF Good, Sound
<1>8. CASE k.state["mn"] = "closed"
  <2>1. In(w) = In(k) /\ w.state["mn"] = "closed" /\ In(k) = <<>> /\ Len(In(k)) = 0
    BY <1>1, <1>8, Peers DEF CnSent, In, Wired
  <2>2. InSequence(d, w, t, l)
    BY <1>1, <1>2, <1>8, <2>1 DEF InSequence, Hosted
  <2>3. Talking(d, w, t, l, u) /\ ClosedBoth(d, w)
    BY <2>1 DEF Talking, ClosedBoth
  <2>4. Len(Out(w)) = 0 /\ (z \/ Refused(c, k))
    BY <1>1, <1>2, <1>3, <1>8 DEF Alone
  <2>5. Refused(c, k) => Refused(d, w)
    BY <1>2, <1>3, <2>4 DEF Refused, Moved
  <2>6. Alone(d, w, l, u, z)
    BY <1>2, <2>4, <2>5 DEF Alone
  <2>. QED
    BY <1>4, <1>5, <1>6, <2>2, <2>3, <2>6 DEF Good, Sound
<1>. QED
  BY <1>7, <1>8

LEMMA SendPayloadGood ==
  ASSUME NEW c, NEW k, NEW t, NEW l, NEW a, Session(c, k, t, l, a),
         NEW u \in BOOLEAN, NEW z \in BOOLEAN, NEW v \in BOOLEAN,
         Good(c, k, t, l, a, u, z, v),
         c.pc = "sendPayload", SendGoes(k, "cn"),
         NEW p \in Parts, p.part = "payload",
         NEW d, Moved(c, d, "recvHeader"),
         NEW w, CnSent(k, p, w)
  PROVE  Good(d, w, t, l, a, u, z, v)
<1>1. /\ Wired(c, k) /\ Hosted(c, k, t, v)
      /\ InSequence(c, k, t, l) /\ Counted(c, l, a)
      /\ Talking(c, k, t, l, u) /\ Alone(c, k, l, u, z) /\ Gone(c, k, t, z)
  BY DEF Good, Sound
<1>2. /\ Engaged(d) /\ Engaged(c) /\ d.pc = "recvHeader" /\ d.op = "WRITE" /\ c.op = "WRITE"
      /\ d.n = c.n
  BY <1>1 DEF Engaged, Exchanging, Moved, Counted
<1>3. /\ c.n \in Nat /\ Len(l) \in Nat /\ (\A i \in 1 .. Len(l) : l[i] \in Nat)
      /\ In(k) \in Seq(Parts) /\ Out(k) \in Seq(Parts) /\ k \in Connections(Parts)
      /\ Out(w) = Out(k)
  BY SessionFields DEF Session, CnSent, Out
<1>4. Wired(d, w)
  BY <1>1, <1>2, <1>3, CnSentWired
<1>5. Hosted(d, w, t, v) /\ Gone(d, w, t, z) /\ ClosedBoth(d, w)
  BY <1>1, <1>2 DEF Hosted, Gone, CnSent, ClosedBoth
<1>6. Counted(d, l, a)
  BY <1>1, <1>2 DEF Counted, Moved, Exchanging
<1>7. \A s : Tells(c, l, s, u) => Tells(d, l, s, u) /\ s = 1 /\ u
  BY <1>2 DEF Tells
<1>8. Answer(c, k, l, u) => Answer(d, w, l, u) /\ u
  BY <1>2, <1>3, <1>7 DEF Answer
<1>9. CASE k.state["mn"] # "closed"
  <2>1. \/ Asked(c, k, t, u)
        \/ Taking(c, k, t)
        \/ Answering(c, k, t, l, u)
        \/ Answered(c, k, t, l, u)
    BY <1>9, <1>1, <1>2 DEF Talking, Unasked, AnsweringMore
  <2>2. /\ Len(In(w)) = Len(In(k)) + 1 /\ In(w)[Len(In(w))] = p
        /\ \A i \in 1 .. Len(In(k)) : In(w)[i] = In(k)[i]
        /\ w.state["mn"] # "closed" /\ Len(In(k)) \in Nat
    BY <1>3, <1>9 DEF CnSent
  <2>3. Asked(c, k, t, u) => Asked(d, w, t, u)
    <3>1. SUFFICES ASSUME Asked(c, k, t, u) PROVE Asked(d, w, t, u)
      OBVIOUS
    <3>2. PICK h \in {1, 2} :
            /\ h = 2 => In(k)[1].part = "payload" /\ u
            /\ In(k)[h].part = "header" /\ In(k)[h].op = c.op /\ In(k)[h].n = c.n
            /\ Len(In(k)) = h
      BY <1>2, <3>1 DEF Asked
    <3>3. /\ h = 2 => In(w)[1].part = "payload" /\ u
          /\ In(w)[h].part = "header" /\ In(w)[h].op = d.op /\ In(w)[h].n = d.n
          /\ Len(In(w)) = h + 1 /\ In(w)[h + 1].part = "payload"
      BY <1>2, <2>2, <3>2
    <3>. QED
      BY <1>2, <1>3, <3>1, <3>3 DEF Asked
  <2>4. Taking(c, k, t) => Taking(d, w, t)
    BY <1>2, <1>3, <2>2 DEF Taking
  <2>5. Left(In(w), u) <=> Len(In(k)) = 0 /\ u
    BY <2>2 DEF Left
  <2>6. Answering(c, k, t, l, u) => Answering(d, w, t, l, u)
    BY <1>2, <1>3, <1>7, <2>5 DEF Answering
  <2>7. Answered(c, k, t, l, u) => Answered(d, w, t, l, u)
    BY <1>2, <1>8, <2>5 DEF Answered
  <2>8. Talking(d, w, t, l, u) /\ Alone(d, w, l, u, z)
    BY <2>1, <2>2, <2>3, <2>4, <2>6, <2>7 DEF Talking, Alone
  <2>9. InSequence(d, w, t, l)
    BY <1>1, <1>2, <2>2 DEF InSequence
  <2>. QED
    BY <1>4, <1>5, <1>6, <2>8, <2>9 DEF Good, Sound
<1>10. CASE k.state["mn"] = "closed"
  <2>1. In(w) = In(k) /\ w.state["mn"] = "closed" /\ In(k) = <<>> /\ Len(In(k)) = 0
    BY <1>1, <1>10, Peers DEF CnSent, In, Wired
  <2>2. InSequence(d, w, t, l)
    BY <1>1, <1>2, <1>10, <2>1 DEF InSequence, Hosted
  <2>3. Talking(d, w, t, l, u)
    BY <2>1 DEF Talking
  <2>4. Len(Out(w)) = 0 \/ Answer(d, w, l, u)
    BY <1>1, <1>2, <1>3, <1>8, <1>10 DEF Alone
  <2>5. Alone(d, w, l, u, z)
    BY <1>1, <1>2, <1>10, <2>4 DEF Alone, Refused
  <2>. QED
    BY <1>4, <1>5, <1>6, <2>2, <2>3, <2>5 DEF Good, Sound
<1>. QED
  BY <1>9, <1>10

(* w is k with the compute node's end closed. *)
CnClosed(k, w) ==
  /\ w.state["cn"] = "closed" /\ w.data["cn"] = <<>> /\ w.coming["cn"] = <<>>
  /\ w.state["mn"] = k.state["mn"] /\ w.data["mn"] = k.data["mn"]
  /\ k.state["mn"] = "closed" => w.coming["mn"] = k.coming["mn"]
  /\ k.state["mn"] # "closed" => w.coming["mn"] \in {<<"fin">>, <<"rst">>, <<"fin", "rst">>}

LEMMA CnCloses ==
  ASSUME NEW k \in Connections(Parts), NEW w \in Closings(k, "cn", FALSE)
  PROVE  /\ w \in Connections(Parts) /\ CnClosed(k, w)
         /\ k.state["mn"] # "closed" /\ Len(Out(k)) = 0 => w.coming["mn"] = <<"fin">>
  BY ClosingsAre, Peers, ZenonT(30) DEF CnClosed, Out

LEMMA CnClosedWired ==
  ASSUME NEW c, NEW k \in Connections(Parts), NEW w, CnClosed(k, w), Wired(c, k),
         k.state["cn"] # "closed", NEW d, ~ Engaged(d), d.pc # "new"
  PROVE  Wired(d, w)
<1>1. k.state["mn"] \notin {"fin", "reset", "pipe"} /\ k.coming["mn"] = <<>>
  BY DEF Wired
<1>. QED
  BY <1>1 DEF Wired, CnClosed, Ends

(* A session that ends with its connection, or whose compute node is gone *)
LEMMA GoneGood ==
  ASSUME NEW c, NEW k, NEW t, NEW l, NEW a, Session(c, k, t, l, a),
         NEW u \in BOOLEAN, NEW z \in BOOLEAN, NEW v \in BOOLEAN,
         Good(c, k, t, l, a, u, z, v), Engaged(c),
         NEW pc \in Ended, NEW d, Moved(c, d, pc),
         pc = "closed" => k.state["mn"] = "closed",
         pc = "killed" => c.pc \in {"sendHeader", "sendPayload"} /\ SendKills(k, "cn"),
         NEW j \in Connections(Parts), j.state["mn"] = k.state["mn"], j.data["mn"] = k.data["mn"],
         j.coming["mn"] = k.coming["mn"],
         NEW w, CnClosed(j, w)
  PROVE  Good(d, w, t, l, a, u, z, v)
<1>1. /\ Wired(c, k) /\ Hosted(c, k, t, v)
      /\ InSequence(c, k, t, l) /\ Counted(c, l, a)
      /\ Talking(c, k, t, l, u) /\ Alone(c, k, l, u, z) /\ Gone(c, k, t, z)
  BY DEF Good, Sound
<1>2. /\ d.pc \in Ended /\ d.op = c.op /\ d.n = c.n
      /\ ~ Engaged(d) /\ d.pc \notin Exchanging \cup {"new", "idle"}
  BY DEF Moved, Ended, Engaged, Exchanging
<1>3. k.state["cn"] # "closed" /\ k \in Connections(Parts) /\ CnClosed(k, w)
  BY <1>1 DEF Wired, Session, CnClosed
<1>4. Wired(d, w)
  BY <1>1, <1>2, <1>3, CnClosedWired
<1>5. In(w) = In(k) /\ w.state["mn"] = k.state["mn"]
  BY <1>3 DEF CnClosed, In
<1>6. Hosted(d, w, t, v)
  BY <1>1, <1>2, <1>5 DEF Hosted
<1>7. InSequence(d, w, t, l)
  BY <1>1, <1>2, <1>5 DEF InSequence, Exchanging
<1>8. Counted(d, l, a)
  BY <1>1, <1>2 DEF Counted, Exchanging
<1>9. d.pc = "killed" => z
  <2>1. SUFFICES ASSUME d.pc = "killed" PROVE z
    OBVIOUS
  <2>2. c.pc \in {"sendHeader", "sendPayload"} /\ k.state["cn"] = "pipe"
    BY <2>1 DEF Moved, SendKills
  <2>3. k.state["mn"] = "closed"
    BY <2>2, <1>1 DEF Wired
  <2>. QED
    BY <1>1, <2>2, <2>3 DEF Alone, Refused
<1>10. Gone(d, w, t, z)
  BY <1>5, <1>9 DEF Gone, Moved
<1>11. Talking(d, w, t, l, u) /\ Alone(d, w, l, u, z) /\ ClosedBoth(d, w)
  BY <1>2 DEF Talking, Alone, ClosedBoth, Exchanging
<1>. QED
  BY <1>4, <1>6, <1>7, <1>8, <1>10, <1>11 DEF Good, Sound

(* b is a and one more answer. *)
Noted(a, b, ok, of) ==
  /\ Len(b) = Len(a) + 1
  /\ \A i \in 1 .. Len(a) : b[i] = a[i]
  /\ b[Len(b)].ok = ok /\ b[Len(b)].of = of

LEMMA Notes ==
  ASSUME NEW a \in Seq(AnswerType), NEW b, NEW op \in Ops, NEW ok \in BOOLEAN,
         NEW of \in SUBSET Nat, b = Append(a, [op |-> op, ok |-> ok, of |-> of])
  PROVE  b \in Seq(AnswerType) /\ Noted(a, b, ok, of)
<1>1. PICK r \in AnswerType : r = [op |-> op, ok |-> ok, of |-> of]
  BY DEF AnswerType, Requests
<1>2. b = Append(a, r) /\ r.ok = ok /\ r.of = of
  BY <1>1
<1>3. /\ b \in Seq(AnswerType) /\ Len(b) = Len(a) + 1 /\ b[Len(a) + 1] = r
      /\ \A i \in 1 .. Len(a) : b[i] = a[i]
  BY <1>2, AppendProperties
<1>. QED
  BY <1>2, <1>3 DEF Noted

(* An operation returns. *)
LEMMA NotedCounted ==
  ASSUME NEW c, NEW k, NEW t, NEW l, NEW a, Session(c, k, t, l, a), Counted(c, l, a),
         c.pc \in Exchanging, c.op # "HELLO",
         NEW d, Moved(c, d, "idle"),
         NEW b, NEW ok, NEW of, Noted(a, b, ok, of), ok => of = {c.n} /\ Ran(l, c.n)
  PROVE  Counted(d, l, b)
<1>1. Len(a) \in Nat /\ c.n \in Nat
  BY SessionFields
<1>2. Len(b) = c.n /\ Len(a) + 1 = c.n /\ d.n = c.n /\ d.pc = "idle"
  BY <1>1 DEF Counted, Noted, Moved
<1>3. \A i \in 1 .. Len(b) : b[i].ok => b[i].of = {i} /\ Ran(l, i)
  <2>1. SUFFICES ASSUME NEW i \in 1 .. Len(b), b[i].ok PROVE b[i].of = {i} /\ Ran(l, i)
    OBVIOUS
  <2>2. CASE i \in 1 .. Len(a)
    BY <2>1, <2>2 DEF Noted, Counted
  <2>3. CASE i = Len(b)
    BY <2>1, <2>3, <1>2 DEF Noted
  <2>. QED
    BY <2>1, <2>2, <2>3, <1>1, <1>2
<1>. QED
  BY <1>2, <1>3 DEF Counted, Exchanging

(* An operation fails, and the session goes on. *)
LEMMA FailGood ==
  ASSUME NEW c, NEW k, NEW t, NEW l, NEW a, Session(c, k, t, l, a),
         NEW u \in BOOLEAN, NEW z \in BOOLEAN, NEW v \in BOOLEAN,
         Good(c, k, t, l, a, u, z, v),
         c.pc \in Exchanging, c.op \in Ops,
         \/ SendFails(k, "cn")
         \/ AtEnd(k, "cn"),
         NEW d, Moved(c, d, "idle"),
         NEW b, Noted(a, b, FALSE, {}),
         NEW w, w.data = k.data, w.coming = k.coming, w.state["mn"] = k.state["mn"],
         w.state["cn"] = IF k.state["cn"] = "reset" THEN "pipe" ELSE k.state["cn"]
  PROVE  Good(d, w, t, l, b, u, z, v)
<1>1. /\ Wired(c, k) /\ Hosted(c, k, t, v)
      /\ InSequence(c, k, t, l) /\ Counted(c, l, a)
      /\ Talking(c, k, t, l, u) /\ Alone(c, k, l, u, z) /\ Gone(c, k, t, z)
  BY DEF Good, Sound
<1>2. Engaged(d) /\ Engaged(c) /\ d.pc = "idle" /\ d.op = c.op /\ d.n = c.n /\ c.op \notin {"HELLO", "CLOSE"}
  BY DEF Engaged, Exchanging, Moved, Ops
<1>3. k.state["cn"] \in {"fin", "reset", "pipe"} /\ (Out(k) = <<>> \/ k.state["cn"] = "reset")
  BY DEF SendFails, AtEnd, Out
<1>4. k.state["mn"] = "closed" /\ w.state["mn"] = "closed"
  BY <1>1, <1>3 DEF Wired
<1>5. In(w) = In(k) /\ Out(w) = Out(k)
  BY DEF In, Out
<1>6. Wired(d, w)
  <2>1. w.data["cn"] = k.data["cn"] /\ w.data["mn"] = k.data["mn"]
        /\ w.coming["cn"] = k.coming["cn"] /\ w.coming["mn"] = k.coming["mn"]
    OBVIOUS
  <2>. QED
    BY <1>1, <1>2, <1>3, <1>4, <2>1 DEF Wired, Ends
<1>7. Hosted(d, w, t, v) /\ Gone(d, w, t, z) /\ ClosedBoth(d, w) /\ Talking(d, w, t, l, u)
  BY <1>1, <1>2, <1>4 DEF Hosted, Gone, ClosedBoth, Talking
<1>8. InSequence(d, w, t, l)
  BY <1>1, <1>2, <1>5 DEF InSequence
<1>9. Counted(d, l, b)
  BY <1>1, <1>2, NotedCounted
<1>10. Alone(d, w, l, u, z)
  <2>1. z
    BY <1>1, <1>2, <1>4 DEF Alone, Refused
  <2>2. Len(Out(w)) = 0 \/ w.state["cn"] = "pipe"
    BY <1>3, <1>5
  <2>. QED
    BY <1>2, <2>1, <2>2 DEF Alone
<1>. QED
  BY <1>6, <1>7, <1>8, <1>9, <1>10 DEF Good, Sound

(* w is k after the compute node read a part. *)
CnGot(k, w) ==
  /\ w.state = k.state /\ w.coming = k.coming /\ In(w) = In(k)
  /\ w.data["mn"] = k.data["mn"]
  /\ Len(Out(k)) > 0 /\ Len(Out(w)) = Len(Out(k)) - 1
  /\ \A i \in 1 .. Len(Out(w)) : Out(w)[i] = Out(k)[i + 1]

LEMMA CnReceives ==
  ASSUME NEW k \in Connections(Parts), CanReceive(k, "cn"), NEW w, w = Received(k, "cn")
  PROVE  w \in Connections(Parts) /\ CnGot(k, w) /\ Head(k.data["cn"]) = Out(k)[1]
<1>1. /\ w \in Connections(Parts) /\ w.state = k.state /\ w.coming = k.coming
      /\ w.data["cn"] = Tail(k.data["cn"]) /\ w.data["mn"] = k.data["mn"]
  BY ReceivedIs, Peers
<1>2. PICK q \in Seq(Parts) : q = k.data["cn"] /\ q # <<>>
  BY SocketFields, Peers DEF CanReceive
<1>3. /\ Len(Tail(q)) = Len(q) - 1 /\ Len(q) > 0 /\ Head(q) = q[1]
      /\ \A i \in 1 .. Len(Tail(q)) : Tail(q)[i] = q[i + 1]
  BY <1>2, HeadTailProperties
<1>. QED
  BY <1>1, <1>2, <1>3 DEF CnGot, In, Out

LEMMA CnGotWired ==
  ASSUME NEW c, NEW k \in Connections(Parts), NEW w, CnGot(k, w), Wired(c, k), Engaged(c),
         NEW d, Engaged(d)
  PROVE  Wired(d, w)
<1>1. d.pc # "new" /\ k.state["cn"] # "closed"
  BY DEF Engaged, Exchanging, Wired
<1>. QED
  BY <1>1 DEF Wired, CnGot, Ends

WentWell(p) == p.status = 0

LEMMA AcksAre ==
  ASSUME NEW n \in Nat, NEW p
  PROVE  /\ p = Header("ACK", n, 0) => WentWell(p) /\ p.n = n
         /\ p = Header("ACK", n, 1) => ~ WentWell(p) /\ p.n = n
         /\ \A s \in {0, 1} : p = Header("ACK", n, s) => (WentWell(p) <=> s = 0) /\ p.n = n
         /\ p = Payload(n) => p.n = n
  BY DEF Header, Payload, WentWell

(* What a header that can be read is *)
LEMMA HeaderRead ==
  ASSUME NEW c, NEW k, NEW t, NEW l, NEW a, Session(c, k, t, l, a),
         NEW u \in BOOLEAN, NEW z \in BOOLEAN, NEW v \in BOOLEAN,
         Good(c, k, t, l, a, u, z, v),
         c.pc = "recvHeader", Len(Out(k)) > 0
  PROVE  \/ /\ Answer(c, k, l, u) /\ ((Waiting(t) /\ Left(In(k), u)) \/ k.state["mn"] = "closed")
         \/ /\ c.op = "READ" /\ Ran(l, c.n) /\ Len(Out(k)) = 1 /\ Out(k)[1] = Header("ACK", c.n, 0)
            /\ AnsweringMore(c, k, t, l, u) \/ k.state["mn"] = "closed"
<1>1. Talking(c, k, t, l, u) /\ Alone(c, k, l, u, z)
  BY DEF Good, Sound
<1>2. Engaged(c) /\ Len(Out(k)) # 0
  <2>1. Out(k) \in Seq(Parts)
    BY SessionFields
  <2>. QED
    BY <2>1 DEF Engaged, Exchanging
<1>3. CASE k.state["mn"] # "closed"
  <2>1. AnsweringMore(c, k, t, l, u) \/ Answered(c, k, t, l, u)
    BY <1>1, <1>2, <1>3 DEF Talking, Unasked, Asked, Taking, Answering
  <2>. QED
    BY <2>1 DEF AnsweringMore, Answered
<1>4. CASE k.state["mn"] = "closed"
  BY <1>1, <1>2, <1>4 DEF Alone
<1>. QED
  BY <1>3, <1>4

LEMMA HeaderGood ==
  ASSUME NEW c, NEW k, NEW t, NEW l, NEW a, Session(c, k, t, l, a),
         NEW u \in BOOLEAN, NEW z \in BOOLEAN, NEW v \in BOOLEAN,
         Good(c, k, t, l, a, u, z, v),
         c.pc = "recvHeader", NEW w, CnGot(k, w),
         c.op = "READ", WentWell(Out(k)[1]),
         NEW d, d.pc = "recvPayload", d.op = c.op, d.n = c.n, d.got = Out(k)[1].n
  PROVE  Good(d, w, t, l, a, u, z, v)
<1>1. /\ Wired(c, k) /\ Hosted(c, k, t, v)
      /\ InSequence(c, k, t, l) /\ Counted(c, l, a)
      /\ Talking(c, k, t, l, u) /\ Alone(c, k, l, u, z) /\ Gone(c, k, t, z)
  BY DEF Good, Sound
<1>2. Engaged(d) /\ Engaged(c) /\ d.pc = "recvPayload" /\ d.op = "READ" /\ d.n = c.n
  BY DEF Engaged, Exchanging
<1>3. /\ In(w) = In(k) /\ w.state = k.state /\ Len(Out(k)) > 0 /\ Len(Out(w)) = Len(Out(k)) - 1
      /\ (\A i \in 1 .. Len(Out(w)) : Out(w)[i] = Out(k)[i + 1]) /\ c.n \in Nat
      /\ Len(Out(k)) \in Nat
  BY SessionFields DEF CnGot
<1>4. \/ /\ Len(Out(k)) = 2 /\ Out(k)[2] = Payload(c.n) /\ Waiting(t) /\ Left(In(k), u)
      \/ /\ Len(Out(k)) = 2 /\ Out(k)[2] = Payload(c.n) /\ k.state["mn"] = "closed"
      \/ Len(Out(k)) = 1 /\ (AnsweringMore(c, k, t, l, u) \/ k.state["mn"] = "closed")
  <2>1. CASE Answer(c, k, l, u) /\ ((Waiting(t) /\ Left(In(k), u)) \/ k.state["mn"] = "closed")
    <3>1. PICK s \in {0, 1} :
            /\ Out(k)[1] = Header("ACK", c.n, s)
            /\ s = 0 => Len(Out(k)) = 2 /\ Out(k)[2] = Payload(c.n)
      BY <2>1 DEF Answer
    <3>2. s = 0
      BY <1>3, <3>1, AcksAre
    <3>. QED
      BY <2>1, <3>1, <3>2
  <2>2. CASE Len(Out(k)) = 1 /\ (AnsweringMore(c, k, t, l, u) \/ k.state["mn"] = "closed")
    BY <2>2
  <2>3. Len(Out(k)) > 0
    BY <1>3
  <2>. QED
    BY <2>1, <2>2, <2>3, HeaderRead
<1>5. Ran(l, c.n) /\ Out(k)[1].n = c.n
  <2>1. CASE Answer(c, k, l, u)
    <3>1. PICK s \in {0, 1} : Out(k)[1] = Header("ACK", c.n, s) /\ Tells(c, l, s, u)
      BY <2>1 DEF Answer
    <3>2. s = 0 /\ Out(k)[1].n = c.n
      BY <1>3, <3>1, AcksAre
    <3>. QED
      BY <3>1, <3>2 DEF Tells, Ops
  <2>2. CASE Ran(l, c.n) /\ Out(k)[1] = Header("ACK", c.n, 0)
    BY <1>3, <2>2, AcksAre
  <2>. QED
    BY <1>3, HeaderRead, <2>1, <2>2
<1>6. Wired(d, w)
  BY <1>1, <1>2, CnGotWired DEF Session
<1>7. Hosted(d, w, t, v) /\ Gone(d, w, t, z) /\ ClosedBoth(d, w) /\ InSequence(d, w, t, l)
  BY <1>1, <1>2, <1>3 DEF Hosted, Gone, ClosedBoth, InSequence
<1>8. Counted(d, l, a)
  BY <1>1, <1>2, <1>5 DEF Counted, Exchanging
<1>9. Len(Out(k)) = 2 /\ Out(k)[2] = Payload(c.n) => Answer(d, w, l, u)
  BY <1>2, <1>3 DEF Answer
<1>10. AnsweringMore(c, k, t, l, u) => AnsweringMore(d, w, t, l, u)
  <2>1. AnsweringMore(c, k, t, l, u) => Len(Out(k)) = 1
    BY <1>3 DEF AnsweringMore
  <2>2. Len(Out(k)) = 1 => Len(Out(w)) = 0
    BY <1>3
  <2>. QED
    BY <1>2, <1>3, <2>1, <2>2 DEF AnsweringMore
<1>11. Talking(d, w, t, l, u)
  BY <1>2, <1>3, <1>4, <1>9, <1>10 DEF Talking, Answered
<1>12. Alone(d, w, l, u, z)
  <2>1. SUFFICES ASSUME k.state["mn"] = "closed"
                PROVE  (Len(Out(w)) = 0 \/ Answer(d, w, l, u)) /\ z
    BY <1>2, <1>3 DEF Alone
  <2>2. z
    BY <1>1, <1>2, <2>1 DEF Alone, Refused
  <2>. QED
    BY <1>3, <1>4, <1>9, <2>2
<1>. QED
  BY <1>6, <1>7, <1>8, <1>11, <1>12 DEF Good, Sound

(* Who reads the answer of a HELLO or CLOSE: it went well, and CLOSE ends  *)
(* the connection on both sides.                                           *)
LEMMA LastHeader ==
  ASSUME NEW c, NEW k, NEW t, NEW l, NEW a, Session(c, k, t, l, a),
         NEW u \in BOOLEAN, NEW z \in BOOLEAN, NEW v \in BOOLEAN,
         Good(c, k, t, l, a, u, z, v),
         c.pc = "recvHeader", Len(Out(k)) > 0
  PROVE  /\ c.op = "HELLO" => WentWell(Out(k)[1])
         /\ c.op = "CLOSE" => k.state["mn"] = "closed"
<1>1. ClosedBoth(c, k)
  BY DEF Good
<1>2. c.op = "HELLO" => WentWell(Out(k)[1])
  <2>1. SUFFICES ASSUME c.op = "HELLO" PROVE WentWell(Out(k)[1])
    OBVIOUS
  <2>2. Answer(c, k, l, u)
    BY <2>1, HeaderRead
  <2>3. PICK s \in {0, 1} : Out(k)[1] = Header("ACK", c.n, s) /\ Tells(c, l, s, u)
    BY <2>2 DEF Answer
  <2>4. s = 0
    BY <2>1, <2>3 DEF Tells
  <2>. QED
    BY <2>3, <2>4, AcksAre, SessionFields
<1>. QED
  BY <1>1, <1>2 DEF ClosedBoth

(* An exchange ends with its answer read. *)
LEMMA ReturnGood ==
  ASSUME NEW c, NEW k, NEW t, NEW l, NEW a, Session(c, k, t, l, a),
         NEW u \in BOOLEAN, NEW z \in BOOLEAN, NEW v \in BOOLEAN,
         Good(c, k, t, l, a, u, z, v),
         c.pc \in {"recvHeader", "recvPayload"}, c.op # "CLOSE",
         NEW w, CnGot(k, w), Len(Out(k)) = 1,
         k.state["mn"] # "closed" => Waiting(t) /\ Left(In(k), u),
         NEW d, Moved(c, d, "idle"),
         NEW b, Counted(d, l, b)
  PROVE  Good(d, w, t, l, b, u, z, v)
<1>1. /\ Wired(c, k) /\ Hosted(c, k, t, v)
      /\ InSequence(c, k, t, l) /\ Counted(c, l, a)
      /\ Talking(c, k, t, l, u) /\ Alone(c, k, l, u, z) /\ Gone(c, k, t, z)
  BY DEF Good, Sound
<1>2. Engaged(d) /\ Engaged(c) /\ d.pc = "idle" /\ d.op = c.op /\ d.n = c.n
  BY DEF Engaged, Exchanging, Moved
<1>3. In(w) = In(k) /\ w.state = k.state /\ Len(Out(w)) = 0
  BY DEF CnGot
<1>4. Wired(d, w)
  BY <1>1, <1>2, CnGotWired DEF Session
<1>5. Hosted(d, w, t, v) /\ Gone(d, w, t, z) /\ ClosedBoth(d, w) /\ InSequence(d, w, t, l)
  BY <1>1, <1>2, <1>3 DEF Hosted, Gone, ClosedBoth, InSequence
<1>6. Talking(d, w, t, l, u)
  BY <1>2, <1>3 DEF Talking, Unasked
<1>7. Alone(d, w, l, u, z)
  <2>1. k.state["mn"] = "closed" => z
    BY <1>1, <1>2 DEF Alone, Refused
  <2>. QED
    BY <1>2, <1>3, <2>1 DEF Alone
<1>. QED
  BY <1>4, <1>5, <1>6, <1>7 DEF Good, Sound

(* Only operations are noted. *)
NotedIf(c, a, b, p) ==
  IF c.op = "HELLO" THEN b = a ELSE Noted(a, b, WentWell(p), {p.n})

(* ... of an operation *)
LEMMA AnswerGood ==
  ASSUME NEW c, NEW k, NEW t, NEW l, NEW a, Session(c, k, t, l, a),
         NEW u \in BOOLEAN, NEW z \in BOOLEAN, NEW v \in BOOLEAN,
         Good(c, k, t, l, a, u, z, v),
         c.pc = "recvHeader", NEW w, CnGot(k, w),
         ~ (c.op = "READ" /\ WentWell(Out(k)[1])), c.op # "CLOSE",
         NEW d, Moved(c, d, "idle"), NEW b, NotedIf(c, a, b, Out(k)[1])
  PROVE  Good(d, w, t, l, b, u, z, v)
<1>1. Len(Out(k)) > 0 /\ c.n \in Nat /\ Counted(c, l, a) /\ c.op \in WireOps
  BY SessionFields DEF CnGot, Good, Sound
<1>2. Answer(c, k, l, u) /\ ((Waiting(t) /\ Left(In(k), u)) \/ k.state["mn"] = "closed")
  BY <1>1, HeaderRead, AcksAre
<1>3. PICK s \in {0, 1} :
        /\ Out(k)[1] = Header("ACK", c.n, s) /\ Tells(c, l, s, u)
        /\ IF c.op = "READ" /\ s = 0 THEN Len(Out(k)) = 2 ELSE Len(Out(k)) = 1
  BY <1>2 DEF Answer
<1>4. (WentWell(Out(k)[1]) <=> s = 0) /\ Out(k)[1].n = c.n /\ Len(Out(k)) = 1
  BY <1>1, <1>3, AcksAre
<1>5. Counted(d, l, b)
  <2>1. CASE c.op = "HELLO"
    BY <1>1, <2>1 DEF NotedIf, Counted, Moved, Exchanging
  <2>2. CASE c.op # "HELLO"
    <3>1. c.op \in Ops
      BY <2>2, <1>1 DEF WireOps
    <3>2. WentWell(Out(k)[1]) => {Out(k)[1].n} = {c.n} /\ Ran(l, c.n)
      BY <1>3, <1>4, <3>1 DEF Tells
    <3>3. Noted(a, b, WentWell(Out(k)[1]), {Out(k)[1].n})
      BY <2>2 DEF NotedIf
    <3>4. c.pc \in Exchanging
      BY DEF Exchanging
    <3>. QED
      BY <1>1, <2>2, <3>2, <3>3, <3>4, NotedCounted
  <2>. QED
    BY <2>1, <2>2
<1>. QED
  BY <1>2, <1>4, <1>5, ReturnGood

(* ... of a READ that went well *)
NotedBoth(c, a, b, p) == Noted(a, b, TRUE, {c.got, p.n})

LEMMA PayloadGood ==
  ASSUME NEW c, NEW k, NEW t, NEW l, NEW a, Session(c, k, t, l, a),
         NEW u \in BOOLEAN, NEW z \in BOOLEAN, NEW v \in BOOLEAN,
         Good(c, k, t, l, a, u, z, v),
         c.pc = "recvPayload", NEW w, CnGot(k, w),
         NEW d, Moved(c, d, "idle"), NEW b,
         NotedBoth(c, a, b, Out(k)[1])
  PROVE  Good(d, w, t, l, b, u, z, v)
<1>1. /\ Talking(c, k, t, l, u) /\ Alone(c, k, l, u, z) /\ Counted(c, l, a)
      /\ Len(Out(k)) > 0 /\ c.n \in Nat /\ Engaged(c) /\ Len(Out(k)) \in Nat
  BY SessionFields DEF Good, Sound, CnGot, Engaged, Exchanging
<1>2. Answer(c, k, l, u) /\ (k.state["mn"] # "closed" => Waiting(t) /\ Left(In(k), u))
  <2>1. CASE k.state["mn"] # "closed"
    <3>1. Answered(c, k, t, l, u)
      BY <1>1, <2>1 DEF Talking, Unasked, Asked, Taking, Answering, AnsweringMore
    <3>. QED
      BY <3>1 DEF Answered
  <2>2. CASE k.state["mn"] = "closed"
    BY <1>1, <2>2 DEF Alone
  <2>. QED
    BY <2>1, <2>2
<1>3. Len(Out(k)) = 1 /\ Out(k)[1].n = c.n
  BY <1>1, <1>2, AcksAre DEF Answer
<1>4. c.got = c.n /\ Ran(l, c.n) /\ c.op = "READ"
  BY <1>1 DEF Counted
<1>5. Counted(d, l, b)
  <2>1. Noted(a, b, TRUE, {c.n})
    <3>1. {c.got, Out(k)[1].n} = {c.n}
      BY <1>3, <1>4
    <3>. QED
      BY <3>1 DEF NotedBoth
  <2>2. c.pc \in Exchanging
    BY DEF Exchanging
  <2>. QED
    BY <1>1, <1>4, <2>1, <2>2, NotedCounted
<1>. QED
  BY <1>2, <1>3, <1>4, <1>5, ReturnGood

-----------------------------------------------------------------------------
(* w is k with the memory node's end closed. *)
MnClosed(k, w) ==
  /\ w.state["mn"] = "closed" /\ w.data["mn"] = <<>> /\ w.coming["mn"] = <<>>
  /\ w.state["cn"] = k.state["cn"] /\ w.data["cn"] = k.data["cn"]
  /\ k.state["cn"] = "closed" => w.coming["cn"] = k.coming["cn"]
  /\ k.state["cn"] # "closed" => w.coming["cn"] \in {<<"fin">>, <<"rst">>, <<"fin", "rst">>}

LEMMA MnCloses ==
  ASSUME NEW k \in Connections(Parts), NEW unread \in BOOLEAN, NEW w \in Closings(k, "mn", unread)
  PROVE  /\ w \in Connections(Parts) /\ MnClosed(k, w)
         /\ ~ unread /\ k.state["cn"] # "closed" /\ Len(In(k)) = 0 => w.coming["cn"] = <<"fin">>
  BY ClosingsAre, Peers DEF MnClosed, In

(* A thread ends, or a connection is closed that no thread has: who still  *)
(* uses it has asked to close, was not taken on, or there is a cause.      *)
LEMMA EndGood ==
  ASSUME NEW c, NEW k, NEW t, NEW l, NEW a, Session(c, k, t, l, a),
         NEW u \in BOOLEAN, NEW z \in BOOLEAN, NEW v \in BOOLEAN,
         NEW z2 \in BOOLEAN, NEW v2 \in BOOLEAN, z => z2, v2 => v,
         Sound(c, k, t, l, a, u, z, v),
         k.state["mn"] # "closed", NEW w, MnClosed(k, w),
         NEW x, x.pc = "closed" \/ (x = t /\ t.pc = "none" /\ ~ v2),
         Engaged(c) => \/ z2
                       \/ c.op = "CLOSE" /\ c.pc = "recvHeader"
                       \/ t.pc = "none" /\ (Len(In(k)) = 0 => w.coming["cn"] = <<"fin">>)
  PROVE  Good(c, w, x, l, a, u, z2, v2)
<1>1. /\ Wired(c, k) /\ Hosted(c, k, t, v)
      /\ InSequence(c, k, t, l) /\ Counted(c, l, a)
      /\ Talking(c, k, t, l, u) /\ Alone(c, k, l, u, z) /\ Gone(c, k, t, z)
  BY DEF Sound
<1>2. c.pc # "new" /\ k.state["cn"] \notin {"fin", "reset", "pipe"} /\ k.coming["cn"] = <<>>
      /\ k.state["cn"] \in SocketStates
  BY <1>1, SessionFields DEF Wired
<1>3. /\ Out(w) = Out(k) /\ In(w) = <<>> /\ w.state["mn"] = "closed"
      /\ w.state["cn"] = k.state["cn"] /\ w.state["cn"] \in {"open", "closed"}
  BY <1>2 DEF MnClosed, In, Out, SocketStates
<1>4. Wired(c, w)
  BY <1>1, <1>2 DEF Wired, MnClosed, Ends
<1>5. x.pc \in {"none", "closed"}
  OBVIOUS
<1>6. Hosted(c, w, x, v2) /\ InSequence(c, w, x, l) /\ Gone(c, w, x, z2) /\ ClosedBoth(c, w)
  BY <1>1, <1>2, <1>3, <1>5 DEF Hosted, InSequence, Gone, ClosedBoth
<1>7. Talking(c, w, x, l, u)
  BY <1>3 DEF Talking
<1>8. ASSUME Engaged(c)
      PROVE  /\ c.pc \in {"idle", "sendHeader"} => Len(Out(k)) = 0
             /\ c.pc \in {"sendPayload", "recvHeader", "recvPayload"} =>
                  \/ Len(Out(k)) = 0
                  \/ Answer(c, k, l, u)
                  \/ /\ c.pc = "recvHeader" /\ c.op = "READ" /\ Ran(l, c.n)
                     /\ Len(Out(k)) = 1 /\ Out(k)[1] = Header("ACK", c.n, 0)
             /\ t.pc = "none" => /\ c.op = "HELLO" /\ Len(Out(k)) = 0
                                 /\ c.pc = "recvHeader" \/ (c.pc = "sendHeader" /\ Len(In(k)) = 0)
  <2>1. CASE Unasked(c, k, t, u)
    BY <2>1 DEF Unasked, Waiting
  <2>2. CASE Asked(c, k, t, u)
    <3>1. c.op = "HELLO" => c.pc # "sendPayload"
      BY <1>1 DEF Counted
    <3>. QED
      BY <2>2, <3>1 DEF Asked, Waiting
  <2>3. CASE Taking(c, k, t)
    BY <2>3 DEF Taking
  <2>4. CASE Answering(c, k, t, l, u)
    BY <2>4 DEF Answering
  <2>5. CASE AnsweringMore(c, k, t, l, u)
    BY <2>5 DEF AnsweringMore
  <2>6. CASE Answered(c, k, t, l, u)
    <3>1. c.pc \in {"sendPayload", "recvHeader", "recvPayload"} /\ Answer(c, k, l, u) /\ t.pc # "none"
      BY <2>6 DEF Answered, Waiting, Answer
    <3>. QED
      BY <3>1
  <2>. QED
    BY <1>1, <1>8, <2>1, <2>2, <2>3, <2>4, <2>5, <2>6 DEF Talking
<1>9. Answer(c, k, l, u) => Answer(c, w, l, u)
  BY <1>3 DEF Answer
<1>10. Alone(c, w, l, u, z2)
  <2>1. SUFFICES ASSUME Engaged(c) PROVE Alone(c, w, l, u, z2)
    BY DEF Alone
  <2>2. z2 \/ Refused(c, w) \/ (c.op = "CLOSE" /\ c.pc = "recvHeader")
    <3>1. SUFFICES ASSUME t.pc = "none", Len(In(k)) = 0 => w.coming["cn"] = <<"fin">>
                   PROVE  Refused(c, w)
      BY <2>1
    <3>2. w.state["cn"] = "open"
      BY <1>1, <1>3, <2>1 DEF Wired
    <3>. QED
      BY <1>3, <1>8, <2>1, <3>1, <3>2 DEF Refused
  <2>. QED
    BY <1>3, <1>8, <1>9, <2>1, <2>2 DEF Alone
<1>11. Counted(c, l, a)
  BY <1>1
<1>. QED
  BY <1>4, <1>6, <1>7, <1>10, <1>11 DEF Good, Sound

Denies(v) == ~ v

(* ... when the process ends, or listens no more *)
LEMMA CastOff ==
  ASSUME NEW c, NEW k, NEW t, NEW l, NEW a, Session(c, k, t, l, a),
         NEW u \in BOOLEAN, NEW z \in BOOLEAN, NEW v \in BOOLEAN,
         NEW y \in BOOLEAN, NEW f \in BOOLEAN, Accepts(y), Denies(f),
         Good(c, k, t, l, a, u, z, v), k.state["mn"] # "closed",
         NEW w, MnClosed(k, w), NEW x, x.pc = "closed" \/ (x = t /\ t.pc = "none")
  PROVE  Good(c, w, x, l, a, u, y, f)
<1>1. Sound(c, k, t, l, a, u, z, v)
  BY DEF Good
<1>2. (z => y) /\ (f => v)
  BY DEF Accepts, Denies
<1>3. x.pc = "closed" \/ (x = t /\ t.pc = "none" /\ ~ f)
  BY DEF Denies
<1>4. Engaged(c) => \/ y
                    \/ c.op = "CLOSE" /\ c.pc = "recvHeader"
                    \/ t.pc = "none" /\ (Len(In(k)) = 0 => w.coming["cn"] = <<"fin">>)
  BY DEF Accepts
<1>. QED
  BY <1>1, <1>2, <1>3, <1>4, EndGood

(* The threads of connections that were closed before end with the process. *)
LEMMA EndedGood ==
  ASSUME NEW c, NEW k, NEW t, NEW l, NEW a, Session(c, k, t, l, a),
         NEW u \in BOOLEAN, NEW z \in BOOLEAN, NEW v \in BOOLEAN,
         NEW y \in BOOLEAN, NEW f \in BOOLEAN, Accepts(y), Denies(f),
         Good(c, k, t, l, a, u, z, v), k.state["mn"] = "closed",
         NEW x, x.pc = "closed"
  PROVE  Good(c, k, x, l, a, u, y, f)
<1>0. (u => u) /\ (z => y) /\ (v => v)
  BY DEF Accepts
<1>1. Good(c, k, t, l, a, u, y, v)
  BY <1>0, Weaker
<1>2. /\ Wired(c, k) /\ Hosted(c, k, t, v)
      /\ InSequence(c, k, t, l) /\ Counted(c, l, a)
      /\ Alone(c, k, l, u, y) /\ Gone(c, k, t, y)
  BY <1>1 DEF Good, Sound
<1>3. Hosted(c, k, x, f) /\ InSequence(c, k, x, l) /\ Gone(c, k, x, y) /\ ClosedBoth(c, k)
      /\ Talking(c, k, x, l, u)
  <2>1. Len(In(k)) = 0
    BY <1>2, Peers DEF Wired, In
  <2>. QED
    BY <1>2, <2>1 DEF Denies, Hosted, InSequence, Gone, ClosedBoth, Talking
<1>. QED
  BY <1>2, <1>3 DEF Good, Sound

(* w is k after the memory node read a part. *)
MnGot(k, w) ==
  /\ w.state = k.state /\ w.coming = k.coming /\ Out(w) = Out(k)
  /\ w.data["cn"] = k.data["cn"]
  /\ Len(In(k)) > 0 /\ Len(In(w)) = Len(In(k)) - 1
  /\ \A i \in 1 .. Len(In(w)) : In(w)[i] = In(k)[i + 1]

LEMMA MnReceives ==
  ASSUME NEW k \in Connections(Parts), CanReceive(k, "mn"), NEW w, w = Received(k, "mn")
  PROVE  /\ w \in Connections(Parts) /\ MnGot(k, w)
         /\ Head(k.data["mn"]) = In(k)[1] /\ In(k)[1] \in Parts
<1>1. /\ w \in Connections(Parts) /\ w.state = k.state /\ w.coming = k.coming
      /\ w.data["mn"] = Tail(k.data["mn"]) /\ w.data["cn"] = k.data["cn"]
  BY ReceivedIs, Peers
<1>2. PICK q \in Seq(Parts) : q = k.data["mn"] /\ q # <<>>
  BY SocketFields, Peers DEF CanReceive
<1>3. /\ Len(Tail(q)) = Len(q) - 1 /\ Len(q) > 0 /\ Head(q) = q[1]
      /\ \A i \in 1 .. Len(Tail(q)) : Tail(q)[i] = q[i + 1]
  BY <1>2, HeadTailProperties
<1>4. q[1] \in Parts
  BY <1>3
<1>. QED
  BY <1>1, <1>2, <1>3, <1>4 DEF MnGot, In, Out

LEMMA MnGotWired ==
  ASSUME NEW c, NEW k \in Connections(Parts), NEW w, MnGot(k, w), Wired(c, k),
         k.state["mn"] # "closed"
  PROVE  Wired(c, w)
  BY DEF Wired, MnGot, Ends

(* The thread looks for the next request. *)
LEMMA ProceedGood ==
  ASSUME NEW c, NEW k, NEW t, NEW l, NEW a, Session(c, k, t, l, a),
         NEW u \in BOOLEAN, NEW z \in BOOLEAN, NEW v \in BOOLEAN,
         Good(c, k, t, l, a, u, z, v), t.pc = "check",
         NEW x, x.pc = "recv"
  PROVE  Good(c, k, x, l, a, u, z, v)
<1>1. /\ Wired(c, k) /\ Hosted(c, k, t, v)
      /\ InSequence(c, k, t, l) /\ Counted(c, l, a)
      /\ Talking(c, k, t, l, u) /\ Alone(c, k, l, u, z) /\ Gone(c, k, t, z) /\ ClosedBoth(c, k)
  BY DEF Good, Sound
<1>2. Waiting(x) /\ Waiting(t) /\ x.pc = "recv"
  BY DEF Waiting
<1>3. Hosted(c, k, x, v) /\ InSequence(c, k, x, l) /\ Gone(c, k, x, z)
  BY <1>1, <1>2 DEF Hosted, InSequence, Gone
<1>4. Talking(c, k, x, l, u)
  BY <1>1, <1>2 DEF Talking, Unasked, Asked, Taking, Answering, AnsweringMore, Answered
<1>. QED
  BY <1>1, <1>3, <1>4 DEF Good, Sound

(* A header that is read is that of the one request under way. *)
LEMMA RequestRead ==
  ASSUME NEW c, NEW k, NEW t, NEW l, NEW a, Session(c, k, t, l, a),
         NEW u \in BOOLEAN, NEW z \in BOOLEAN, NEW v \in BOOLEAN,
         Good(c, k, t, l, a, u, z, v), t.pc = "recv",
         NEW w, MnGot(k, w), In(k)[1].part = "header"
  PROVE  /\ k.state["mn"] # "closed" /\ c.pc \notin {"new", "closed"}
         /\ \A i \in 1 .. Len(In(w)) : In(w)[i].part # "header"
         /\ In(k)[1].op \in WireOps /\ In(k)[1].n \in Nat /\ In(k)[1].n <= c.n
         /\ \A j \in 1 .. Len(l) : l[j] < In(k)[1].n
         /\ Engaged(c) =>
              /\ Asked(c, k, t, u) /\ c.op = In(k)[1].op /\ c.n = In(k)[1].n
              /\ c.pc \in {"sendPayload", "recvHeader"}
              /\ IF c.op = "WRITE" /\ c.pc = "recvHeader"
                 THEN Len(In(w)) = 1 /\ In(w)[1].part = "payload"
                 ELSE Len(In(w)) = 0
<1>1. /\ Wired(c, k) /\ Hosted(c, k, t, v)
      /\ InSequence(c, k, t, l)
      /\ Talking(c, k, t, l, u) /\ Gone(c, k, t, z)
  BY DEF Good, Sound
<1>2. /\ Len(In(k)) \in Nat /\ Len(In(k)) > 0 /\ Len(In(w)) = Len(In(k)) - 1
      /\ (\A i \in 1 .. Len(In(w)) : In(w)[i] = In(k)[i + 1])
      /\ In(k)[1] \in Parts /\ 1 \in 1 .. Len(In(k))
  BY SessionFields DEF MnGot
<1>3. k.state["mn"] # "closed"
  BY <1>1 DEF Hosted
<1>4. c.pc \notin {"new", "closed"}
  BY <1>1, <1>2, <1>3 DEF Wired, Gone
<1>5. In(k)[1].n \in Nat /\ "header" # "payload"
  BY <1>2, PartsAre
<1>6. /\ In(k)[1].op \in WireOps /\ In(k)[1].n <= c.n
      /\ \A j \in 1 .. Len(l) : l[j] < In(k)[1].n
      /\ \A j \in 1 .. Len(In(k)) : In(k)[j].part = "header" => 1 = j
  BY <1>1, <1>2 DEF InSequence
<1>7. \A i \in 1 .. Len(In(w)) : In(w)[i].part # "header"
  <2>1. SUFFICES ASSUME NEW i \in 1 .. Len(In(w)) PROVE In(k)[i + 1].part # "header"
    BY <1>2
  <2>2. i + 1 \in 1 .. Len(In(k)) /\ i + 1 # 1
    BY <1>2
  <2>. QED
    BY <1>6, <2>2
<1>8. ASSUME Engaged(c)
      PROVE  /\ Asked(c, k, t, u) /\ c.op = In(k)[1].op /\ c.n = In(k)[1].n
             /\ c.pc \in {"sendPayload", "recvHeader"}
             /\ IF c.op = "WRITE" /\ c.pc = "recvHeader"
                THEN Len(In(w)) = 1 /\ In(w)[1].part = "payload"
                ELSE Len(In(w)) = 0
  <2>1. ~ Left(In(k), u)
    BY <1>2, <1>5 DEF Left
  <2>2. Asked(c, k, t, u)
    BY <1>1, <1>3, <1>8, <2>1 DEF Talking, Unasked, Taking, Answering, AnsweringMore, Answered
  <2>3. PICK h \in {1, 2} :
           /\ h = 2 => In(k)[1].part = "payload"
           /\ In(k)[h].op = c.op /\ In(k)[h].n = c.n
           /\ IF c.op = "WRITE" /\ c.pc = "recvHeader"
              THEN Len(In(k)) = h + 1 /\ In(k)[h + 1].part = "payload"
              ELSE Len(In(k)) = h
    BY <2>2 DEF Asked
  <2>4. h = 1
    BY <2>3
  <2>. QED
    BY <1>2, <2>2, <2>3, <2>4 DEF Asked
<1>. QED
  BY <1>3, <1>4, <1>5, <1>6, <1>7, <1>8

(* m is l after the execution of request n. *)
RanNext(l, m, n) ==
  /\ Len(m) = Len(l) + 1 /\ m[Len(m)] = n
  /\ \A i \in 1 .. Len(l) : m[i] = l[i]

LEMMA Runs ==
  ASSUME NEW l \in Seq(Nat), NEW n \in Nat, NEW m, m = Append(l, n)
  PROVE  m \in Seq(Nat) /\ RanNext(l, m, n)
  BY AppendProperties DEF RanNext

LEMMA RanMore ==
  ASSUME NEW l, NEW m, NEW n \in Nat, Len(l) \in Nat, RanNext(l, m, n)
  PROVE  /\ Ran(m, n)
         /\ \A i : Ran(l, i) => Ran(m, i)
         /\ \A i \in 1 .. Len(m) : i \in 1 .. Len(l) \/ (i = Len(m) /\ i \notin 1 .. Len(l))
<1>1. Len(m) \in 1 .. Len(m) /\ Len(m) = Len(l) + 1
  BY DEF RanNext
<1>. QED
  BY <1>1 DEF RanNext, Ran

LEMMA RanInOrder ==
  ASSUME NEW l, NEW m, NEW n \in Nat, Len(l) \in Nat, RanNext(l, m, n),
         \A i \in 1 .. Len(l) : l[i] \in Nat,
         \A i, j \in 1 .. Len(l) : i < j => l[i] < l[j],
         \A j \in 1 .. Len(l) : l[j] < n
  PROVE  \A i, j \in 1 .. Len(m) : i < j => m[i] < m[j]
<1>1. SUFFICES ASSUME NEW i \in 1 .. Len(m), NEW j \in 1 .. Len(m), i < j
               PROVE  m[i] < m[j]
  OBVIOUS
<1>2. Len(m) = Len(l) + 1
  BY DEF RanNext
<1>3. i \in 1 .. Len(l) /\ m[i] = l[i]
  BY <1>1, <1>2 DEF RanNext
<1>4. CASE j \in 1 .. Len(l)
  BY <1>1, <1>3, <1>4 DEF RanNext
<1>5. CASE j = Len(m)
  BY <1>3, <1>5 DEF RanNext
<1>. QED
  BY <1>1, <1>2, <1>4, <1>5

(* Execution keeps what was said of the calls before. *)
LEMMA RanCounted ==
  ASSUME NEW c, NEW l, NEW a, NEW m, NEW n \in Nat, Len(l) \in Nat, RanNext(l, m, n),
         Counted(c, l, a)
  PROVE  Counted(c, m, a)
<1>1. \A i : Ran(l, i) => Ran(m, i)
  BY RanMore
<1>. QED
  BY <1>1 DEF Counted

(* The header of a WRITE is read. *)
LEMMA TakeGood ==
  ASSUME NEW c, NEW k, NEW t, NEW l, NEW a, Session(c, k, t, l, a),
         NEW u \in BOOLEAN, NEW z \in BOOLEAN, NEW v \in BOOLEAN,
         Good(c, k, t, l, a, u, z, v), t.pc = "recv",
         NEW w, MnGot(k, w), In(k)[1].part = "header", In(k)[1].op = "WRITE",
         NEW x, x.pc = "recvPayload", x.op = "WRITE", x.n = In(k)[1].n
  PROVE  Good(c, w, x, l, a, u, z, v)
<1>1. /\ Wired(c, k) /\ Hosted(c, k, t, v)
      /\ InSequence(c, k, t, l) /\ Counted(c, l, a)
      /\ Talking(c, k, t, l, u) /\ Alone(c, k, l, u, z) /\ Gone(c, k, t, z)
  BY DEF Good, Sound
<1>2. /\ k.state["mn"] # "closed" /\ c.pc \notin {"new", "closed"}
      /\ \A i \in 1 .. Len(In(w)) : In(w)[i].part # "header"
      /\ x.n \in Nat /\ x.n <= c.n
      /\ \A j \in 1 .. Len(l) : l[j] < x.n
  BY RequestRead
<1>3. Engaged(c) =>
        /\ Asked(c, k, t, u) /\ c.op = "WRITE" /\ c.n = x.n
        /\ c.pc \in {"sendPayload", "recvHeader"}
        /\ IF c.op = "WRITE" /\ c.pc = "recvHeader"
           THEN Len(In(w)) = 1 /\ In(w)[1].part = "payload"
           ELSE Len(In(w)) = 0
  BY RequestRead
<1>4. w.state = k.state /\ Out(w) = Out(k)
  BY DEF MnGot
<1>5. Wired(c, w)
  BY <1>1, <1>2, MnGotWired DEF Session
<1>6. Hosted(c, w, x, v) /\ Gone(c, w, x, z) /\ ClosedBoth(c, w) /\ Alone(c, w, l, u, z)
  BY <1>1, <1>2, <1>4 DEF Hosted, Gone, ClosedBoth, Alone, Good
<1>7. InSequence(c, w, x, l)
  BY <1>1, <1>2 DEF InSequence
<1>8. Talking(c, w, x, l, u)
  <2>1. SUFFICES ASSUME Engaged(c) PROVE Taking(c, w, x)
    BY DEF Talking
  <2>2. Len(Out(k)) = 0
    BY <1>3, <2>1 DEF Asked
  <2>. QED
    BY <1>3, <1>4, <2>1, <2>2 DEF Taking
<1>. QED
  BY <1>1, <1>5, <1>6, <1>7, <1>8 DEF Good, Sound

(* A request is answered when its header is read: it was executed, if it   *)
(* is an operation, or there was no memory.                                *)
LEMMA TakenGood ==
  ASSUME NEW c, NEW k, NEW t, NEW l, NEW a, Session(c, k, t, l, a),
         NEW u \in BOOLEAN, NEW z \in BOOLEAN, NEW v \in BOOLEAN,
         Good(c, k, t, l, a, u, z, v), t.pc = "recv",
         NEW w, MnGot(k, w), In(k)[1].part = "header",
         NEW x, x.pc = "reply", x.op = In(k)[1].op, x.n = In(k)[1].n, x.status \in {0, 1},
         NEW m, \/ m = l \/ RanNext(l, m, x.n),
         x.status = 0 => x.op # "WRITE" /\ (x.op \in Ops => RanNext(l, m, x.n)),
         x.status = 1 => x.op = "READ" \/ (x.op = "WRITE" /\ u)
  PROVE  Good(c, w, x, m, a, u, z, v)
<1>1. /\ Wired(c, k) /\ Hosted(c, k, t, v)
      /\ InSequence(c, k, t, l) /\ Counted(c, l, a)
      /\ Talking(c, k, t, l, u) /\ Alone(c, k, l, u, z) /\ Gone(c, k, t, z)
  BY DEF Good, Sound
<1>2. /\ k.state["mn"] # "closed" /\ c.pc \notin {"new", "closed"}
      /\ \A i \in 1 .. Len(In(w)) : In(w)[i].part # "header"
      /\ x.n \in Nat /\ x.n <= c.n
      /\ \A j \in 1 .. Len(l) : l[j] < x.n
  BY RequestRead
<1>3. Engaged(c) =>
        /\ Asked(c, k, t, u) /\ c.op = x.op /\ c.n = x.n
        /\ c.pc \in {"sendPayload", "recvHeader"}
        /\ IF c.op = "WRITE" /\ c.pc = "recvHeader"
           THEN Len(In(w)) = 1 /\ In(w)[1].part = "payload"
           ELSE Len(In(w)) = 0
  BY RequestRead
<1>4. w.state = k.state /\ Out(w) = Out(k)
  BY DEF MnGot
<1>5. Len(l) \in Nat /\ c.n \in Nat /\ \A i \in 1 .. Len(l) : l[i] \in Nat
  BY SessionFields
<1>6. Wired(c, w)
  BY <1>1, <1>2, MnGotWired DEF Session
<1>7. Hosted(c, w, x, v) /\ Gone(c, w, x, z) /\ ClosedBoth(c, w) /\ Alone(c, w, m, u, z)
  BY <1>1, <1>2, <1>4 DEF Hosted, Gone, ClosedBoth, Alone, Good
<1>8. Counted(c, m, a)
  BY <1>1, <1>2, <1>5, RanCounted
<1>9. InSequence(c, w, x, m)
  <2>1. \A i, j \in 1 .. Len(m) : i < j => m[i] < m[j]
    BY <1>1, <1>2, <1>5, RanInOrder DEF InSequence
  <2>2. \A i \in 1 .. Len(m) : m[i] <= c.n
    <3>1. SUFFICES ASSUME RanNext(l, m, x.n), NEW i \in 1 .. Len(m) PROVE m[i] <= c.n
      BY <1>1 DEF InSequence
    <3>2. i \in 1 .. Len(l) \/ i = Len(m)
      BY <1>2, <1>5, <3>1, RanMore
    <3>3. CASE i \in 1 .. Len(l)
      BY <1>1, <3>1, <3>3 DEF InSequence, RanNext
    <3>4. CASE i = Len(m)
      BY <1>2, <3>1, <3>4 DEF RanNext
    <3>. QED
      BY <3>2, <3>3, <3>4
  <2>3. c.pc # "sendHeader"
    BY <1>3 DEF Engaged, Exchanging
  <2>. QED
    BY <1>2, <2>1, <2>2, <2>3 DEF InSequence
<1>10. Talking(c, w, x, m, u)
  <2>1. SUFFICES ASSUME Engaged(c) PROVE Answering(c, w, x, m, u)
    BY DEF Talking
  <2>2. Len(Out(w)) = 0
    BY <1>3, <1>4, <2>1 DEF Asked
  <2>3. c.pc = "sendPayload" => c.op = "WRITE" /\ Len(In(w)) = 0
    BY <1>1, <1>3, <2>1 DEF Counted
  <2>4. RanNext(l, m, x.n) => Ran(m, x.n)
    BY <1>2, <1>5, RanMore
  <2>5. x.status = 1 => c.op = "READ" \/ (c.op = "WRITE" /\ u)
    BY <1>3, <2>1
  <2>6. x.status = 0 => c.op # "WRITE" /\ (c.op \in Ops => Ran(m, c.n))
    BY <1>3, <2>1, <2>4
  <2>7. Tells(c, m, x.status, u)
    BY <2>3, <2>5, <2>6 DEF Tells
  <2>8. Left(In(w), u)
    BY <1>3, <2>1, <2>5, <2>6 DEF Left
  <2>. QED
    BY <1>3, <2>1, <2>2, <2>3, <2>7, <2>8 DEF Answering
<1>. QED
  BY <1>6, <1>7, <1>8, <1>9, <1>10 DEF Good, Sound

(* The payload of a WRITE is read, and written. *)
LEMMA BodyGood ==
  ASSUME NEW c, NEW k, NEW t, NEW l, NEW a, Session(c, k, t, l, a),
         NEW u \in BOOLEAN, NEW z \in BOOLEAN, NEW v \in BOOLEAN,
         Good(c, k, t, l, a, u, z, v), t.pc = "recvPayload",
         NEW w, MnGot(k, w),
         NEW x, x.pc = "reply", x.op = t.op, x.n = t.n, x.status = 0,
         NEW m, RanNext(l, m, t.n)
  PROVE  Good(c, w, x, m, a, u, z, v)
<1>1. /\ Wired(c, k) /\ Hosted(c, k, t, v)
      /\ InSequence(c, k, t, l) /\ Counted(c, l, a)
      /\ Talking(c, k, t, l, u) /\ Alone(c, k, l, u, z) /\ Gone(c, k, t, z)
  BY DEF Good, Sound
<1>2. /\ Len(l) \in Nat /\ c.n \in Nat /\ t.n \in Nat /\ (\A i \in 1 .. Len(l) : l[i] \in Nat)
      /\ Len(In(k)) \in Nat
  BY SessionFields
<1>3. /\ w.state = k.state /\ Out(w) = Out(k)
      /\ Len(In(k)) > 0 /\ Len(In(w)) = Len(In(k)) - 1
      /\ \A i \in 1 .. Len(In(w)) : In(w)[i] = In(k)[i + 1]
  BY DEF MnGot
<1>4. k.state["mn"] # "closed" /\ c.pc \notin {"new", "closed"}
  BY <1>1, <1>2, <1>3 DEF Hosted, Wired, Gone, Waiting
<1>5. t.n <= c.n /\ \A j \in 1 .. Len(l) : l[j] < t.n
  BY <1>1 DEF InSequence
<1>6. Engaged(c) =>
        /\ c.pc = "recvHeader" /\ c.op = "WRITE" /\ t.op = "WRITE" /\ t.n = c.n
        /\ Len(Out(k)) = 0 /\ Len(In(k)) = 1
  BY <1>1, <1>3, <1>4
  DEF Talking, Unasked, Asked, Taking, Answering, AnsweringMore, Answered, Waiting
<1>7. Wired(c, w)
  BY <1>1, <1>4, MnGotWired DEF Session
<1>8. Hosted(c, w, x, v) /\ Gone(c, w, x, z) /\ ClosedBoth(c, w) /\ Alone(c, w, m, u, z)
  BY <1>1, <1>3, <1>4 DEF Hosted, Gone, ClosedBoth, Alone, Good
<1>9. Counted(c, m, a)
  BY <1>1, <1>2, RanCounted
<1>10. InSequence(c, w, x, m)
  <2>1. \A i, j \in 1 .. Len(m) : i < j => m[i] < m[j]
    BY <1>1, <1>2, <1>5, RanInOrder DEF InSequence
  <2>2. \A i \in 1 .. Len(m) : m[i] <= c.n
    <3>1. SUFFICES ASSUME NEW i \in 1 .. Len(m) PROVE m[i] <= c.n
      OBVIOUS
    <3>2. i \in 1 .. Len(l) \/ i = Len(m)
      BY <1>2, <3>1, RanMore
    <3>3. CASE i \in 1 .. Len(l)
      BY <1>1, <3>1, <3>3 DEF InSequence, RanNext
    <3>4. CASE i = Len(m)
      BY <1>5, <3>1, <3>4 DEF RanNext
    <3>. QED
      BY <3>2, <3>3, <3>4
  <2>3. c.pc # "sendHeader"
    BY <1>6 DEF Engaged, Exchanging
  <2>4. \A i \in 1 .. Len(In(w)) : In(w)[i].part # "header"
    <3>1. \A i \in 1 .. Len(In(k)) : In(k)[i].part # "header"
      BY <1>1 DEF InSequence
    <3>2. \A i \in 1 .. Len(In(w)) : i + 1 \in 1 .. Len(In(k))
      BY <1>2, <1>3
    <3>. QED
      BY <1>3, <3>1, <3>2
  <2>. QED
    BY <1>4, <2>1, <2>2, <2>3, <2>4 DEF InSequence
<1>11. Talking(c, w, x, m, u)
  <2>1. SUFFICES ASSUME Engaged(c) PROVE Answering(c, w, x, m, u)
    BY DEF Talking
  <2>2. Len(Out(w)) = 0 /\ Len(In(w)) = 0
    <3>1. Len(Out(k)) = 0 /\ Len(In(k)) = 1
      BY <1>6, <2>1
    <3>2. Out(w) = Out(k) /\ Len(In(w)) = Len(In(k)) - 1
      BY <1>3
    <3>. QED
      BY <3>1, <3>2
  <2>3. Ran(m, c.n)
    BY <1>2, <1>6, <2>1, RanMore
  <2>4. Tells(c, m, 0, u)
    BY <1>6, <2>1, <2>3 DEF Tells
  <2>. QED
    BY <1>6, <2>1, <2>2, <2>4 DEF Answering, Left
<1>. QED
  BY <1>7, <1>8, <1>9, <1>10, <1>11 DEF Good, Sound

(* It will not come: the compute node is gone. *)
LEMMA NoBodyGood ==
  ASSUME NEW c, NEW k, NEW t, NEW l, NEW a, Session(c, k, t, l, a),
         NEW u \in BOOLEAN, NEW z \in BOOLEAN, NEW v \in BOOLEAN,
         Good(c, k, t, l, a, u, z, v), t.pc = "recvPayload", AtEnd(k, "mn"),
         NEW w, w.data = k.data, w.coming = k.coming, w.state["cn"] = k.state["cn"],
         w.state["mn"] = IF k.state["mn"] = "reset" THEN "pipe" ELSE k.state["mn"],
         NEW x, x.pc = "reply"
  PROVE  Good(c, w, x, l, a, u, z, v)
<1>1. /\ Wired(c, k) /\ Hosted(c, k, t, v)
      /\ InSequence(c, k, t, l) /\ Counted(c, l, a) /\ Gone(c, k, t, z)
  BY DEF Good, Sound
<1>2. k.state["mn"] \in {"fin", "reset", "pipe"} /\ k.state["cn"] = "closed" /\ w.state["mn"] # "closed"
  BY <1>1 DEF AtEnd, Wired
<1>3. ~ Engaged(c) /\ c.pc \notin {"new", "closed"}
  BY <1>1, <1>2 DEF Wired, Gone, Waiting
<1>4. Wired(c, w)
  <2>1. w.data["cn"] = k.data["cn"] /\ w.data["mn"] = k.data["mn"]
        /\ w.coming["cn"] = k.coming["cn"] /\ w.coming["mn"] = k.coming["mn"]
    OBVIOUS
  <2>. QED
    BY <1>1, <1>2, <1>3, <2>1 DEF Wired, Ends
<1>5. In(w) = In(k)
  BY DEF In
<1>6. Hosted(c, w, x, v) /\ Gone(c, w, x, z) /\ InSequence(c, w, x, l)
  BY <1>1, <1>2, <1>3, <1>5 DEF Hosted, Gone, InSequence
<1>7. Talking(c, w, x, l, u) /\ Alone(c, w, l, u, z) /\ ClosedBoth(c, w)
  BY <1>3 DEF Talking, Alone, ClosedBoth, Engaged, Exchanging
<1>. QED
  BY <1>1, <1>4, <1>6, <1>7 DEF Good, Sound

(* w is k after the memory node sent p. *)
MnSent(k, p, w) ==
  /\ w.state = k.state /\ w.coming["cn"] = k.coming["cn"] /\ w.data["mn"] = k.data["mn"]
  /\ k.state["cn"] # "closed" =>
       /\ w.coming["mn"] = k.coming["mn"]
       /\ Len(Out(w)) = Len(Out(k)) + 1 /\ Out(w)[Len(Out(w))] = p
       /\ \A i \in 1 .. Len(Out(k)) : Out(w)[i] = Out(k)[i]
  /\ k.state["cn"] = "closed" =>
       /\ w.data["cn"] = k.data["cn"]
       /\ \/ w.coming["mn"] = k.coming["mn"]
          \/ k.coming["mn"] = <<>> /\ w.coming["mn"] = <<"rst">>
          \/ k.coming["mn"] = <<"fin">> /\ w.coming["mn"] = <<"fin", "rst">>

LEMMA MnSends ==
  ASSUME NEW k \in Connections(Parts), NEW p \in Parts, NEW w, w = Sent(k, "mn", p)
  PROVE  w \in Connections(Parts) /\ MnSent(k, p, w)
<1>1. /\ w \in Connections(Parts) /\ w.state = k.state
      /\ k.state["cn"] # "closed" =>
           /\ w.data["cn"] = Append(k.data["cn"], p) /\ w.data["mn"] = k.data["mn"]
           /\ w.coming = k.coming
      /\ k.state["cn"] = "closed" =>
           /\ w.data = k.data /\ w.coming["cn"] = k.coming["cn"]
           /\ w.coming["mn"] =
                IF k.coming["mn"] \in {<<>>, <<"fin">>} /\ k.state["mn"] # "pipe"
                THEN Append(k.coming["mn"], "rst") ELSE k.coming["mn"]
  BY SentIs, Peers
<1>2. PICK q \in Seq(Parts) : q = k.data["cn"]
  BY SocketFields, Peers
<1>3. /\ Len(Append(q, p)) = Len(q) + 1 /\ Append(q, p)[Len(q) + 1] = p
      /\ \A i \in 1 .. Len(q) : Append(q, p)[i] = q[i]
  BY AppendProperties
<1>4. CASE k.state["cn"] # "closed"
  <2>1. w.data["cn"] = Append(q, p)
    BY <1>1, <1>2, <1>4
  <2>. QED
    BY <1>1, <1>2, <1>3, <1>4, <2>1 DEF MnSent, Out
<1>5. CASE k.state["cn"] = "closed"
  <2>1. \/ w.coming["mn"] = k.coming["mn"]
        \/ k.coming["mn"] = <<>> /\ w.coming["mn"] = <<"rst">>
        \/ k.coming["mn"] = <<"fin">> /\ w.coming["mn"] = <<"fin", "rst">>
    BY <1>1, <1>5, SignalFacts
  <2>. QED
    BY <1>1, <1>5, <2>1 DEF MnSent
<1>. QED
  BY <1>1, <1>4, <1>5

LEMMA MnSentWired ==
  ASSUME NEW c, NEW k \in Connections(Parts), NEW w, NEW p, MnSent(k, p, w), Wired(c, k),
         SendGoes(k, "mn")
  PROVE  Wired(c, w)
<1>1. k.state["mn"] \in {"open", "fin"}
  BY DEF SendGoes
<1>2. k.state["mn"] = "fin" => k.coming["mn"] # <<"fin">>
  <2>1. <<"fin">> # <<>> /\ <<"fin">> # <<"rst">>
    BY SignalFacts
  <2>. QED
    BY <2>1, Peers DEF Wired
<1>3. CASE k.state["cn"] # "closed"
  <2>1. k.state["cn"] \notin {"fin", "reset", "pipe"} /\ w.coming["cn"] = <<>>
    BY <1>1, <1>3 DEF Wired, MnSent
  <2>2. k.state["mn"] = "open" /\ w.coming["mn"] = <<>>
    BY <1>1, <1>3 DEF Wired, MnSent
  <2>. QED
    BY <1>1, <1>3, <2>1, <2>2 DEF Wired, MnSent, Ends
<1>4. CASE k.state["cn"] = "closed"
  BY <1>1, <1>2, <1>4 DEF Wired, MnSent, Ends
<1>. QED
  BY <1>3, <1>4

(* The answer is sent, or a part of it. *)
LEMMA RespondSound ==
  ASSUME NEW c, NEW k, NEW t, NEW l, NEW a, Session(c, k, t, l, a),
         NEW u \in BOOLEAN, NEW z \in BOOLEAN, NEW v \in BOOLEAN,
         Good(c, k, t, l, a, u, z, v), t.pc \in {"reply", "replyPayload"}, SendGoes(k, "mn"),
         NEW p, p = IF t.pc = "reply" THEN Header("ACK", t.n, t.status) ELSE Payload(t.n),
         NEW w, MnSent(k, p, w),
         NEW x, x.pc = IF t.pc = "reply" /\ t.op = "READ" /\ t.status = 0
                       THEN "replyPayload" ELSE "check",
         x.op = t.op, x.n = t.n
  PROVE  /\ Sound(c, w, x, l, a, u, z, v)
         /\ t.op # "CLOSE" => ClosedBoth(c, w)
         /\ Engaged(c) => c.op = t.op /\ (c.op = "CLOSE" => c.pc = "recvHeader")
<1>1. /\ Wired(c, k) /\ Hosted(c, k, t, v)
      /\ InSequence(c, k, t, l) /\ Counted(c, l, a)
      /\ Talking(c, k, t, l, u) /\ Alone(c, k, l, u, z) /\ Gone(c, k, t, z)
  BY DEF Good, Sound
<1>2. k.state["mn"] # "closed" /\ c.pc \notin {"new", "closed"} /\ w.state = k.state /\ In(w) = In(k)
  BY <1>1 DEF Hosted, Wired, Gone, MnSent, In, Waiting
<1>3. Wired(c, w)
  BY <1>1, MnSentWired DEF Session
<1>4. x.pc \in {"replyPayload", "check"}
  OBVIOUS
<1>5. Hosted(c, w, x, v) /\ Gone(c, w, x, z) /\ Alone(c, w, l, u, z) /\ InSequence(c, w, x, l)
  BY <1>1, <1>2, <1>4 DEF Hosted, Gone, Alone, InSequence
<1>6. ASSUME Engaged(c) PROVE k.state["cn"] # "closed"
  BY <1>1, <1>6 DEF Wired
<1>7. t.status \in {0, 1} /\ t.n \in Nat /\ Out(k) \in Seq(Parts)
  BY SessionFields
<1>8. ASSUME Engaged(c)
      PROVE  /\ Talking(c, w, x, l, u) /\ c.op = t.op
             /\ c.op = "CLOSE" => c.pc = "recvHeader"
  <2>1. Answering(c, k, t, l, u) \/ AnsweringMore(c, k, t, l, u)
    BY <1>1, <1>2, <1>8 DEF Talking, Unasked, Asked, Taking, Answered, Waiting
  <2>2. /\ Len(Out(w)) = Len(Out(k)) + 1 /\ Out(w)[Len(Out(w))] = p
        /\ \A i \in 1 .. Len(Out(k)) : Out(w)[i] = Out(k)[i]
    BY <1>6, <1>8 DEF MnSent
  <2>3. CASE Answering(c, k, t, l, u)
    <3>1. /\ c.pc \in {"sendPayload", "recvHeader"} /\ Len(Out(k)) = 0 /\ t.pc = "reply"
          /\ t.op = c.op /\ t.n = c.n /\ Tells(c, l, t.status, u)
          /\ Left(In(k), u) /\ (c.pc = "sendPayload" => Len(In(k)) = 0)
      BY <2>3 DEF Answering
    <3>2. Len(Out(w)) = 1 /\ Out(w)[1] = p
      BY <2>2, <3>1
    <3>3. p = Header("ACK", c.n, t.status)
      BY <3>1
    <3>4. CASE c.op = "READ" /\ t.status = 0
      <4>1. x.pc = "replyPayload" /\ Ran(l, c.n) /\ p = Header("ACK", c.n, 0)
        BY <3>1, <3>3, <3>4 DEF Tells, Ops
      <4>2. c.pc = "recvHeader"
        BY <1>1, <3>1, <3>4 DEF Counted
      <4>3. AnsweringMore(c, w, x, l, u)
        BY <1>2, <3>1, <3>2, <3>4, <4>1, <4>2 DEF AnsweringMore
      <4>. QED
        BY <3>1, <3>4, <4>3 DEF Talking
    <3>5. CASE ~ (c.op = "READ" /\ t.status = 0)
      <4>1. x.pc = "check"
        BY <3>1, <3>5
      <4>2. Answer(c, w, l, u)
        BY <1>7, <3>1, <3>2, <3>3, <3>5 DEF Answer
      <4>3. Answered(c, w, x, l, u)
        BY <1>2, <3>1, <4>1, <4>2 DEF Answered, Waiting
      <4>4. c.op = "CLOSE" => c.pc = "recvHeader"
        BY <1>1, <3>1 DEF Counted
      <4>. QED
        BY <3>1, <4>3, <4>4 DEF Talking
    <3>. QED
      BY <3>4, <3>5
  <2>4. CASE AnsweringMore(c, k, t, l, u)
    <3>1. /\ c.op = "READ" /\ Ran(l, c.n) /\ Left(In(k), u)
          /\ t.pc = "replyPayload" /\ t.op = "READ" /\ t.n = c.n
          /\ \/ c.pc = "recvHeader" /\ Len(Out(k)) = 1 /\ Out(k)[1] = Header("ACK", c.n, 0)
             \/ c.pc = "recvPayload" /\ Len(Out(k)) = 0
      BY <2>4 DEF AnsweringMore
    <3>2. p = Payload(c.n) /\ x.pc = "check"
      BY <3>1
    <3>3. Answer(c, w, l, u)
      <4>1. CASE c.pc = "recvHeader"
        <5>1. Len(Out(k)) = 1 /\ Out(k)[1] = Header("ACK", c.n, 0)
          BY <3>1, <4>1
        <5>2. Len(Out(w)) = 2 /\ Out(w)[1] = Header("ACK", c.n, 0) /\ Out(w)[2] = Payload(c.n)
          BY <2>2, <3>2, <5>1
        <5>3. Tells(c, l, 0, u)
          BY <3>1, <4>1 DEF Tells
        <5>. QED
          BY <3>1, <4>1, <5>2, <5>3 DEF Answer
      <4>2. CASE c.pc = "recvPayload"
        <5>1. Len(Out(w)) = 1 /\ Out(w)[1] = Payload(c.n)
          BY <2>2, <3>1, <3>2, <4>2
        <5>. QED
          BY <4>2, <5>1 DEF Answer
      <4>. QED
        BY <3>1, <4>1, <4>2
    <3>4. Answered(c, w, x, l, u)
      <4>1. c.pc # "sendPayload"
        BY <3>1
      <4>. QED
        BY <1>2, <3>1, <3>2, <3>3, <4>1 DEF Answered, Waiting
    <3>. QED
      BY <3>1, <3>4 DEF Talking
  <2>. QED
    BY <2>1, <2>3, <2>4
<1>9. Talking(c, w, x, l, u)
  BY <1>8 DEF Talking
<1>10. t.op # "CLOSE" => ClosedBoth(c, w)
  BY <1>8 DEF ClosedBoth, Engaged, Exchanging
<1>. QED
  BY <1>1, <1>3, <1>5, <1>8, <1>9, <1>10 DEF Sound

(* A thread takes a connection on. *)
LEMMA AcceptGood ==
  ASSUME NEW c, NEW k, NEW t, NEW l, NEW a, Session(c, k, t, l, a),
         NEW u \in BOOLEAN, NEW z \in BOOLEAN, NEW v \in BOOLEAN,
         Good(c, k, t, l, a, u, z, v), t.pc = "none", k.state["mn"] # "closed",
         NEW x, x.pc = "check"
  PROVE  Good(c, k, x, l, a, u, z, v)
<1>1. /\ Wired(c, k) /\ Hosted(c, k, t, v)
      /\ InSequence(c, k, t, l) /\ Counted(c, l, a)
      /\ Talking(c, k, t, l, u) /\ Alone(c, k, l, u, z) /\ Gone(c, k, t, z) /\ ClosedBoth(c, k)
  BY DEF Good, Sound
<1>2. Waiting(x) /\ ~ Waiting(t) /\ c.pc # "new"
  BY <1>1 DEF Waiting, Wired
<1>3. Hosted(c, k, x, v) /\ InSequence(c, k, x, l) /\ Gone(c, k, x, z)
  BY <1>1, <1>2 DEF Hosted, InSequence, Gone
<1>4. Talking(c, k, x, l, u)
  BY <1>1, <1>2
  DEF Talking, Unasked, Asked, Taking, Answering, AnsweringMore, Answered, Left
<1>. QED
  BY <1>1, <1>3, <1>4 DEF Good, Sound

(* A signal of the peer's comes. *)
LEMMA ArriveGood ==
  ASSUME NEW c, NEW k, NEW t, NEW l, NEW a, Session(c, k, t, l, a),
         NEW u \in BOOLEAN, NEW z \in BOOLEAN, NEW v \in BOOLEAN,
         Good(c, k, t, l, a, u, z, v),
         NEW e \in Ends, k.coming[e] # <<>>, NEW w, w = Arrived(k, e)
  PROVE  w \in Connections(Parts) /\ Good(c, w, t, l, a, u, z, v)
<1>1. /\ Wired(c, k) /\ Hosted(c, k, t, v)
      /\ InSequence(c, k, t, l) /\ Counted(c, l, a)
      /\ Talking(c, k, t, l, u) /\ Alone(c, k, l, u, z) /\ Gone(c, k, t, z) /\ ClosedBoth(c, k)
  BY DEF Good, Sound
<1>2. k.state[e] = "fin" => k.coming[e] \in {<<>>, <<"rst">>}
  BY <1>1 DEF Wired
<1>3. /\ w \in Connections(Parts) /\ w.data = k.data
      /\ \A f \in Ends : f # e => w.state[f] = k.state[f] /\ w.coming[f] = k.coming[f]
      /\ \/ /\ k.coming[e] \in {<<"fin">>, <<"fin", "rst">>} /\ w.state[e] = "fin"
            /\ w.coming[e] = IF k.coming[e] = <<"fin">> THEN <<>> ELSE <<"rst">>
         \/ /\ k.coming[e] = <<"rst">> /\ w.coming[e] = <<>>
            /\ w.state[e] = IF k.state[e] = "fin" THEN "pipe" ELSE "reset"
  BY <1>2, ArrivedIs DEF Session
<1>4. In(w) = In(k) /\ Out(w) = Out(k) /\ k.state[e] \notin {"closed", "reset", "pipe"}
      /\ w.state[e] \in {"fin", "reset", "pipe"}
  BY <1>1, <1>3 DEF In, Out, Wired
<1>5. CASE e = "cn"
  <2>1. k.state["mn"] = "closed" /\ w.state["mn"] = "closed" /\ w.coming["mn"] = k.coming["mn"]
    BY <1>1, <1>3, <1>5, Peers DEF Wired
  <2>2. Wired(c, w)
    BY <1>1, <1>3, <1>4, <1>5, <2>1 DEF Wired, Ends
  <2>3. Hosted(c, w, t, v) /\ Gone(c, w, t, z) /\ InSequence(c, w, t, l)
        /\ Talking(c, w, t, l, u) /\ ClosedBoth(c, w)
    BY <1>1, <1>4, <2>1 DEF Hosted, Gone, InSequence, Talking, ClosedBoth
  <2>4. Refused(c, k) => Refused(c, w)
    <3>1. <<"fin">> # <<"rst">> /\ <<"fin">> # <<"fin", "rst">>
      BY SignalFacts
    <3>. QED
      BY <1>3, <1>4, <1>5, <3>1 DEF Refused
  <2>5. Answer(c, k, l, u) => Answer(c, w, l, u)
    BY <1>4 DEF Answer
  <2>6. Alone(c, w, l, u, z)
    BY <1>1, <1>4, <1>5, <2>1, <2>4, <2>5 DEF Alone
  <2>. QED
    BY <1>1, <1>3, <2>2, <2>3, <2>6 DEF Good, Sound
<1>6. CASE e = "mn"
  <2>1. k.state["cn"] = "closed" /\ w.state["cn"] = "closed" /\ w.coming["cn"] = k.coming["cn"]
        /\ k.state["mn"] # "closed" /\ w.state["mn"] # "closed" /\ ~ Engaged(c)
    BY <1>1, <1>3, <1>4, <1>6, Peers DEF Wired
  <2>2. Wired(c, w)
    BY <1>1, <1>3, <1>4, <1>6, <2>1 DEF Wired, Ends
  <2>3. Hosted(c, w, t, v) /\ Gone(c, w, t, z) /\ InSequence(c, w, t, l)
        /\ Talking(c, w, t, l, u) /\ ClosedBoth(c, w) /\ Alone(c, w, l, u, z)
    BY <1>1, <1>4, <2>1
    DEF Hosted, Gone, InSequence, Talking, ClosedBoth, Alone
  <2>. QED
    BY <1>1, <1>3, <2>2, <2>3 DEF Good, Sound
<1>. QED
  BY <1>5, <1>6 DEF Ends

-----------------------------------------------------------------------------
(* Steps                                                                   *)

(* g is f, but for y at c. *)
One(S, f, g, c, y) ==
  /\ g \in [Clients -> S] /\ g[c] = y
  /\ \A e \in Clients : e # c => g[e] = f[e]

LEMMA OneExcept ==
  ASSUME NEW S, NEW f \in [Clients -> S], NEW c \in Clients, NEW y \in S, NEW g,
         g = [f EXCEPT ![c] = y]
  PROVE  One(S, f, g, c, y)
  BY DEF One

LEMMA OneSame ==
  ASSUME NEW S, NEW f \in [Clients -> S], NEW c \in Clients, NEW g, g = f
  PROVE  One(S, f, g, c, f[c])
  BY DEF One

FaultNames == {"connect", "crash", "malloc", "mallocWrite", "thread", "mnCrash", "lock"}

Types ==
  /\ cn \in [Clients -> CallType] /\ conn \in [Clients -> Connections(Parts)]
  /\ thread \in [Clients -> ThreadType] /\ log \in [Clients -> Seq(Nat)]
  /\ answers \in [Clients -> Seq(AnswerType)]

LEMMA TypesAre ==
  /\ TypeOK <=> /\ Types /\ main \in {"serve", "left", "exited", "killed", "crashed"}
                /\ stop \in BOOLEAN /\ faults \subseteq FaultNames
  /\ TypeOK' <=> /\ Types' /\ main' \in {"serve", "left", "exited", "killed", "crashed"}
                 /\ stop' \in BOOLEAN /\ faults' \subseteq FaultNames
  BY DEF TypeOK, Types, CallType, ThreadType, AnswerType, Requests, FaultNames

(* A session as the invariant has it *)
LEMMA Here ==
  ASSUME Inv, NEW c \in Clients
  PROVE  /\ Session(cn[c], conn[c], thread[c], log[c], answers[c])
         /\ \E u, z, v \in BOOLEAN :
              /\ (u <=> Untaken) /\ (z <=> Cause) /\ (v <=> main = "serve")
              /\ Good(cn[c], conn[c], thread[c], log[c], answers[c], u, z, v)
<1>1. Session(cn[c], conn[c], thread[c], log[c], answers[c])
  BY TypesAre DEF Inv, Types, Session
<1>2. PICK u \in BOOLEAN : u = Untaken
  <2>1. Untaken \in BOOLEAN
    BY DEF Untaken
  <2>. QED
    BY <2>1, Zenon
<1>3. PICK z \in BOOLEAN : z = Cause
  BY Zenon DEF Cause
<1>4. PICK v \in BOOLEAN : v = (main = "serve")
  BY Zenon
<1>5. Good(cn[c], conn[c], thread[c], log[c], answers[c], u, z, v)
  BY <1>2, <1>3, <1>4, Zenon DEF Inv, AllGood
<1>. QED
  BY <1>1, <1>2, <1>3, <1>4, <1>5, Zenon

(* A step of session c, after which its state is the one given *)
Turns(c, d, w, x, m, b) ==
  /\ One(CallType, cn, cn', c, d)
  /\ One(Connections(Parts), conn, conn', c, w)
  /\ One(ThreadType, thread, thread', c, x)
  /\ One(Seq(Nat), log, log', c, m)
  /\ One(Seq(AnswerType), answers, answers', c, b)

(* ... while nothing else happens, but a failure *)
Aside ==
  /\ main' = main /\ stop' = stop
  /\ faults \subseteq faults' /\ faults' \subseteq FaultNames

Dead(c) == c.pc \in {"crashed", "killed"}

LEMMA SessionStep ==
  ASSUME Inv, NEW c \in Clients, NEW d, NEW w, NEW x, NEW m, NEW b,
         Turns(c, d, w, x, m, b), Aside,
         NEW u \in BOOLEAN, NEW z \in BOOLEAN, NEW v \in BOOLEAN,
         u <=> Untaken', z <=> Cause', v <=> main = "serve",
         Good(d, w, x, m, b, u, z, v), Dead(cn[c]) => Dead(d)
  PROVE  Inv'
<1>1. TypeOK'
  <2>1. Types'
    BY DEF Turns, One, Types
  <2>. QED
    BY <2>1, TypesAre DEF Inv, Aside
<1>2. (Untaken => Untaken') /\ (Cause => Cause') /\ (main' = "serve" <=> main = "serve")
  BY DEF Aside, Untaken, Cause
<1>3. AllGood'
  <2>1. SUFFICES ASSUME NEW e \in Clients
                 PROVE  Good(cn'[e], conn'[e], thread'[e], log'[e], answers'[e],
                             Untaken', Cause', main' = "serve")
    BY Zenon DEF AllGood
  <2>2. PICK u2 \in BOOLEAN : u2 = Untaken'
    <3>1. Untaken' \in BOOLEAN
      BY DEF Untaken
    <3>. QED
      BY <3>1, Zenon
  <2>3. PICK z2 \in BOOLEAN : z2 = Cause'
    BY Zenon DEF Cause
  <2>4. PICK v2 \in BOOLEAN : v2 = (main' = "serve")
    BY Zenon
  <2>5. SUFFICES Good(cn'[e], conn'[e], thread'[e], log'[e], answers'[e], u2, z2, v2)
    BY <2>2, <2>3, <2>4, Zenon
  <2>6. CASE e = c
    <3>1. cn'[e] = d /\ conn'[e] = w /\ thread'[e] = x /\ log'[e] = m /\ answers'[e] = b
      BY <2>6 DEF Turns, One
    <3>2. (u => u2) /\ (z => z2) /\ (v2 => v)
      BY <1>2, <2>2, <2>3, <2>4
    <3>3. Good(d, w, x, m, b, u2, z2, v2)
      BY <3>2, Weaker
    <3>. QED
      BY <3>1, <3>3
  <2>7. CASE e # c
    <3>1. /\ cn'[e] = cn[e] /\ conn'[e] = conn[e] /\ thread'[e] = thread[e]
          /\ log'[e] = log[e] /\ answers'[e] = answers[e]
      BY <2>7 DEF Turns, One
    <3>2. PICK u3, z3, v3 \in BOOLEAN :
            /\ (u3 <=> Untaken) /\ (z3 <=> Cause) /\ (v3 <=> main = "serve")
            /\ Good(cn[e], conn[e], thread[e], log[e], answers[e], u3, z3, v3)
      BY Here
    <3>3. (u3 => u2) /\ (z3 => z2) /\ (v2 => v3)
      BY <1>2, <2>2, <2>3, <2>4, <3>2
    <3>4. Good(cn[e], conn[e], thread[e], log[e], answers[e], u2, z2, v2)
      BY <3>2, <3>3, Weaker
    <3>. QED
      BY <3>1, <3>4
  <2>. QED
    BY <2>6, <2>7
<1>4. main' = "killed" => \E e \in Clients : cn'[e].pc \in {"crashed", "killed"}
  <2>1. SUFFICES ASSUME main = "killed" PROVE \E e \in Clients : cn'[e].pc \in {"crashed", "killed"}
    BY DEF Aside
  <2>2. PICK e \in Clients : Dead(cn[e])
    BY <2>1 DEF Inv, Dead
  <2>3. Dead(cn'[e])
    BY <2>2 DEF Turns, One
  <2>. QED
    BY <2>3 DEF Dead
<1>. QED
  BY <1>1, <1>3, <1>4 DEF Inv

CallPlaces == Exchanging \cup Ended \cup {"new", "idle"}

LEMMA CnAtIs ==
  ASSUME Types, NEW c \in Clients, NEW pc \in CallPlaces, CnAt(c, pc)
  PROVE  \E d : One(CallType, cn, cn', c, d) /\ Moved(cn[c], d, pc)
<1>1. cn \in [Clients -> CallType] /\ cn[c] \in CallType
  BY DEF Types
<1>2. PICK d : d = [cn[c] EXCEPT !.pc = pc]
  OBVIOUS
<1>3. d \in CallType
  BY <1>1, <1>2 DEF CallType, CallPlaces
<1>4. Moved(cn[c], d, pc)
  BY <1>1, <1>2 DEF CallType, Moved
<1>5. cn' = [cn EXCEPT ![c] = d]
  BY <1>2 DEF CnAt
<1>. QED
  BY <1>1, <1>3, <1>4, <1>5, OneExcept

(* x is t, but for where it is. *)
Goes(t, x, pc) == x.pc = pc /\ x.op = t.op /\ x.n = t.n /\ x.status = t.status

ThreadPlaces == {"none", "check", "recv", "recvPayload", "reply", "replyPayload", "closed"}

LEMMA ThreadAtIs ==
  ASSUME Types, NEW c \in Clients, NEW pc \in ThreadPlaces, ThreadAt(c, pc)
  PROVE  \E x : One(ThreadType, thread, thread', c, x) /\ Goes(thread[c], x, pc)
<1>1. thread \in [Clients -> ThreadType] /\ thread[c] \in ThreadType
  BY DEF Types
<1>2. PICK x : x = [thread[c] EXCEPT !.pc = pc]
  OBVIOUS
<1>3. x \in ThreadType
  BY <1>1, <1>2 DEF ThreadType, ThreadPlaces
<1>4. Goes(thread[c], x, pc)
  BY <1>1, <1>2 DEF ThreadType, Goes
<1>5. thread' = [thread EXCEPT ![c] = x]
  BY <1>2 DEF ThreadAt
<1>. QED
  BY <1>1, <1>3, <1>4, <1>5, OneExcept

LEMMA ReplyIs ==
  ASSUME Types, NEW c \in Clients, NEW r, r.op \in WireOps, r.n \in Nat,
         NEW status \in {0, 1}, Reply(c, r, status)
  PROVE  \E x : /\ One(ThreadType, thread, thread', c, x)
                /\ x.pc = "reply" /\ x.op = r.op /\ x.n = r.n /\ x.status = status
<1>1. PICK x : x = [pc |-> "reply", op |-> r.op, n |-> r.n, status |-> status]
  OBVIOUS
<1>2. x \in ThreadType
  BY <1>1 DEF ThreadType, Requests
<1>3. x.pc = "reply" /\ x.op = r.op /\ x.n = r.n /\ x.status = status
  BY <1>1
<1>4. thread' = [thread EXCEPT ![c] = x]
  BY <1>1 DEF Reply
<1>. QED
  BY <1>2, <1>3, <1>4, OneExcept DEF Types

LEMMA ConnOne ==
  ASSUME Types, NEW c \in Clients, NEW w \in Connections(Parts), ConnIs(c, w)
  PROVE  One(Connections(Parts), conn, conn', c, w)
  BY OneExcept DEF Types, ConnIs

LEMMA Unchanged ==
  ASSUME Types, NEW c \in Clients
  PROVE  /\ UNCHANGED cn => One(CallType, cn, cn', c, cn[c])
         /\ UNCHANGED conn => One(Connections(Parts), conn, conn', c, conn[c])
         /\ UNCHANGED thread => One(ThreadType, thread, thread', c, thread[c])
         /\ UNCHANGED log => One(Seq(Nat), log, log', c, log[c])
         /\ UNCHANGED answers => One(Seq(AnswerType), answers, answers', c, answers[c])
  BY OneSame DEF Types

LEMMA Settings ==
  ASSUME Inv
  PROVE  /\ Types
         /\ UNCHANGED <<main, stop, faults>> =>
              Aside /\ (Untaken' <=> Untaken) /\ (Cause' <=> Cause)
<1>1. TypeOK
  BY DEF Inv
<1>2. UNCHANGED <<main, stop, faults>> =>
        Aside /\ (Untaken' <=> Untaken) /\ (Cause' <=> Cause)
  BY <1>1, TypesAre DEF Aside, Untaken, Cause
<1>. QED
  BY <1>1, <1>2, TypesAre

(* A step of session c that fails nothing, and one that does *)
LEMMA PlainStep ==
  ASSUME Inv, NEW c \in Clients, UNCHANGED <<main, stop, faults>>,
         NEW d, NEW w, NEW x, NEW m, NEW b, Turns(c, d, w, x, m, b),
         \A u, z, v \in BOOLEAN :
           Good(cn[c], conn[c], thread[c], log[c], answers[c], u, z, v) =>
             Good(d, w, x, m, b, u, z, v),
         Dead(cn[c]) => Dead(d)
  PROVE  Inv'
<1>1. PICK u, z, v \in BOOLEAN :
        /\ (u <=> Untaken) /\ (z <=> Cause) /\ (v <=> main = "serve")
        /\ Good(cn[c], conn[c], thread[c], log[c], answers[c], u, z, v)
  BY Here
<1>2. Good(d, w, x, m, b, u, z, v)
  BY <1>1
<1>3. (u <=> Untaken') /\ (z <=> Cause') /\ Aside
  BY <1>1, Settings
<1>. QED
  BY <1>1, <1>2, <1>3, SessionStep

LEMMA ConnectStep ==
  ASSUME Inv, NEW c \in Clients, Connect(c)
  PROVE  Inv'
<1>1. cn[c].pc = "new" /\ main = "serve" /\ UNCHANGED <<thread, main, stop, log, answers, faults>>
      /\ ConnIs(c, Established) /\ CnAt(c, "sendHeader")
  BY DEF Connect
<1>2. Types /\ Session(cn[c], conn[c], thread[c], log[c], answers[c])
  BY Settings, Here
<1>3. PICK d : One(CallType, cn, cn', c, d) /\ Moved(cn[c], d, "sendHeader")
  BY <1>1, <1>2, CnAtIs DEF CallPlaces, Exchanging
<1>4. PICK w : Opened(w) /\ One(Connections(Parts), conn, conn', c, w)
  BY <1>1, <1>2, ConnOne, NewConnections DEF Opened
<1>5. Turns(c, d, w, thread[c], log[c], answers[c])
  BY <1>1, <1>2, <1>3, <1>4, Unchanged DEF Turns
<1>6. PICK u, z, v \in BOOLEAN :
        /\ (u <=> Untaken) /\ (z <=> Cause) /\ (v <=> main = "serve")
        /\ Good(cn[c], conn[c], thread[c], log[c], answers[c], u, z, v)
  BY Here
<1>7. Accepts(v)
  BY <1>1, <1>6 DEF Accepts
<1>8. Good(d, w, thread[c], log[c], answers[c], u, z, v)
  <2>1. /\ cn[c].pc = "new" /\ Session(cn[c], conn[c], thread[c], log[c], answers[c])
        /\ Moved(cn[c], d, "sendHeader") /\ Opened(w)
        /\ Good(cn[c], conn[c], thread[c], log[c], answers[c], u, z, v)
    BY <1>1, <1>2, <1>3, <1>4, <1>6
  <2>. QED
    BY <1>7, <2>1, ConnectGood
<1>9. (u <=> Untaken') /\ (z <=> Cause') /\ Aside /\ ~ Dead(cn[c])
  BY <1>1, <1>6, Settings DEF Dead
<1>. QED
  BY <1>5, <1>6, <1>8, <1>9, SessionStep

(* Failures are counted. *)
LEMMA FaultIs ==
  ASSUME Inv, NEW what \in FaultNames, Fault(what), UNCHANGED <<main, stop>>
  PROVE  Aside /\ (Untaken => Untaken') /\ (Cause => Cause')
<1>1. faults \subseteq FaultNames
  BY TypesAre DEF Inv
<1>. QED
  BY <1>1 DEF Aside, Fault, Untaken, Cause

(* A step of session c that fails something *)
LEMMA FaultStep ==
  ASSUME Inv, NEW c \in Clients, NEW what \in FaultNames, Fault(what), UNCHANGED <<main, stop>>,
         NEW d, NEW w, NEW x, NEW m, NEW b, Turns(c, d, w, x, m, b),
         \A u, z, v \in BOOLEAN :
           Good(cn[c], conn[c], thread[c], log[c], answers[c], u, z, v)
             /\ (v <=> main = "serve") /\ (what = "mallocWrite" => u /\ z) =>
             Good(d, w, x, m, b, u, z, v),
         Dead(cn[c]) => Dead(d)
  PROVE  Inv'
<1>1. PICK u, z, v \in BOOLEAN :
        /\ (u <=> Untaken) /\ (z <=> Cause) /\ (v <=> main = "serve")
        /\ Good(cn[c], conn[c], thread[c], log[c], answers[c], u, z, v)
  BY Here
<1>2. Aside /\ (Untaken => Untaken') /\ (Cause => Cause')
  BY FaultIs
<1>3. PICK u2, z2 \in BOOLEAN : (u2 <=> Untaken') /\ (z2 <=> Cause')
  OBVIOUS
<1>4. (u => u2) /\ (z => z2) /\ (v => v)
  BY <1>1, <1>2, <1>3
<1>5. Good(cn[c], conn[c], thread[c], log[c], answers[c], u2, z2, v)
  BY <1>1, <1>4, Weaker
<1>6. what = "mallocWrite" => u2 /\ z2
  BY <1>3 DEF Fault, Untaken, Cause
<1>7. Good(d, w, x, m, b, u2, z2, v)
  BY <1>1, <1>5, <1>6
<1>. QED
  BY <1>1, <1>2, <1>3, <1>7, SessionStep

LEMMA ConnectFailsStep ==
  ASSUME Inv, NEW c \in Clients, ConnectFails(c)
  PROVE  Inv'
<1>1. cn[c].pc = "new" /\ UNCHANGED <<thread, main, stop, log, answers>> /\ CnAt(c, "closed")
      /\ \/ main # "serve" /\ UNCHANGED <<conn, faults>>
         \/ main = "serve" /\ Fault("connect") /\ ConnIn(c, Closings(Established, "cn", FALSE))
  BY DEF ConnectFails
<1>2. Types /\ Session(cn[c], conn[c], thread[c], log[c], answers[c]) /\ ~ Dead(cn[c])
  BY <1>1, Settings, Here DEF Dead
<1>3. PICK d : One(CallType, cn, cn', c, d) /\ Moved(cn[c], d, "closed")
  BY <1>1, <1>2, CnAtIs DEF CallPlaces, Ended
<1>4. CASE main # "serve" /\ UNCHANGED <<conn, faults>>
  <2>1. Turns(c, d, conn[c], thread[c], log[c], answers[c])
    BY <1>1, <1>2, <1>3, <1>4, Unchanged DEF Turns
  <2>2. PICK u, z, v \in BOOLEAN :
          /\ (u <=> Untaken) /\ (z <=> Cause) /\ (v <=> main = "serve")
          /\ Good(cn[c], conn[c], thread[c], log[c], answers[c], u, z, v)
    BY Here
  <2>3. ~ Accepts(v)
    BY <1>4, <2>2 DEF Accepts
  <2>4. Good(d, conn[c], thread[c], log[c], answers[c], u, z, v)
    BY <1>1, <1>2, <1>3, <2>2, <2>3, NotConnectedGood
  <2>5. (u <=> Untaken') /\ (z <=> Cause') /\ Aside
    BY <1>1, <1>4, <2>2, Settings
  <2>. QED
    BY <1>2, <2>1, <2>2, <2>4, <2>5, SessionStep
<1>5. CASE main = "serve" /\ Fault("connect") /\ ConnIn(c, Closings(Established, "cn", FALSE))
  <2>1. PICK w \in Closings(Established, "cn", FALSE) : ConnIs(c, w)
    BY <1>5 DEF ConnIn
  <2>2. w \in Connections(Parts) /\ ConnectClosed(w)
    <3>1. /\ Established \in Connections(Parts) /\ "cn" \in Ends /\ "mn" \in Ends
          /\ Established.state["mn"] = "open" /\ Established.data["mn"] = <<>>
          /\ Len(Out(Established)) = 0
      BY NewConnections, Peers DEF Out
    <3>2. /\ w \in Connections(Parts) /\ CnClosed(Established, w)
          /\ w.coming["mn"] = <<"fin">>
      BY <2>1, <3>1, CnCloses
    <3>. QED
      BY <3>1, <3>2 DEF ConnectClosed, CnClosed
  <2>3. Turns(c, d, w, thread[c], log[c], answers[c])
    BY <1>1, <1>2, <1>3, <2>1, <2>2, ConnOne, Unchanged DEF Turns
  <2>4. \A u, z, v \in BOOLEAN :
          Good(cn[c], conn[c], thread[c], log[c], answers[c], u, z, v)
            /\ (v <=> main = "serve") =>
            Good(d, w, thread[c], log[c], answers[c], u, z, v)
    <3>1. SUFFICES ASSUME NEW u \in BOOLEAN, NEW z \in BOOLEAN, NEW v \in BOOLEAN,
                          Good(cn[c], conn[c], thread[c], log[c], answers[c], u, z, v),
                          v <=> main = "serve"
                   PROVE  Good(d, w, thread[c], log[c], answers[c], u, z, v)
      BY Zenon
    <3>2. Accepts(v)
      BY <1>5, <3>1 DEF Accepts
    <3>. QED
      BY <1>1, <1>2, <1>3, <2>2, <3>1, <3>2, NotConnectedGood
  <2>5. "connect" \in FaultNames /\ "connect" # "mallocWrite"
    BY DEF FaultNames
  <2>. QED
    BY <1>1, <1>2, <1>5, <2>3, <2>4, <2>5, FaultStep
<1>. QED
  BY <1>1, <1>4, <1>5

LEMMA CallStep ==
  ASSUME Inv, NEW c \in Clients, Call(c)
  PROVE  Inv'
<1>1. cn[c].pc = "idle" /\ UNCHANGED <<conn, thread, main, stop, log, answers, faults>>
  BY DEF Call
<1>2. Types /\ Session(cn[c], conn[c], thread[c], log[c], answers[c]) /\ ~ Dead(cn[c])
  BY <1>1, Settings, Here DEF Dead
<1>3. PICK op \in Ops \cup {"CLOSE"} :
        cn' = [cn EXCEPT ![c] = [pc |-> "sendHeader", op |-> op, n |-> cn[c].n + 1, got |-> 0]]
  BY DEF Call
<1>4. PICK d : d = [pc |-> "sendHeader", op |-> op, n |-> cn[c].n + 1, got |-> 0]
  OBVIOUS
<1>5. cn[c].n \in Nat
  BY <1>2, SessionFields
<1>6. d.pc = "sendHeader" /\ d.op \in Ops \cup {"CLOSE"} /\ d.n = cn[c].n + 1
  BY <1>4
<1>7. d \in CallType
  BY <1>4, <1>5 DEF CallType, Exchanging, WireOps, Requests
<1>8. One(CallType, cn, cn', c, d)
  BY <1>2, <1>3, <1>4, <1>7, OneExcept DEF Types
<1>9. Turns(c, d, conn[c], thread[c], log[c], answers[c])
  BY <1>1, <1>2, <1>8, Unchanged DEF Turns
<1>10. \A u, z, v \in BOOLEAN :
         Good(cn[c], conn[c], thread[c], log[c], answers[c], u, z, v) =>
           Good(d, conn[c], thread[c], log[c], answers[c], u, z, v)
  BY <1>1, <1>2, <1>6, CallGood
<1>. QED
  BY <1>1, <1>2, <1>9, <1>10, PlainStep

LEMMA SendRequestStep ==
  ASSUME Inv, NEW c \in Clients, SendRequest(c)
  PROVE  Inv'
<1>. DEFINE p == IF cn[c].pc = "sendHeader" THEN Header(cn[c].op, cn[c].n, 0) ELSE Payload(cn[c].n)
            pc == IF cn[c].pc = "sendHeader" /\ cn[c].op = "WRITE" THEN "sendPayload" ELSE "recvHeader"
<1>1. /\ cn[c].pc \in {"sendHeader", "sendPayload"} /\ SendGoes(conn[c], "cn")
      /\ ConnIs(c, Sent(conn[c], "cn", p)) /\ CnAt(c, pc)
      /\ UNCHANGED <<thread, main, stop, log, answers, faults>>
  BY DEF SendRequest
<1>2. Types /\ Session(cn[c], conn[c], thread[c], log[c], answers[c]) /\ ~ Dead(cn[c])
  BY <1>1, Settings, Here DEF Dead
<1>3. cn[c].op \in WireOps /\ cn[c].n \in Nat /\ conn[c] \in Connections(Parts)
  BY <1>2, SessionFields DEF Session
<1>4. /\ p \in Parts
      /\ cn[c].pc = "sendHeader" => p.part = "header" /\ p.op = cn[c].op /\ p.n = cn[c].n
      /\ cn[c].pc = "sendPayload" => p.part = "payload"
  BY <1>1, <1>3, PartsAre
<1>5. pc \in CallPlaces
  BY DEF CallPlaces, Exchanging
<1>. HIDE DEF p, pc
<1>6. PICK d : One(CallType, cn, cn', c, d) /\ Moved(cn[c], d, pc)
  BY <1>1, <1>2, <1>5, CnAtIs
<1>7. PICK w : w = Sent(conn[c], "cn", p)
  OBVIOUS
<1>8. w \in Connections(Parts) /\ CnSent(conn[c], p, w)
  BY <1>3, <1>4, <1>7, CnSends, SentIs, Peers
<1>9. One(Connections(Parts), conn, conn', c, w)
  BY <1>1, <1>2, <1>7, <1>8, ConnOne
<1>10. Turns(c, d, w, thread[c], log[c], answers[c])
  BY <1>1, <1>2, <1>6, <1>9, Unchanged DEF Turns
<1>11. ASSUME NEW u \in BOOLEAN, NEW z \in BOOLEAN, NEW v \in BOOLEAN,
              Good(cn[c], conn[c], thread[c], log[c], answers[c], u, z, v)
       PROVE  Good(d, w, thread[c], log[c], answers[c], u, z, v)
  <2>1. /\ Session(cn[c], conn[c], thread[c], log[c], answers[c])
        /\ SendGoes(conn[c], "cn") /\ CnSent(conn[c], p, w) /\ p \in Parts
    BY <1>1, <1>2, <1>4, <1>8
  <2>2. CASE cn[c].pc = "sendHeader"
    <3>1. /\ p.part = "header" /\ p.op = cn[c].op /\ p.n = cn[c].n
          /\ Moved(cn[c], d, IF cn[c].op = "WRITE" THEN "sendPayload" ELSE "recvHeader")
      BY <1>4, <1>6, <2>2 DEF pc
    <3>. QED
      BY <1>11, <2>1, <2>2, <3>1, SendHeaderGood
  <2>3. CASE cn[c].pc = "sendPayload"
    <3>1. p.part = "payload" /\ Moved(cn[c], d, "recvHeader")
      BY <1>4, <1>6, <2>3 DEF pc
    <3>. QED
      BY <1>11, <2>1, <2>3, <3>1, SendPayloadGood
  <2>. QED
    BY <1>1, <2>2, <2>3
<1>. QED
  BY <1>1, <1>2, <1>10, <1>11, PlainStep

(* td_tcp_exchange returns. *)
LEMMA ReturnCloses ==
  ASSUME Types, NEW c \in Clients, NEW ok \in BOOLEAN, NEW k \in Connections(Parts), NEW of,
         Return(c, ok, k, of), cn[c].op = "CLOSE" \/ (cn[c].op = "HELLO" /\ ~ ok)
  PROVE  \E d, w : /\ Moved(cn[c], d, "closed") /\ CnClosed(k, w)
                   /\ Turns(c, d, w, thread[c], log[c], answers[c])
<1>1. CnAt(c, "closed") /\ ConnIn(c, Closings(k, "cn", FALSE)) /\ UNCHANGED <<thread, main, stop, log, faults>>
  BY DEF Return
<1>2. UNCHANGED answers
  <2>1. cn[c].op \notin Ops
    BY DEF Ops
  <2>. QED
    BY <2>1 DEF Return
<1>3. PICK d : One(CallType, cn, cn', c, d) /\ Moved(cn[c], d, "closed")
  BY <1>1, CnAtIs DEF CallPlaces, Ended
<1>4. PICK w \in Closings(k, "cn", FALSE) : ConnIs(c, w)
  BY <1>1 DEF ConnIn
<1>5. w \in Connections(Parts) /\ CnClosed(k, w)
  BY <1>4, CnCloses
<1>6. One(Connections(Parts), conn, conn', c, w)
  BY <1>4, <1>5, ConnOne
<1>. QED
  BY <1>1, <1>2, <1>3, <1>5, <1>6, Unchanged DEF Turns

LEMMA ReturnKeeps ==
  ASSUME Types, NEW c \in Clients, NEW ok \in BOOLEAN, NEW k \in Connections(Parts),
         NEW of \in SUBSET Nat,
         Return(c, ok, k, of), ~ (cn[c].op = "CLOSE" \/ (cn[c].op = "HELLO" /\ ~ ok))
  PROVE  \E d, b : /\ Moved(cn[c], d, "idle")
                   /\ Turns(c, d, k, thread[c], log[c], b)
                   /\ IF cn[c].op = "HELLO" THEN b = answers[c] ELSE Noted(answers[c], b, ok, of)
<1>1. CnAt(c, "idle") /\ ConnIs(c, k) /\ UNCHANGED <<thread, main, stop, log, faults>>
  BY DEF Return
<1>2. PICK d : One(CallType, cn, cn', c, d) /\ Moved(cn[c], d, "idle")
  BY <1>1, CnAtIs DEF CallPlaces
<1>3. One(Connections(Parts), conn, conn', c, k)
  BY <1>1, ConnOne
<1>4. PICK b : /\ One(Seq(AnswerType), answers, answers', c, b)
               /\ IF cn[c].op = "HELLO" THEN b = answers[c] ELSE Noted(answers[c], b, ok, of)
  <2>1. CASE cn[c].op = "HELLO"
    <3>1. UNCHANGED answers
      BY <2>1 DEF Return, Ops
    <3>. QED
      BY <2>1, <3>1, Unchanged
  <2>2. CASE cn[c].op # "HELLO"
    <3>1. cn[c].op \in Ops
      <4>1. cn[c].op \in WireOps /\ cn[c].op # "CLOSE"
        BY DEF Types, CallType
      <4>. QED
        BY <2>2, <4>1 DEF WireOps
    <3>2. answers' = [answers EXCEPT ![c] = Append(@, [op |-> cn[c].op, ok |-> ok, of |-> of])]
      BY <3>1 DEF Return
    <3>3. PICK b : b = Append(answers[c], [op |-> cn[c].op, ok |-> ok, of |-> of])
      OBVIOUS
    <3>4. answers[c] \in Seq(AnswerType)
      BY DEF Types
    <3>5. b \in Seq(AnswerType) /\ Noted(answers[c], b, ok, of)
      BY <3>1, <3>3, <3>4, Notes
    <3>6. answers' = [answers EXCEPT ![c] = b]
      BY <3>2, <3>3
    <3>7. One(Seq(AnswerType), answers, answers', c, b)
      BY <3>5, <3>6, OneExcept DEF Types
    <3>. QED
      BY <2>2, <3>5, <3>7
  <2>. QED
    BY <2>1, <2>2
<1>. QED
  BY <1>1, <1>2, <1>3, <1>4, Unchanged DEF Turns

(* An exchange fails: the memory node has closed. *)
LEMMA FailStep ==
  ASSUME Inv, NEW c \in Clients, cn[c].pc \in Exchanging,
         SendFails(conn[c], "cn") \/ AtEnd(conn[c], "cn"),
         Return(c, FALSE, Reported(conn[c], "cn"), {})
  PROVE  Inv'
<1>1. UNCHANGED <<main, stop, faults>>
  BY DEF Return
<1>2. Types /\ Session(cn[c], conn[c], thread[c], log[c], answers[c]) /\ ~ Dead(cn[c])
      /\ Engaged(cn[c])
  BY Settings, Here DEF Dead, Exchanging, Engaged
<1>3. conn[c] \in Connections(Parts)
  BY <1>2 DEF Session
<1>4. PICK j : j = Reported(conn[c], "cn")
  OBVIOUS
<1>5. /\ j \in Connections(Parts) /\ j.data = conn[c].data /\ j.coming = conn[c].coming
      /\ j.state["mn"] = conn[c].state["mn"]
      /\ j.state["cn"] = IF conn[c].state["cn"] = "reset" THEN "pipe" ELSE conn[c].state["cn"]
  BY <1>3, <1>4, ReportedIs, Peers
<1>6. FALSE \in BOOLEAN /\ {} \in SUBSET Nat /\ Return(c, FALSE, j, {})
  BY <1>4
<1>7. conn[c].state["mn"] = "closed"
  <2>1. Wired(cn[c], conn[c])
    BY Here DEF Good, Sound
  <2>2. conn[c].state["cn"] \in {"fin", "reset", "pipe"}
    BY DEF SendFails, AtEnd
  <2>. QED
    BY <2>1, <2>2 DEF Wired
<1>8. CASE cn[c].op \in {"HELLO", "CLOSE"}
  <2>1. PICK d, w : /\ Moved(cn[c], d, "closed") /\ CnClosed(j, w)
                    /\ Turns(c, d, w, thread[c], log[c], answers[c])
    BY <1>2, <1>5, <1>6, <1>8, ReturnCloses
  <2>2. ASSUME NEW u \in BOOLEAN, NEW z \in BOOLEAN, NEW v \in BOOLEAN,
               Good(cn[c], conn[c], thread[c], log[c], answers[c], u, z, v)
        PROVE  Good(d, w, thread[c], log[c], answers[c], u, z, v)
    <3>1. "closed" \in Ended /\ "closed" # "killed"
      BY DEF Ended
    <3>2. j.data["mn"] = conn[c].data["mn"] /\ j.coming["mn"] = conn[c].coming["mn"]
      BY <1>5
    <3>. QED
      BY <1>2, <1>5, <1>7, <2>1, <2>2, <3>1, <3>2, GoneGood
  <2>. QED
    BY <1>1, <1>2, <2>1, <2>2, PlainStep
<1>9. CASE cn[c].op \notin {"HELLO", "CLOSE"}
  <2>1. PICK d, b : /\ Moved(cn[c], d, "idle")
                    /\ Turns(c, d, j, thread[c], log[c], b)
                    /\ Noted(answers[c], b, FALSE, {})
    BY <1>2, <1>5, <1>6, <1>9, ReturnKeeps
  <2>2. cn[c].op \in Ops
    BY <1>2, <1>9, SessionFields DEF WireOps
  <2>3. ASSUME NEW u \in BOOLEAN, NEW z \in BOOLEAN, NEW v \in BOOLEAN,
               Good(cn[c], conn[c], thread[c], log[c], answers[c], u, z, v)
        PROVE  Good(d, j, thread[c], log[c], b, u, z, v)
    BY <1>2, <1>5, <2>1, <2>2, <2>3, FailGood, ZenonT(30)
  <2>. QED
    BY <1>1, <1>2, <2>1, <2>3, PlainStep
<1>. QED
  BY <1>8, <1>9

LEMMA FailsStep ==
  ASSUME Inv, NEW c \in Clients, SendRequestFails(c) \/ ReceiveFails(c)
  PROVE  Inv'
<1>1. CASE SendRequestFails(c)
  BY <1>1, FailStep DEF SendRequestFails, Exchanging
<1>2. CASE ReceiveFails(c)
  BY <1>2, FailStep DEF ReceiveFails, Exchanging
<1>. QED
  BY <1>1, <1>2

(* The process is gone. *)
LEMMA GoneIs ==
  ASSUME Inv, NEW c \in Clients, NEW as \in {"crashed", "killed"}, CnGone(c, as),
         Engaged(cn[c]),
         as = "killed" => cn[c].pc \in {"sendHeader", "sendPayload"} /\ SendKills(conn[c], "cn")
  PROVE  \E d, w : /\ Turns(c, d, w, thread[c], log[c], answers[c]) /\ Dead(d)
                   /\ \A u, z, v \in BOOLEAN :
                        Good(cn[c], conn[c], thread[c], log[c], answers[c], u, z, v) =>
                          Good(d, w, thread[c], log[c], answers[c], u, z, v)
<1>1. CnAt(c, as) /\ ConnIn(c, Closings(conn[c], "cn", FALSE)) /\ UNCHANGED <<thread, main, stop, log, answers>>
  BY DEF CnGone
<1>2. Types /\ Session(cn[c], conn[c], thread[c], log[c], answers[c])
  BY Settings, Here
<1>3. PICK d : One(CallType, cn, cn', c, d) /\ Moved(cn[c], d, as)
  BY <1>1, <1>2, CnAtIs DEF CallPlaces, Ended
<1>4. PICK w \in Closings(conn[c], "cn", FALSE) : ConnIs(c, w)
  BY <1>1 DEF ConnIn
<1>5. conn[c] \in Connections(Parts)
  BY <1>2 DEF Session
<1>6. w \in Connections(Parts) /\ CnClosed(conn[c], w)
  BY <1>4, <1>5, CnCloses
<1>7. One(Connections(Parts), conn, conn', c, w)
  BY <1>2, <1>4, <1>6, ConnOne
<1>8. Turns(c, d, w, thread[c], log[c], answers[c])
  BY <1>1, <1>2, <1>3, <1>7, Unchanged DEF Turns
<1>9. Dead(d)
  BY <1>3 DEF Dead, Moved
<1>10. ASSUME NEW u \in BOOLEAN, NEW z \in BOOLEAN, NEW v \in BOOLEAN,
              Good(cn[c], conn[c], thread[c], log[c], answers[c], u, z, v)
       PROVE  Good(d, w, thread[c], log[c], answers[c], u, z, v)
  <2>1. as \in Ended /\ as # "closed"
    BY DEF Ended
  <2>2. Moved(cn[c], d, as) /\ CnClosed(conn[c], w)
    BY <1>3, <1>6
  <2>3. CASE as = "crashed"
    <3>1. Moved(cn[c], d, "crashed") /\ "crashed" \in Ended
      BY <2>1, <2>2, <2>3
    <3>. QED
      BY <1>2, <1>5, <1>10, <2>2, <3>1, GoneGood
  <2>4. CASE as = "killed"
    <3>1. Moved(cn[c], d, "killed") /\ "killed" \in Ended
          /\ cn[c].pc \in {"sendHeader", "sendPayload"} /\ SendKills(conn[c], "cn")
      BY <2>1, <2>2, <2>4
    <3>. QED
      BY <1>2, <1>5, <1>10, <2>2, <3>1, GoneGood
  <2>. QED
    BY <2>3, <2>4
<1>. QED
  BY <1>8, <1>9, <1>10

LEMMA CrashStep ==
  ASSUME Inv, NEW c \in Clients, Crash(c)
  PROVE  Inv'
<1>1. Fault("crash") /\ CnGone(c, "crashed") /\ Engaged(cn[c]) /\ UNCHANGED <<main, stop>>
  BY DEF Crash, CnGone, Engaged
<1>2. PICK d, w : /\ Turns(c, d, w, thread[c], log[c], answers[c]) /\ Dead(d)
                  /\ \A u, z, v \in BOOLEAN :
                        Good(cn[c], conn[c], thread[c], log[c], answers[c], u, z, v) =>
                          Good(d, w, thread[c], log[c], answers[c], u, z, v)
  BY <1>1, GoneIs
<1>3. "crash" \in FaultNames
  BY DEF FaultNames
<1>. QED
  BY <1>1, <1>2, <1>3, FaultStep

LEMMA CnKilledStep ==
  ASSUME Inv, NEW c \in Clients, CnKilled(c)
  PROVE  Inv'
<1>1. /\ CnGone(c, "killed") /\ Engaged(cn[c]) /\ UNCHANGED <<main, stop, faults>>
      /\ cn[c].pc \in {"sendHeader", "sendPayload"} /\ SendKills(conn[c], "cn")
  BY DEF CnKilled, CnGone, Engaged, Exchanging
<1>2. PICK d, w : /\ Turns(c, d, w, thread[c], log[c], answers[c]) /\ Dead(d)
                  /\ \A u, z, v \in BOOLEAN :
                        Good(cn[c], conn[c], thread[c], log[c], answers[c], u, z, v) =>
                          Good(d, w, thread[c], log[c], answers[c], u, z, v)
  BY <1>1, GoneIs
<1>. QED
  BY <1>1, <1>2, PlainStep

(* The header of the response is read. *)
LEMMA ReceiveHeaderStep ==
  ASSUME Inv, NEW c \in Clients, ReceiveHeader(c)
  PROVE  Inv'
<1>. DEFINE r == Head(conn[c].data["cn"])
<1>1. cn[c].pc = "recvHeader" /\ CanReceive(conn[c], "cn")
  BY DEF ReceiveHeader
<1>2. Types /\ Session(cn[c], conn[c], thread[c], log[c], answers[c]) /\ ~ Dead(cn[c])
      /\ Engaged(cn[c])
  BY <1>1, Settings, Here DEF Dead, Exchanging, Engaged
<1>3. conn[c] \in Connections(Parts)
  BY <1>2 DEF Session
<1>4. PICK w : w = Received(conn[c], "cn")
  OBVIOUS
<1>5. w \in Connections(Parts) /\ CnGot(conn[c], w) /\ r = Out(conn[c])[1]
  BY <1>1, <1>3, <1>4, CnReceives
<1>6. r \in Parts /\ r.n \in Nat
  <2>1. Out(conn[c]) \in Seq(Parts) /\ Len(Out(conn[c])) > 0
    BY <1>2, <1>5, SessionFields DEF CnGot
  <2>2. Out(conn[c])[1] \in Parts
    BY <2>1
  <2>. QED
    BY <1>5, <2>2, PartsAre
<1>7. PICK p : p = r
  OBVIOUS
<1>8. p = Out(conn[c])[1] /\ p.n \in Nat /\ {p.n} \in SUBSET Nat
  BY <1>5, <1>6, <1>7
<1>9. CASE cn[c].op = "READ" /\ WentWell(p)
  <2>1. /\ cn' = [cn EXCEPT ![c].pc = "recvPayload", ![c].got = p.n]
        /\ ConnIs(c, w) /\ UNCHANGED <<thread, main, stop, log, answers, faults>>
    BY <1>4, <1>7, <1>9 DEF ReceiveHeader, WentWell
  <2>2. PICK d : d = [cn[c] EXCEPT !.pc = "recvPayload", !.got = p.n]
    OBVIOUS
  <2>3. cn[c] \in CallType
    BY <1>2 DEF Session
  <2>4. d \in CallType
    BY <1>8, <2>2, <2>3 DEF CallType, Exchanging, Requests
  <2>5. d.pc = "recvPayload" /\ d.op = cn[c].op /\ d.n = cn[c].n /\ d.got = p.n
    BY <2>2, <2>3 DEF CallType
  <2>6. cn' = [cn EXCEPT ![c] = d]
    BY <2>1, <2>2, <2>3, <1>2 DEF Types
  <2>7. One(CallType, cn, cn', c, d) /\ One(Connections(Parts), conn, conn', c, w)
    BY <1>2, <1>5, <2>1, <2>4, <2>6, OneExcept, ConnOne DEF Types
  <2>8. Turns(c, d, w, thread[c], log[c], answers[c])
    BY <1>2, <2>1, <2>7, Unchanged DEF Turns
  <2>9. ASSUME NEW u \in BOOLEAN, NEW z \in BOOLEAN, NEW v \in BOOLEAN,
               Good(cn[c], conn[c], thread[c], log[c], answers[c], u, z, v)
        PROVE  Good(d, w, thread[c], log[c], answers[c], u, z, v)
    <3>1. WentWell(Out(conn[c])[1]) /\ d.got = Out(conn[c])[1].n
      BY <1>8, <1>9, <2>5
    <3>. QED
      BY <1>1, <1>2, <1>5, <1>9, <2>5, <2>9, <3>1, HeaderGood
  <2>. QED
    BY <1>2, <2>1, <2>8, <2>9, PlainStep
<1>10. CASE ~ (cn[c].op = "READ" /\ WentWell(p))
  <2>1. PICK ok \in BOOLEAN : ok = WentWell(p)
    <3>1. WentWell(p) \in BOOLEAN
      BY DEF WentWell
    <3>. QED
      BY <3>1, Zenon
  <2>2. Return(c, r.status = 0, Received(conn[c], "cn"), {r.n})
    BY <1>7, <1>10, Zenon DEF ReceiveHeader, WentWell
  <2>3. Return(c, ok, w, {p.n})
    BY <1>4, <1>7, <2>1, <2>2, Zenon DEF WentWell
  <2>4. UNCHANGED <<main, stop, faults>>
    BY <2>3 DEF Return
  <2>5. /\ cn[c].op = "HELLO" => ok
        /\ cn[c].op = "CLOSE" => conn[c].state["mn"] = "closed"
    <3>1. PICK u, z, v \in BOOLEAN :
            Good(cn[c], conn[c], thread[c], log[c], answers[c], u, z, v)
      BY Here
    <3>2. Len(Out(conn[c])) > 0
      BY <1>5 DEF CnGot
    <3>3. /\ cn[c].op = "HELLO" => WentWell(Out(conn[c])[1])
          /\ cn[c].op = "CLOSE" => conn[c].state["mn"] = "closed"
      BY <1>1, <1>2, <3>1, <3>2, LastHeader
    <3>. QED
      BY <1>8, <2>1, <3>3
  <2>6. CASE cn[c].op = "CLOSE"
    <3>1. PICK d, y : /\ Moved(cn[c], d, "closed") /\ CnClosed(w, y)
                      /\ Turns(c, d, y, thread[c], log[c], answers[c])
      BY <1>2, <1>5, <2>3, <2>6, ReturnCloses
    <3>2. ASSUME NEW u \in BOOLEAN, NEW z \in BOOLEAN, NEW v \in BOOLEAN,
                 Good(cn[c], conn[c], thread[c], log[c], answers[c], u, z, v)
          PROVE  Good(d, y, thread[c], log[c], answers[c], u, z, v)
      <4>1. "closed" \in Ended /\ "closed" # "killed"
        BY DEF Ended
      <4>2. w.state["mn"] = conn[c].state["mn"] /\ w.data["mn"] = conn[c].data["mn"]
            /\ w.coming["mn"] = conn[c].coming["mn"] /\ conn[c].state["mn"] = "closed"
        BY <1>5, <2>5, <2>6 DEF CnGot
      <4>. QED
        BY <1>2, <1>5, <3>1, <3>2, <4>1, <4>2, GoneGood
    <3>. QED
      BY <1>2, <2>4, <3>1, <3>2, PlainStep
  <2>7. CASE cn[c].op # "CLOSE"
    <3>1. {p.n} \in SUBSET Nat /\ ~ (cn[c].op = "CLOSE" \/ (cn[c].op = "HELLO" /\ ~ ok))
      BY <1>8, <2>5, <2>7
    <3>2. PICK d, b : /\ Moved(cn[c], d, "idle")
                      /\ Turns(c, d, w, thread[c], log[c], b)
                      /\ IF cn[c].op = "HELLO" THEN b = answers[c]
                         ELSE Noted(answers[c], b, ok, {p.n})
      BY <1>2, <1>5, <2>3, <3>1, ReturnKeeps
    <3>3. /\ ~ (cn[c].op = "READ" /\ WentWell(Out(conn[c])[1]))
          /\ NotedIf(cn[c], answers[c], b, Out(conn[c])[1])
      BY <1>8, <1>10, <2>1, <3>2, Zenon DEF NotedIf
    <3>4. ASSUME NEW u \in BOOLEAN, NEW z \in BOOLEAN, NEW v \in BOOLEAN,
                 Good(cn[c], conn[c], thread[c], log[c], answers[c], u, z, v)
          PROVE  Good(d, w, thread[c], log[c], b, u, z, v)
      BY <1>1, <1>2, <1>5, <2>7, <3>2, <3>3, <3>4, AnswerGood
    <3>. QED
      BY <1>2, <2>4, <3>2, <3>4, PlainStep
  <2>. QED
    BY <2>6, <2>7
<1>. QED
  BY <1>9, <1>10

LEMMA ReceivePayloadStep ==
  ASSUME Inv, NEW c \in Clients, ReceivePayload(c)
  PROVE  Inv'
<1>. DEFINE r == Head(conn[c].data["cn"])
<1>1. cn[c].pc = "recvPayload" /\ CanReceive(conn[c], "cn")
      /\ Return(c, TRUE, Received(conn[c], "cn"), {cn[c].got, r.n})
  BY DEF ReceivePayload
<1>2. Types /\ Session(cn[c], conn[c], thread[c], log[c], answers[c]) /\ ~ Dead(cn[c])
  BY <1>1, Settings, Here DEF Dead
<1>3. conn[c] \in Connections(Parts) /\ cn[c].got \in Nat
  BY <1>2, SessionFields DEF Session
<1>4. PICK w : w = Received(conn[c], "cn")
  OBVIOUS
<1>5. w \in Connections(Parts) /\ CnGot(conn[c], w) /\ r = Out(conn[c])[1]
  BY <1>1, <1>3, <1>4, CnReceives
<1>6. Out(conn[c])[1].n \in Nat
  <2>1. Out(conn[c]) \in Seq(Parts) /\ Len(Out(conn[c])) > 0
    BY <1>2, <1>5, SessionFields DEF CnGot
  <2>2. Out(conn[c])[1] \in Parts
    BY <2>1
  <2>. QED
    BY <2>2, PartsAre
<1>7. PICK of : of = {cn[c].got, Out(conn[c])[1].n}
  OBVIOUS
<1>8. of \in SUBSET Nat
  BY <1>3, <1>6, <1>7
<1>9. Return(c, TRUE, w, of) /\ TRUE \in BOOLEAN /\ UNCHANGED <<main, stop, faults>>
  BY <1>1, <1>4, <1>5, <1>7 DEF Return
<1>10. cn[c].op = "READ"
  BY <1>1, Here DEF Good, Sound, Counted
<1>11. cn[c].op \notin {"CLOSE", "HELLO"}
  BY <1>10
<1>12. PICK d, b : /\ Moved(cn[c], d, "idle")
                   /\ Turns(c, d, w, thread[c], log[c], b)
                   /\ Noted(answers[c], b, TRUE, of)
  BY <1>2, <1>5, <1>8, <1>9, <1>11, ReturnKeeps
<1>13. ASSUME NEW u \in BOOLEAN, NEW z \in BOOLEAN, NEW v \in BOOLEAN,
              Good(cn[c], conn[c], thread[c], log[c], answers[c], u, z, v)
       PROVE  Good(d, w, thread[c], log[c], b, u, z, v)
  <2>1. NotedBoth(cn[c], answers[c], b, Out(conn[c])[1])
    BY <1>7, <1>12 DEF NotedBoth
  <2>2. Moved(cn[c], d, "idle") /\ CnGot(conn[c], w)
    BY <1>5, <1>12
  <2>. QED
    BY <1>1, <1>2, <1>13, <2>1, <2>2, PayloadGood
<1>. QED
  BY <1>2, <1>9, <1>12, <1>13, PlainStep

(* The memory node                                                         *)

(* A thread ends with its connection, which was k until then. *)
LEMMA EndStep ==
  ASSUME Inv, NEW c \in Clients, NEW k, NEW t,
         Session(cn[c], k, t, log[c], answers[c]), k.state["mn"] # "closed",
         \A u, z, v \in BOOLEAN :
           Good(cn[c], conn[c], thread[c], log[c], answers[c], u, z, v) =>
             Sound(cn[c], k, t, log[c], answers[c], u, z, v),
         NEW w \in Connections(Parts), MnClosed(k, w),
         ThreadAt(c, "closed"), ConnIs(c, w), UNCHANGED <<cn, log, answers>>,
         UNCHANGED <<main, stop>>,
         UNCHANGED faults \/ Fault("thread"),
         Engaged(cn[c]) => \/ Cause
                           \/ cn[c].op = "CLOSE" /\ cn[c].pc = "recvHeader"
                           \/ t.pc = "none" /\ (Len(In(k)) = 0 => w.coming["cn"] = <<"fin">>)
  PROVE  Inv'
<1>1. Types
  BY Settings
<1>2. PICK x : One(ThreadType, thread, thread', c, x) /\ x.pc = "closed"
  BY <1>1, ThreadAtIs DEF ThreadPlaces, Goes
<1>3. One(Connections(Parts), conn, conn', c, w)
  BY <1>1, ConnOne
<1>4. Turns(c, cn[c], w, x, log[c], answers[c])
  BY <1>1, <1>2, <1>3, Unchanged DEF Turns
<1>5. PICK u, z, v \in BOOLEAN :
        /\ (u <=> Untaken) /\ (z <=> Cause) /\ (v <=> main = "serve")
        /\ Good(cn[c], conn[c], thread[c], log[c], answers[c], u, z, v)
  BY Here
<1>6. Sound(cn[c], k, t, log[c], answers[c], u, z, v)
  BY <1>5
<1>7. /\ (z => z) /\ (v => v)
      /\ Engaged(cn[c]) => \/ z
                           \/ cn[c].op = "CLOSE" /\ cn[c].pc = "recvHeader"
                           \/ t.pc = "none" /\ (Len(In(k)) = 0 => w.coming["cn"] = <<"fin">>)
  BY <1>5
<1>8. Good(cn[c], w, x, log[c], answers[c], u, z, v)
  BY <1>2, <1>6, <1>7, EndGood
<1>9. Aside /\ (u <=> Untaken') /\ (z <=> Cause')
  <2>1. CASE UNCHANGED faults
    BY <1>5, <2>1, Settings
  <2>2. CASE Fault("thread")
    <3>1. "thread" \in FaultNames
      BY DEF FaultNames
    <3>2. Aside
      BY <2>2, <3>1, FaultIs
    <3>3. Untaken' <=> Untaken
      BY <2>2 DEF Fault, Untaken
    <3>4. Cause' <=> Cause
      BY <3>3 DEF Cause
    <3>. QED
      BY <1>5, <3>2, <3>3, <3>4
  <2>. QED
    BY <2>1, <2>2
<1>. QED
  BY <1>4, <1>5, <1>8, <1>9, SessionStep

(* ... which was as it is *)
LEMMA DoneStep ==
  ASSUME Inv, NEW c \in Clients, NEW unread \in BOOLEAN,
         ThreadAt(c, "closed"), ConnIn(c, Closings(conn[c], "mn", unread)),
         thread[c].pc # "closed", conn[c].state["mn"] # "closed",
         UNCHANGED <<cn, log, answers>>, UNCHANGED <<main, stop>>,
         UNCHANGED faults \/ Fault("thread"),
         Engaged(cn[c]) => Cause \/ (thread[c].pc = "none" /\ ~ unread)
  PROVE  Inv'
<1>1. Session(cn[c], conn[c], thread[c], log[c], answers[c])
  BY Here
<1>2. conn[c] \in Connections(Parts)
  BY <1>1 DEF Session
<1>3. PICK w \in Closings(conn[c], "mn", unread) : ConnIs(c, w)
  BY DEF ConnIn
<1>4. /\ w \in Connections(Parts) /\ MnClosed(conn[c], w)
      /\ ~ unread /\ conn[c].state["cn"] # "closed" /\ Len(In(conn[c])) = 0 =>
           w.coming["cn"] = <<"fin">>
  BY <1>2, <1>3, MnCloses
<1>5. Engaged(cn[c]) => conn[c].state["cn"] # "closed"
  BY Here DEF Good, Sound, Wired
<1>6. \A u, z, v \in BOOLEAN :
        Good(cn[c], conn[c], thread[c], log[c], answers[c], u, z, v) =>
          Sound(cn[c], conn[c], thread[c], log[c], answers[c], u, z, v)
  BY Zenon DEF Good
<1>7. Engaged(cn[c]) =>
        \/ Cause
        \/ thread[c].pc = "none" /\ (Len(In(conn[c])) = 0 => w.coming["cn"] = <<"fin">>)
  BY <1>4, <1>5
<1>. QED
  BY <1>1, <1>3, <1>4, <1>6, <1>7, EndStep

LEMMA CheckStopStep ==
  ASSUME Inv, NEW c \in Clients, CheckStop(c)
  PROVE  Inv'
<1>1. thread[c].pc = "check" /\ UNCHANGED <<cn, main, stop, answers, log, faults>>
  BY DEF CheckStop, threadKeeps
<1>2. Types /\ Session(cn[c], conn[c], thread[c], log[c], answers[c])
  BY Settings, Here
<1>3. conn[c].state["mn"] # "closed"
  BY <1>1, Here DEF Good, Sound, Hosted
<1>4. CASE stop
  <2>1. ThreadAt(c, "closed") /\ ConnIn(c, Closings(conn[c], "mn", FALSE))
    BY <1>4 DEF CheckStop, Done
  <2>2. Cause
    BY <1>4 DEF Cause
  <2>. QED
    BY <1>1, <1>3, <2>1, <2>2, DoneStep
<1>5. CASE ~ stop
  <2>1. ThreadAt(c, "recv") /\ UNCHANGED conn
    BY <1>5 DEF CheckStop
  <2>2. PICK x : One(ThreadType, thread, thread', c, x) /\ x.pc = "recv"
    BY <1>2, <2>1, ThreadAtIs DEF ThreadPlaces, Goes
  <2>3. Turns(c, cn[c], conn[c], x, log[c], answers[c])
    BY <1>1, <1>2, <2>1, <2>2, Unchanged DEF Turns
  <2>4. ASSUME NEW u \in BOOLEAN, NEW z \in BOOLEAN, NEW v \in BOOLEAN,
               Good(cn[c], conn[c], thread[c], log[c], answers[c], u, z, v)
        PROVE  Good(cn[c], conn[c], x, log[c], answers[c], u, z, v)
    BY <1>1, <1>2, <2>2, <2>4, ProceedGood
  <2>. QED
    BY <1>1, <2>3, <2>4, PlainStep
<1>. QED
  BY <1>4, <1>5

(* The connection has ended on the other side, which is gone. *)
LEMMA LostStep ==
  ASSUME Inv, NEW c \in Clients, conn[c].state["mn"] \in {"fin", "reset", "pipe"},
         thread[c].pc # "closed",
         ThreadAt(c, "closed"), ConnIn(c, Closings(conn[c], "mn", FALSE)),
         UNCHANGED <<cn, log, answers>>, UNCHANGED <<main, stop, faults>>
  PROVE  Inv'
<1>1. Wired(cn[c], conn[c])
  BY Here DEF Good, Sound
<1>2. ~ Engaged(cn[c]) /\ conn[c].state["mn"] # "closed"
  BY <1>1 DEF Wired
<1>. QED
  BY <1>2, DoneStep

LEMMA EndsStep ==
  ASSUME Inv, NEW c \in Clients, RequestEnds(c) \/ SendResponseFails(c)
  PROVE  Inv'
<1>1. /\ thread[c].pc # "closed" /\ conn[c].state["mn"] \in {"fin", "reset", "pipe"}
      /\ Done(c, FALSE) /\ UNCHANGED <<cn, main, stop, answers, log, faults>>
  BY DEF RequestEnds, SendResponseFails, AtEnd, SendFails, threadKeeps
<1>. QED
  BY <1>1, LostStep DEF Done

(* A payload in place of a header *)
LEMMA PoisonGood ==
  ASSUME NEW c, NEW k, NEW t, NEW l, NEW a, Session(c, k, t, l, a),
         NEW u \in BOOLEAN, NEW z \in BOOLEAN, NEW v \in BOOLEAN,
         Good(c, k, t, l, a, u, z, v), t.pc = "recv",
         Len(In(k)) > 0, In(k)[1].part = "payload", Engaged(c)
  PROVE  u
<1>1. Hosted(c, k, t, v) /\ Talking(c, k, t, l, u)
  BY DEF Good, Sound
<1>2. k.state["mn"] # "closed" /\ Len(In(k)) \in Nat
  BY <1>1, SessionFields DEF Hosted
<1>3. Left(In(k), u) \/ Asked(c, k, t, u)
  BY <1>1, <1>2 DEF Talking, Unasked, Taking, Answering, AnsweringMore, Answered
<1>4. Left(In(k), u) => u
  BY <1>2 DEF Left
<1>5. Asked(c, k, t, u) => u
  <2>1. SUFFICES ASSUME Asked(c, k, t, u) PROVE u
    OBVIOUS
  <2>2. PICK h \in {1, 2} : (h = 2 => u) /\ In(k)[h].part = "header"
    BY <2>1 DEF Asked
  <2>. QED
    BY <2>2
<1>. QED
  BY <1>3, <1>4, <1>5

LEMMA ReceiveRequestStep ==
  ASSUME Inv, NEW c \in Clients, ReceiveRequest(c)
  PROVE  Inv'
<1>. DEFINE r == Head(conn[c].data["mn"])
<1>1. thread[c].pc = "recv" /\ CanReceive(conn[c], "mn")
      /\ UNCHANGED <<cn, main, stop, answers, faults>>
  BY DEF ReceiveRequest, threadKeeps
<1>2. Types /\ Session(cn[c], conn[c], thread[c], log[c], answers[c])
  BY Settings, Here
<1>3. conn[c] \in Connections(Parts) /\ conn[c].state["mn"] # "closed"
  BY <1>1, <1>2, Here DEF Session, Good, Sound, Hosted
<1>4. PICK w : w = Received(conn[c], "mn")
  OBVIOUS
<1>5. /\ w \in Connections(Parts) /\ MnGot(conn[c], w)
      /\ r = In(conn[c])[1] /\ r \in Parts
  BY <1>1, <1>3, <1>4, MnReceives
<1>6. PICK p : p = r
  OBVIOUS
<1>7. /\ p = In(conn[c])[1] /\ p.part \in {"header", "payload"} /\ p.n \in Nat
  BY <1>5, <1>6, PartsAre
<1>8. CASE p.part = "payload"
  <2>1. ThreadAt(c, "closed") /\ ConnIn(c, Closings(w, "mn", TRUE)) /\ UNCHANGED log
    BY <1>4, <1>6, <1>8 DEF ReceiveRequest
  <2>2. PICK y \in Closings(w, "mn", TRUE) : ConnIs(c, y)
    BY <2>1 DEF ConnIn
  <2>3. y \in Connections(Parts) /\ MnClosed(w, y)
    BY <1>5, <2>2, MnCloses
  <2>4. MnClosed(conn[c], y)
    BY <1>5, <2>3 DEF MnClosed, MnGot
  <2>5. Engaged(cn[c]) => Cause
    <3>1. SUFFICES ASSUME Engaged(cn[c]) PROVE Cause
      OBVIOUS
    <3>2. PICK u, z, v \in BOOLEAN :
            /\ (u <=> Untaken)
            /\ Good(cn[c], conn[c], thread[c], log[c], answers[c], u, z, v)
      BY Here
    <3>3. Len(In(conn[c])) > 0 /\ In(conn[c])[1].part = "payload"
      BY <1>5, <1>7, <1>8 DEF MnGot
    <3>4. u
      BY <1>1, <1>2, <3>1, <3>2, <3>3, PoisonGood
    <3>. QED
      BY <3>2, <3>4 DEF Cause
  <2>6. \A u, z, v \in BOOLEAN :
          Good(cn[c], conn[c], thread[c], log[c], answers[c], u, z, v) =>
            Sound(cn[c], conn[c], thread[c], log[c], answers[c], u, z, v)
    BY Zenon DEF Good
  <2>. QED
    BY <1>1, <1>2, <1>3, <2>1, <2>2, <2>3, <2>4, <2>5, <2>6, EndStep
<1>9. ASSUME p.part = "header", NEW x, NEW m,
             One(ThreadType, thread, thread', c, x), One(Seq(Nat), log, log', c, m),
             ConnIs(c, w)
      PROVE  Turns(c, cn[c], w, x, m, answers[c])
  <2>1. One(Connections(Parts), conn, conn', c, w)
    BY <1>2, <1>5, <1>9, ConnOne
  <2>. QED
    BY <1>1, <1>2, <1>9, <2>1, Unchanged DEF Turns
<1>10. p.part = "header" => p.op \in WireOps
  <2>1. InSequence(cn[c], conn[c], thread[c], log[c])
    BY Here DEF Good, Sound
  <2>2. 1 \in 1 .. Len(In(conn[c]))
    BY <1>2, <1>5, SessionFields DEF MnGot
  <2>. QED
    BY <1>7, <2>1, <2>2 DEF InSequence
<1>11. CASE p.part = "header" /\ p.op = "WRITE"
  <2>1. /\ thread' = [thread EXCEPT ![c] = [pc |-> "recvPayload", op |-> p.op,
                                            n |-> p.n, status |-> 0]]
        /\ ConnIs(c, w) /\ UNCHANGED log
    <3>1. ~ (r.part = "payload") /\ ~ (r.part = "header" /\ r.op # "WRITE")
      BY <1>6, <1>11
    <3>. QED
      BY <1>4, <1>6, <1>11, <3>1 DEF ReceiveRequest
  <2>2. PICK x : x = [pc |-> "recvPayload", op |-> p.op, n |-> p.n, status |-> 0]
    OBVIOUS
  <2>3. x.pc = "recvPayload" /\ x.op = "WRITE" /\ x.n = p.n
    BY <1>11, <2>2
  <2>4. x \in ThreadType
    BY <1>7, <1>10, <1>11, <2>2 DEF ThreadType, Requests
  <2>5. thread' = [thread EXCEPT ![c] = x]
    BY <2>1, <2>2
  <2>6. One(ThreadType, thread, thread', c, x) /\ One(Seq(Nat), log, log', c, log[c])
    BY <1>2, <2>1, <2>4, <2>5, OneExcept, Unchanged DEF Types
  <2>7. Turns(c, cn[c], w, x, log[c], answers[c])
    BY <1>9, <1>11, <2>1, <2>6
  <2>8. ASSUME NEW u \in BOOLEAN, NEW z \in BOOLEAN, NEW v \in BOOLEAN,
               Good(cn[c], conn[c], thread[c], log[c], answers[c], u, z, v)
        PROVE  Good(cn[c], w, x, log[c], answers[c], u, z, v)
    <3>1. In(conn[c])[1].part = "header" /\ In(conn[c])[1].op = "WRITE" /\ x.n = In(conn[c])[1].n
      BY <1>7, <1>11, <2>3
    <3>. QED
      BY <1>1, <1>2, <1>5, <2>3, <2>8, <3>1, TakeGood
  <2>. QED
    BY <1>1, <2>7, <2>8, PlainStep
<1>12. CASE p.part = "header" /\ p.op # "WRITE"
  <2>1. /\ Reply(c, p, 0) /\ ConnIs(c, w)
        /\ IF p.op \in Ops THEN Execute(c, p.n) ELSE UNCHANGED log
    <3>1. ~ (r.part = "payload") /\ ~ (r.part = "header" /\ r.op = "WRITE")
      BY <1>6, <1>12
    <3>. QED
      BY <1>4, <1>6, <1>12, <3>1 DEF ReceiveRequest
  <2>2. PICK x : /\ One(ThreadType, thread, thread', c, x)
                 /\ x.pc = "reply" /\ x.op = p.op /\ x.n = p.n /\ x.status = 0
    BY <1>2, <1>7, <1>10, <1>12, <2>1, ReplyIs
  <2>3. PICK m : /\ One(Seq(Nat), log, log', c, m)
                 /\ IF p.op \in Ops THEN RanNext(log[c], m, p.n) ELSE m = log[c]
    <3>1. CASE p.op \in Ops
      <4>1. PICK m : m = Append(log[c], p.n)
        OBVIOUS
      <4>2. log[c] \in Seq(Nat)
        BY <1>2 DEF Types
      <4>3. m \in Seq(Nat) /\ RanNext(log[c], m, p.n)
        BY <1>7, <4>1, <4>2, Runs
      <4>4. log' = [log EXCEPT ![c] = m]
        BY <2>1, <3>1, <4>1 DEF Execute
      <4>5. One(Seq(Nat), log, log', c, m)
        BY <1>2, <4>3, <4>4, OneExcept DEF Types
      <4>. QED
        BY <3>1, <4>3, <4>5
    <3>2. CASE p.op \notin Ops
      BY <1>2, <2>1, <3>2, Unchanged
    <3>. QED
      BY <3>1, <3>2
  <2>4. Turns(c, cn[c], w, x, m, answers[c])
    BY <1>9, <1>12, <2>1, <2>2, <2>3
  <2>5. ASSUME NEW u \in BOOLEAN, NEW z \in BOOLEAN, NEW v \in BOOLEAN,
               Good(cn[c], conn[c], thread[c], log[c], answers[c], u, z, v)
        PROVE  Good(cn[c], w, x, m, answers[c], u, z, v)
    <3>1. In(conn[c])[1].part = "header" /\ x.op = In(conn[c])[1].op /\ x.n = In(conn[c])[1].n
      BY <1>7, <1>12, <2>2
    <3>2. x.status \in {0, 1} /\ x.status = 0
      BY <2>2
    <3>3. m = log[c] \/ RanNext(log[c], m, x.n)
      BY <2>2, <2>3
    <3>4. x.op # "WRITE" /\ (x.op \in Ops => RanNext(log[c], m, x.n))
      BY <1>12, <2>2, <2>3
    <3>. QED
      BY <1>1, <1>2, <1>5, <2>2, <2>5, <3>1, <3>2, <3>3, <3>4, TakenGood
  <2>. QED
    BY <1>1, <2>4, <2>5, PlainStep
<1>. QED
  BY <1>7, <1>8, <1>11, <1>12

LEMMA NoBufferStep ==
  ASSUME Inv, NEW c \in Clients, NoBuffer(c)
  PROVE  Inv'
<1>. DEFINE r == Head(conn[c].data["mn"])
            what == IF r.op = "READ" THEN "malloc" ELSE "mallocWrite"
<1>1. /\ thread[c].pc = "recv" /\ CanReceive(conn[c], "mn") /\ r.op \in {"READ", "WRITE"}
      /\ UNCHANGED <<cn, main, stop, answers, log>> /\ Fault(what)
      /\ Reply(c, r, 1) /\ ConnIs(c, Received(conn[c], "mn"))
  BY DEF NoBuffer, Unbuffered, threadKeeps
<1>2. Types /\ Session(cn[c], conn[c], thread[c], log[c], answers[c])
  BY Settings, Here
<1>3. conn[c] \in Connections(Parts)
  BY <1>2 DEF Session
<1>4. PICK w : w = Received(conn[c], "mn")
  OBVIOUS
<1>5. /\ w \in Connections(Parts) /\ MnGot(conn[c], w)
      /\ r = In(conn[c])[1] /\ r \in Parts
  BY <1>1, <1>3, <1>4, MnReceives
<1>6. PICK p : p = r
  OBVIOUS
<1>7. /\ p = In(conn[c])[1] /\ p.part = "header" /\ p.n \in Nat /\ p.op \in {"READ", "WRITE"}
  BY <1>1, <1>5, <1>6, PartsAre
<1>8. Reply(c, p, 1) /\ ConnIs(c, w)
  BY <1>1, <1>4, <1>6
<1>9. PICK x : /\ One(ThreadType, thread, thread', c, x)
               /\ x.pc = "reply" /\ x.op = p.op /\ x.n = p.n /\ x.status = 1
  <2>1. p.op \in WireOps
    BY <1>7 DEF WireOps, Ops
  <2>. QED
    BY <1>2, <1>7, <1>8, <2>1, ReplyIs
<1>10. One(Connections(Parts), conn, conn', c, w)
  BY <1>2, <1>5, <1>8, ConnOne
<1>11. Turns(c, cn[c], w, x, log[c], answers[c])
  BY <1>1, <1>2, <1>9, <1>10, Unchanged DEF Turns
<1>12. what \in FaultNames /\ (p.op = "WRITE" => what = "mallocWrite")
  BY <1>6 DEF FaultNames
<1>. HIDE DEF what
<1>13. ASSUME NEW u \in BOOLEAN, NEW z \in BOOLEAN, NEW v \in BOOLEAN,
              Good(cn[c], conn[c], thread[c], log[c], answers[c], u, z, v),
              what = "mallocWrite" => u /\ z
       PROVE  Good(cn[c], w, x, log[c], answers[c], u, z, v)
  <2>1. In(conn[c])[1].part = "header" /\ x.op = In(conn[c])[1].op /\ x.n = In(conn[c])[1].n
    BY <1>7, <1>9
  <2>2. x.status \in {0, 1} /\ x.status = 1
    BY <1>9
  <2>3. x.op = "READ" \/ (x.op = "WRITE" /\ u)
    BY <1>7, <1>9, <1>12, <1>13
  <2>. QED
    BY <1>1, <1>2, <1>5, <1>9, <1>13, <2>1, <2>2, <2>3, TakenGood
<1>. QED
  BY <1>1, <1>11, <1>12, <1>13, FaultStep

LEMMA ReceiveBodyStep ==
  ASSUME Inv, NEW c \in Clients, ReceiveBody(c)
  PROVE  Inv'
<1>1. thread[c].pc = "recvPayload" /\ UNCHANGED <<cn, main, stop, answers, faults>>
  BY DEF ReceiveBody, threadKeeps
<1>2. Types /\ Session(cn[c], conn[c], thread[c], log[c], answers[c])
  BY Settings, Here
<1>3. conn[c] \in Connections(Parts) /\ thread[c].op \in WireOps /\ thread[c].n \in Nat
  BY <1>2, SessionFields DEF Session
<1>4. CASE /\ CanReceive(conn[c], "mn")
           /\ Reply(c, thread[c], 0)
           /\ ConnIs(c, Received(conn[c], "mn"))
           /\ Execute(c, thread[c].n)
  <2>1. PICK w : w = Received(conn[c], "mn")
    OBVIOUS
  <2>2. w \in Connections(Parts) /\ MnGot(conn[c], w)
    BY <1>3, <1>4, <2>1, MnReceives
  <2>3. PICK x : /\ One(ThreadType, thread, thread', c, x) /\ x.pc = "reply"
                 /\ x.op = thread[c].op /\ x.n = thread[c].n /\ x.status = 0
    BY <1>2, <1>3, <1>4, ReplyIs
  <2>4. PICK m : m = Append(log[c], thread[c].n)
    OBVIOUS
  <2>5. log[c] \in Seq(Nat)
    BY <1>2 DEF Types
  <2>6. m \in Seq(Nat) /\ RanNext(log[c], m, thread[c].n)
    BY <1>3, <2>4, <2>5, Runs
  <2>7. log' = [log EXCEPT ![c] = m]
    BY <1>4, <2>4 DEF Execute
  <2>8. One(Seq(Nat), log, log', c, m)
    BY <1>2, <2>6, <2>7, OneExcept DEF Types
  <2>9. One(Connections(Parts), conn, conn', c, w)
    BY <1>2, <1>4, <2>1, <2>2, ConnOne
  <2>10. Turns(c, cn[c], w, x, m, answers[c])
    BY <1>1, <1>2, <2>3, <2>8, <2>9, Unchanged DEF Turns
  <2>11. ASSUME NEW u \in BOOLEAN, NEW z \in BOOLEAN, NEW v \in BOOLEAN,
                Good(cn[c], conn[c], thread[c], log[c], answers[c], u, z, v)
         PROVE  Good(cn[c], w, x, m, answers[c], u, z, v)
    BY <1>1, <1>2, <2>2, <2>3, <2>6, <2>11, BodyGood
  <2>. QED
    BY <1>1, <2>10, <2>11, PlainStep
<1>5. CASE /\ AtEnd(conn[c], "mn")
           /\ Reply(c, thread[c], 1)
           /\ ConnIs(c, Reported(conn[c], "mn"))
           /\ UNCHANGED log
  <2>1. PICK w : w = Reported(conn[c], "mn")
    OBVIOUS
  <2>2. /\ w \in Connections(Parts) /\ w.data = conn[c].data /\ w.coming = conn[c].coming
        /\ w.state["cn"] = conn[c].state["cn"]
        /\ w.state["mn"] = IF conn[c].state["mn"] = "reset" THEN "pipe" ELSE conn[c].state["mn"]
    BY <1>3, <2>1, ReportedIs, Peers
  <2>3. PICK x : One(ThreadType, thread, thread', c, x) /\ x.pc = "reply"
    BY <1>2, <1>3, <1>5, ReplyIs
  <2>4. One(Connections(Parts), conn, conn', c, w)
    BY <1>2, <1>5, <2>1, <2>2, ConnOne
  <2>5. Turns(c, cn[c], w, x, log[c], answers[c])
    BY <1>1, <1>2, <1>5, <2>3, <2>4, Unchanged DEF Turns
  <2>6. ASSUME NEW u \in BOOLEAN, NEW z \in BOOLEAN, NEW v \in BOOLEAN,
               Good(cn[c], conn[c], thread[c], log[c], answers[c], u, z, v)
        PROVE  Good(cn[c], w, x, log[c], answers[c], u, z, v)
    BY <1>1, <1>2, <1>5, <2>2, <2>3, <2>6, NoBodyGood
  <2>. QED
    BY <1>1, <2>5, <2>6, PlainStep
<1>. QED
  BY <1>4, <1>5 DEF ReceiveBody

LEMMA SendResponseStep ==
  ASSUME Inv, NEW c \in Clients, SendResponse(c)
  PROVE  Inv'
<1>. DEFINE p == IF thread[c].pc = "reply" THEN Header("ACK", thread[c].n, thread[c].status)
                 ELSE Payload(thread[c].n)
            pc == IF thread[c].pc = "reply" /\ thread[c].op = "READ" /\ thread[c].status = 0
                  THEN "replyPayload" ELSE "check"
<1>1. thread[c].pc \in {"reply", "replyPayload"} /\ SendGoes(conn[c], "mn")
      /\ UNCHANGED <<cn, main, stop, answers, log, faults>>
  BY DEF SendResponse, threadKeeps
<1>2. Types /\ Session(cn[c], conn[c], thread[c], log[c], answers[c])
  BY Settings, Here
<1>3. /\ conn[c] \in Connections(Parts) /\ thread[c].op \in WireOps /\ thread[c].n \in Nat
      /\ thread[c].status \in {0, 1} /\ thread[c] \in ThreadType
  BY <1>2, SessionFields DEF Session
<1>4. p \in Parts
  BY <1>3, PartsAre
<1>5. PICK q : q = p
  OBVIOUS
<1>6. PICK w : w = Sent(conn[c], "mn", q)
  OBVIOUS
<1>7. w \in Connections(Parts) /\ MnSent(conn[c], q, w)
  BY <1>3, <1>4, <1>5, <1>6, MnSends
<1>8. ASSUME NEW x, x.pc = pc, x.op = thread[c].op, x.n = thread[c].n,
             NEW u \in BOOLEAN, NEW z \in BOOLEAN, NEW v \in BOOLEAN,
             Good(cn[c], conn[c], thread[c], log[c], answers[c], u, z, v)
      PROVE  /\ Sound(cn[c], w, x, log[c], answers[c], u, z, v)
             /\ thread[c].op # "CLOSE" => ClosedBoth(cn[c], w)
             /\ Engaged(cn[c]) => /\ cn[c].op = thread[c].op
                                  /\ cn[c].op = "CLOSE" => cn[c].pc = "recvHeader"
  BY <1>1, <1>2, <1>5, <1>7, <1>8, RespondSound
<1>9. CASE thread[c].op = "CLOSE"
  <2>1. ThreadAt(c, "closed") /\ ConnIn(c, Closings(w, "mn", FALSE))
    BY <1>5, <1>6, <1>9 DEF SendResponse
  <2>2. PICK y \in Closings(w, "mn", FALSE) : ConnIs(c, y)
    BY <2>1 DEF ConnIn
  <2>3. y \in Connections(Parts) /\ MnClosed(w, y)
    BY <1>7, <2>2, MnCloses
  <2>4. PICK x : x = [thread[c] EXCEPT !.pc = "check"]
    OBVIOUS
  <2>5. /\ x \in ThreadType /\ x.pc = "check" /\ x.op = thread[c].op /\ x.n = thread[c].n
    BY <1>3, <2>4 DEF ThreadType
  <2>6. x.pc = pc
    BY <1>9, <2>5
  <2>7. Session(cn[c], w, x, log[c], answers[c])
    BY <1>2, <1>7, <2>5 DEF Session
  <2>8. w.state["mn"] # "closed"
    BY <1>1, <1>7 DEF MnSent, SendGoes
  <2>9. \A u, z, v \in BOOLEAN :
          Good(cn[c], conn[c], thread[c], log[c], answers[c], u, z, v) =>
            Sound(cn[c], w, x, log[c], answers[c], u, z, v)
    BY <1>8, <2>5, <2>6
  <2>10. Engaged(cn[c]) => cn[c].op = "CLOSE" /\ cn[c].pc = "recvHeader"
    <3>1. PICK u, z, v \in BOOLEAN :
            Good(cn[c], conn[c], thread[c], log[c], answers[c], u, z, v)
      BY Here
    <3>. QED
      BY <1>8, <1>9, <2>5, <2>6, <3>1
  <2>. QED
    BY <1>1, <2>1, <2>2, <2>3, <2>7, <2>8, <2>9, <2>10, EndStep
<1>10. CASE thread[c].op # "CLOSE"
  <2>1. ThreadAt(c, pc) /\ ConnIs(c, w)
    BY <1>5, <1>6, <1>10 DEF SendResponse
  <2>2. pc \in ThreadPlaces
    BY DEF ThreadPlaces
  <2>3. PICK x : One(ThreadType, thread, thread', c, x) /\ Goes(thread[c], x, pc)
    BY <1>2, <2>1, <2>2, ThreadAtIs
  <2>4. x.pc = pc /\ x.op = thread[c].op /\ x.n = thread[c].n
    BY <2>3 DEF Goes
  <2>5. One(Connections(Parts), conn, conn', c, w)
    BY <1>2, <1>7, <2>1, ConnOne
  <2>6. Turns(c, cn[c], w, x, log[c], answers[c])
    BY <1>1, <1>2, <2>3, <2>5, Unchanged DEF Turns
  <2>7. ASSUME NEW u \in BOOLEAN, NEW z \in BOOLEAN, NEW v \in BOOLEAN,
               Good(cn[c], conn[c], thread[c], log[c], answers[c], u, z, v)
        PROVE  Good(cn[c], w, x, log[c], answers[c], u, z, v)
    BY <1>8, <1>10, <2>4, <2>7 DEF Good
  <2>. QED
    BY <1>1, <2>6, <2>7, PlainStep
<1>. QED
  BY <1>9, <1>10

LEMMA AcceptStep ==
  ASSUME Inv, NEW c \in Clients, Accept(c)
  PROVE  Inv'
<1>1. /\ thread[c].pc = "none" /\ conn[c].state["mn"] # "closed"
      /\ UNCHANGED <<cn, main, stop, answers, log>>
  BY DEF Accept, threadKeeps
<1>2. Types /\ Session(cn[c], conn[c], thread[c], log[c], answers[c])
  BY Settings, Here
<1>3. CASE ThreadAt(c, "check") /\ UNCHANGED <<conn, faults>>
  <2>1. PICK x : One(ThreadType, thread, thread', c, x) /\ x.pc = "check"
    BY <1>2, <1>3, ThreadAtIs DEF ThreadPlaces, Goes
  <2>2. Turns(c, cn[c], conn[c], x, log[c], answers[c])
    BY <1>1, <1>2, <1>3, <2>1, Unchanged DEF Turns
  <2>3. ASSUME NEW u \in BOOLEAN, NEW z \in BOOLEAN, NEW v \in BOOLEAN,
               Good(cn[c], conn[c], thread[c], log[c], answers[c], u, z, v)
        PROVE  Good(cn[c], conn[c], x, log[c], answers[c], u, z, v)
    BY <1>1, <1>2, <2>1, <2>3, AcceptGood
  <2>. QED
    BY <1>1, <1>3, <2>2, <2>3, PlainStep
<1>4. CASE Fault("thread") /\ Done(c, FALSE)
  <2>1. ThreadAt(c, "closed") /\ ConnIn(c, Closings(conn[c], "mn", FALSE))
    BY <1>4 DEF Done
  <2>2. thread[c].pc # "closed" /\ FALSE \in BOOLEAN /\ (thread[c].pc = "none" /\ ~ FALSE)
    BY <1>1
  <2>. QED
    BY <1>1, <1>4, <2>1, <2>2, DoneStep
<1>. QED
  BY <1>3, <1>4 DEF Accept

LEMMA ArriveStep ==
  ASSUME Inv, NEW c \in Clients, Arrive(c)
  PROVE  Inv'
<1>1. UNCHANGED <<cn, thread, main, stop, log, answers, faults>>
  BY DEF Arrive
<1>2. PICK e \in Ends : conn[c].coming[e] # <<>> /\ ConnIs(c, Arrived(conn[c], e))
  BY DEF Arrive
<1>3. Types /\ Session(cn[c], conn[c], thread[c], log[c], answers[c])
  BY Settings, Here
<1>4. PICK w : w = Arrived(conn[c], e)
  OBVIOUS
<1>5. ASSUME NEW u \in BOOLEAN, NEW z \in BOOLEAN, NEW v \in BOOLEAN,
             Good(cn[c], conn[c], thread[c], log[c], answers[c], u, z, v)
      PROVE  w \in Connections(Parts) /\ Good(cn[c], w, thread[c], log[c], answers[c], u, z, v)
  BY <1>2, <1>3, <1>4, <1>5, ArriveGood
<1>6. w \in Connections(Parts)
  BY <1>5, Here
<1>7. One(Connections(Parts), conn, conn', c, w)
  BY <1>2, <1>3, <1>4, <1>6, ConnOne
<1>8. Turns(c, cn[c], w, thread[c], log[c], answers[c])
  BY <1>1, <1>3, <1>7, Unchanged DEF Turns
<1>. QED
  BY <1>1, <1>5, <1>8, PlainStep

LEMMA SignalStep ==
  ASSUME Inv, Signal
  PROVE  Inv'
<1>1. stop' = TRUE /\ UNCHANGED <<cn, conn, thread, main, log, answers, faults>>
  BY DEF Signal
<1>2. TypeOK'
  BY <1>1 DEF Inv, TypeOK
<1>3. AllGood'
  <2>1. SUFFICES ASSUME NEW e \in Clients
                 PROVE  Good(cn'[e], conn'[e], thread'[e], log'[e], answers'[e],
                             Untaken', Cause', main' = "serve")
    BY Zenon DEF AllGood
  <2>2. PICK u, z, v \in BOOLEAN :
          /\ (u <=> Untaken) /\ (z <=> Cause) /\ (v <=> main = "serve")
          /\ Good(cn[e], conn[e], thread[e], log[e], answers[e], u, z, v)
    BY Here
  <2>3. PICK z2 \in BOOLEAN : z2 = Cause'
    BY Zenon DEF Cause
  <2>4. (u => u) /\ (z => z2) /\ (v => v)
    BY <1>1, <2>3 DEF Cause
  <2>5. Good(cn[e], conn[e], thread[e], log[e], answers[e], u, z2, v)
    BY <2>2, <2>4, Weaker
  <2>6. (u <=> Untaken') /\ (v <=> main' = "serve")
    BY <1>1, <2>2 DEF Untaken
  <2>7. u = Untaken' /\ v = (main' = "serve")
    <3>1. Untaken' \in BOOLEAN
      BY DEF Untaken
    <3>. QED
      BY <2>6, <3>1, Zenon
  <2>. QED
    BY <1>1, <2>3, <2>5, <2>7, Zenon
<1>. QED
  BY <1>1, <1>2, <1>3 DEF Inv

LEMMA KeepLockStep ==
  ASSUME Inv, KeepLock
  PROVE  Inv'
<1>1. /\ UNCHANGED <<cn, conn, thread, main, stop, log, answers>>
      /\ faults' = faults \cup {"lock"}
  BY DEF KeepLock, Fault
<1>2. TypeOK'
  BY <1>1 DEF Inv, TypeOK
<1>3. AllGood'
  <2>1. SUFFICES ASSUME NEW e \in Clients
                 PROVE  Good(cn'[e], conn'[e], thread'[e], log'[e], answers'[e],
                             Untaken', Cause', main' = "serve")
    BY Zenon DEF AllGood
  <2>2. PICK u, z, v \in BOOLEAN :
          /\ (u <=> Untaken) /\ (z <=> Cause) /\ (v <=> main = "serve")
          /\ Good(cn[e], conn[e], thread[e], log[e], answers[e], u, z, v)
    BY Here
  <2>3. PICK z2 \in BOOLEAN : z2 = Cause'
    BY Zenon DEF Cause
  <2>4. (u => u) /\ (z => z2) /\ (v => v)
    BY <1>1, <2>2, <2>3 DEF Cause, Untaken
  <2>5. Good(cn[e], conn[e], thread[e], log[e], answers[e], u, z2, v)
    BY <2>2, <2>4, Weaker
  <2>6. (u <=> Untaken') /\ (v <=> main' = "serve")
    BY <1>1, <2>2 DEF Untaken
  <2>7. u = Untaken' /\ v = (main' = "serve")
    <3>1. Untaken' \in BOOLEAN
      BY DEF Untaken
    <3>. QED
      BY <2>6, <3>1, Zenon
  <2>. QED
    BY <1>1, <2>3, <2>5, <2>7, Zenon
<1>. QED
  BY <1>1, <1>2, <1>3 DEF Inv

(* The memory node closes some connections and listens no more: what is    *)
(* to show of each session                                                 *)
LEMMA LeavesGood ==
  ASSUME Inv, UNCHANGED <<cn, log, answers>>, faults \subseteq faults', main' # "serve",
         NEW e \in Clients, NEW x, thread'[e] = x,
         \A u, z, v, y \in BOOLEAN :
           /\ Good(cn[e], conn[e], thread[e], log[e], answers[e], u, z, v) /\ Accepts(y)
           => Good(cn[e], conn'[e], x, log[e], answers[e], u, y, FALSE)
  PROVE  Good(cn'[e], conn'[e], thread'[e], log'[e], answers'[e],
              Untaken', Cause', main' = "serve")
<1>1. PICK u, z, v \in BOOLEAN :
        /\ (u <=> Untaken) /\ (z <=> Cause) /\ (v <=> main = "serve")
        /\ Good(cn[e], conn[e], thread[e], log[e], answers[e], u, z, v)
  BY Here
<1>2. PICK u2 \in BOOLEAN : u2 = Untaken'
  <2>1. Untaken' \in BOOLEAN
    BY DEF Untaken
  <2>. QED
    BY <2>1, Zenon
<1>3. PICK z2 \in BOOLEAN : z2 = Cause'
  BY Zenon DEF Cause
<1>4. PICK v2 \in BOOLEAN : v2 = (main' = "serve")
  BY Zenon
<1>5. (u => u2) /\ (z2 => z2) /\ (v2 => v2) /\ Accepts(z2) /\ v2 = FALSE
  BY <1>1, <1>2, <1>3, <1>4 DEF Untaken, Cause, Accepts
<1>6. Good(cn[e], conn'[e], x, log[e], answers[e], u, z2, FALSE)
  BY <1>1, <1>5
<1>7. Good(cn[e], conn'[e], x, log[e], answers[e], u, z2, v2)
  BY <1>5, <1>6, Zenon
<1>8. Good(cn[e], conn'[e], x, log[e], answers[e], u2, z2, v2)
  BY <1>5, <1>7, Weaker
<1>. QED
  BY <1>2, <1>3, <1>4, <1>8, Zenon

LEMMA ClosedAll ==
  ASSUME Types, NEW cs, NEW unread \in BOOLEAN, CloseAll(cs, unread)
  PROVE  /\ conn' \in [Clients -> Connections(Parts)]
         /\ \A e \in Clients :
              IF e \in cs THEN MnClosed(conn[e], conn'[e]) ELSE conn'[e] = conn[e]
<1>1. \A e \in Clients : conn[e] \in Connections(Parts)
  BY DEF Types
<1>2. \A e \in Clients : IF e \in cs THEN conn'[e] \in Closings(conn[e], "mn", unread)
                         ELSE conn'[e] = conn[e]
  BY DEF CloseAll
<1>3. \A e \in Clients : /\ conn'[e] \in Connections(Parts)
                         /\ IF e \in cs THEN MnClosed(conn[e], conn'[e]) ELSE conn'[e] = conn[e]
  <2>1. SUFFICES ASSUME NEW e \in Clients
                 PROVE  /\ conn'[e] \in Connections(Parts)
                        /\ IF e \in cs THEN MnClosed(conn[e], conn'[e]) ELSE conn'[e] = conn[e]
    BY Zenon
  <2>2. CASE e \in cs
    <3>1. PICK k \in Connections(Parts) : k = conn[e]
      BY <1>1
    <3>2. PICK w : w = conn'[e]
      OBVIOUS
    <3>3. w \in Closings(k, "mn", unread)
      BY <1>2, <2>2, <3>1, <3>2
    <3>4. w \in Connections(Parts) /\ MnClosed(k, w)
      BY <3>3, MnCloses
    <3>. QED
      BY <2>2, <3>1, <3>2, <3>4
  <2>3. CASE e \notin cs
    BY <1>1, <1>2, <2>3
  <2>. QED
    BY <2>2, <2>3
<1>4. PICK S : conn' \in [Clients -> S]
  BY Zenon DEF CloseAll
<1>5. conn' \in [Clients -> Connections(Parts)]
  BY <1>3, <1>4
<1>. QED
  BY <1>3, <1>5

LEMMA LeaveStep ==
  ASSUME Inv, Leave
  PROVE  Inv'
<1>. DEFINE cs == {c \in OpenConns : thread[c].pc = "none"}
<1>1. main' = "left" /\ CloseAll(cs, TRUE) /\ UNCHANGED <<cn, thread, stop, log, answers, faults>>
  BY DEF Leave
<1>2. Types /\ TRUE \in BOOLEAN
  BY Settings
<1>. HIDE DEF cs
<1>3. /\ conn' \in [Clients -> Connections(Parts)]
      /\ \A e \in Clients :
           IF e \in cs THEN MnClosed(conn[e], conn'[e]) ELSE conn'[e] = conn[e]
  BY <1>1, <1>2, ClosedAll
<1>4. TypeOK'
  <2>1. Types'
    BY <1>1, <1>2, <1>3 DEF Types
  <2>. QED
    BY <1>1, <2>1, TypesAre DEF Inv
<1>5. AllGood'
  <2>1. SUFFICES ASSUME NEW e \in Clients
                 PROVE  Good(cn'[e], conn'[e], thread'[e], log'[e], answers'[e],
                             Untaken', Cause', main' = "serve")
    BY Zenon DEF AllGood
  <2>2. Session(cn[e], conn[e], thread[e], log[e], answers[e])
    BY Here
  <2>3. ASSUME NEW u \in BOOLEAN, NEW z \in BOOLEAN, NEW v \in BOOLEAN, NEW y \in BOOLEAN,
               Good(cn[e], conn[e], thread[e], log[e], answers[e], u, z, v), Accepts(y)
        PROVE  Good(cn[e], conn'[e], thread[e], log[e], answers[e], u, y, FALSE)
    <3>1. PICK f \in BOOLEAN : f = FALSE
      OBVIOUS
    <3>2. Denies(f)
      BY <3>1 DEF Denies
    <3>3. CASE e \in cs
      <4>1. thread[e].pc = "none" /\ conn[e].state["mn"] # "closed"
        BY <3>3 DEF cs, OpenConns
      <4>2. PICK w : w = conn'[e]
        OBVIOUS
      <4>3. MnClosed(conn[e], w)
        BY <1>3, <3>3, <4>2
      <4>5. Good(cn[e], w, thread[e], log[e], answers[e], u, y, f)
        BY <2>2, <2>3, <3>2, <4>1, <4>3, CastOff
      <4>. QED
        BY <3>1, <4>2, <4>5
    <3>4. CASE e \notin cs
      <4>1. Good(cn[e], conn[e], thread[e], log[e], answers[e], u, y, f)
        <5>1. (u => u) /\ (z => y) /\ (f => v)
          BY <2>3, <3>2 DEF Accepts, Denies
        <5>. QED
          BY <2>3, <5>1, Weaker
      <4>. QED
        BY <1>3, <3>1, <3>4, <4>1
    <3>. QED
      BY <3>3, <3>4
  <2>4. thread'[e] = thread[e] /\ faults \subseteq faults' /\ main' # "serve"
    BY <1>1
  <2>. QED
    BY <1>1, <2>3, <2>4, LeavesGood
<1>. QED
  BY <1>1, <1>4, <1>5 DEF Inv

(* Threads and connections end with the process. *)
LEMMA ProcessEndsStep ==
  ASSUME Inv, NEW as \in {"exited", "killed", "crashed"}, ProcessEnds(as),
         faults \subseteq faults', faults' \subseteq FaultNames,
         as = "killed" => \E c \in Clients : Dead(cn[c])
  PROVE  Inv'
<1>1. /\ main' = as /\ CloseAll(OpenConns, FALSE) /\ UNCHANGED <<cn, stop, log, answers>>
      /\ thread' = [c \in Clients |-> [thread[c] EXCEPT !.pc = "closed"]]
  BY DEF ProcessEnds
<1>2. Types /\ FALSE \in BOOLEAN
  BY Settings
<1>3. /\ conn' \in [Clients -> Connections(Parts)]
      /\ \A e \in Clients :
           IF e \in OpenConns THEN MnClosed(conn[e], conn'[e]) ELSE conn'[e] = conn[e]
  BY <1>1, <1>2, ClosedAll
<1>4. \A e \in Clients : thread'[e] \in ThreadType /\ thread'[e].pc = "closed"
  <2>1. SUFFICES ASSUME NEW e \in Clients PROVE thread'[e] \in ThreadType /\ thread'[e].pc = "closed"
    OBVIOUS
  <2>2. PICK t \in ThreadType : t = thread[e]
    BY <1>2 DEF Types
  <2>3. thread'[e] = [t EXCEPT !.pc = "closed"]
    BY <1>1, <2>2
  <2>. QED
    BY <2>3 DEF ThreadType
<1>5. TypeOK'
  <2>1. thread' \in [Clients -> ThreadType]
    BY <1>1, <1>4
  <2>2. Types'
    BY <1>1, <1>2, <1>3, <2>1 DEF Types
  <2>. QED
    BY <1>1, <2>2, TypesAre DEF Inv
<1>6. AllGood'
  <2>1. SUFFICES ASSUME NEW e \in Clients
                 PROVE  Good(cn'[e], conn'[e], thread'[e], log'[e], answers'[e],
                             Untaken', Cause', main' = "serve")
    BY Zenon DEF AllGood
  <2>2. Session(cn[e], conn[e], thread[e], log[e], answers[e])
    BY Here
  <2>3. PICK x : x = thread'[e] /\ x.pc = "closed"
    BY <1>4
  <2>4. ASSUME NEW u \in BOOLEAN, NEW z \in BOOLEAN, NEW v \in BOOLEAN, NEW y \in BOOLEAN,
               Good(cn[e], conn[e], thread[e], log[e], answers[e], u, z, v), Accepts(y)
        PROVE  Good(cn[e], conn'[e], x, log[e], answers[e], u, y, FALSE)
    <3>1. PICK f \in BOOLEAN : f = FALSE
      OBVIOUS
    <3>2. Denies(f)
      BY <3>1 DEF Denies
    <3>3. CASE e \in OpenConns
      <4>1. conn[e].state["mn"] # "closed"
        BY <3>3 DEF OpenConns
      <4>2. PICK w : w = conn'[e]
        OBVIOUS
      <4>3. MnClosed(conn[e], w)
        BY <1>3, <3>3, <4>2
      <4>5. Good(cn[e], w, x, log[e], answers[e], u, y, f)
        BY <2>2, <2>3, <2>4, <3>2, <4>1, <4>3, CastOff
      <4>. QED
        BY <3>1, <4>2, <4>5
    <3>4. CASE e \notin OpenConns
      <4>1. conn[e].state["mn"] = "closed"
        BY <3>4 DEF OpenConns
      <4>2. Good(cn[e], conn[e], x, log[e], answers[e], u, y, f)
        BY <2>2, <2>3, <2>4, <3>2, <4>1, EndedGood
      <4>. QED
        BY <1>3, <3>1, <3>4, <4>2
    <3>. QED
      BY <3>3, <3>4
  <2>5. thread'[e] = x /\ main' # "serve"
    BY <1>1, <2>3
  <2>. QED
    BY <1>1, <2>4, <2>5, LeavesGood
<1>7. main' = "killed" => \E e \in Clients : cn'[e].pc \in {"crashed", "killed"}
  BY <1>1 DEF Dead
<1>. QED
  BY <1>5, <1>6, <1>7 DEF Inv

(* SIGPIPE comes from a compute node that is gone: one that is not through *)
(* with its exchange.                                                      *)
LEMMA KillerIsDead ==
  ASSUME Inv, NEW c \in Clients, thread[c].pc \in {"reply", "replyPayload"},
         SendKills(conn[c], "mn")
  PROVE  Dead(cn[c])
<1>1. PICK u, z, v \in BOOLEAN :
        Good(cn[c], conn[c], thread[c], log[c], answers[c], u, z, v)
  BY Here
<1>2. /\ Wired(cn[c], conn[c]) /\ Hosted(cn[c], conn[c], thread[c], v)
      /\ Gone(cn[c], conn[c], thread[c], z)
  BY <1>1 DEF Good, Sound
<1>3. cn[c].pc \in Exchanging \cup Ended \cup {"new", "idle"}
  BY Here, SessionFields
<1>4. conn[c].state["mn"] = "pipe"
  BY DEF SendKills
<1>5. ~ Engaged(cn[c]) /\ cn[c].pc # "new"
  BY <1>2, <1>4 DEF Wired
<1>6. cn[c].pc # "closed"
  BY <1>2, <1>4 DEF Gone, Waiting
<1>. QED
  BY <1>3, <1>5, <1>6 DEF Engaged, Ended, Dead

LEMMA ProcessStep ==
  ASSUME Inv, Exit \/ MnKilled \/ MnCrash
  PROVE  Inv'
<1>1. faults \subseteq FaultNames
  BY TypesAre DEF Inv
<1>2. CASE Exit
  <2>1. ProcessEnds("exited") /\ faults' = faults
    BY <1>2 DEF Exit
  <2>2. "exited" \in {"exited", "killed", "crashed"} /\ "exited" # "killed"
    OBVIOUS
  <2>. QED
    BY <1>1, <2>1, <2>2, ProcessEndsStep
<1>3. CASE MnKilled
  <2>1. ProcessEnds("killed") /\ faults' = faults
    BY <1>3 DEF MnKilled
  <2>2. "killed" \in {"exited", "killed", "crashed"}
    OBVIOUS
  <2>3. PICK c \in Clients : /\ thread[c].pc \in {"reply", "replyPayload"}
                             /\ SendKills(conn[c], "mn")
    BY <1>3 DEF MnKilled
  <2>4. Dead(cn[c])
    BY <2>3, KillerIsDead
  <2>. QED
    BY <1>1, <2>1, <2>2, <2>4, ProcessEndsStep
<1>4. CASE MnCrash
  <2>1. ProcessEnds("crashed") /\ faults' = faults \cup {"mnCrash"}
    BY <1>4 DEF MnCrash, Fault
  <2>2. "crashed" \in {"exited", "killed", "crashed"} /\ "crashed" # "killed"
    OBVIOUS
  <2>3. faults \subseteq faults' /\ faults' \subseteq FaultNames
    BY <1>1, <2>1 DEF FaultNames
  <2>. QED
    BY <2>1, <2>2, <2>3, ProcessEndsStep
<1>. QED
  BY <1>2, <1>3, <1>4

LEMMA Start ==
  ASSUME Init
  PROVE  Inv
<1>1. NoConnection \in Connections(Parts)
  <2>1. <<>> \in Seq(Parts)
    OBVIOUS
  <2>. QED
    BY <2>1 DEF NoConnection, Connections, SocketStates
<1>2. TypeOK
  <2>1. cn \in [Clients -> [pc : Exchanging \cup Ended \cup {"new", "idle"}, op : WireOps,
                          n : Requests, got : Requests]]
    BY DEF Init, WireOps, Requests
  <2>2. conn \in [Clients -> Connections(Parts)]
    BY <1>1 DEF Init
  <2>3. thread \in [Clients -> [pc : {"none", "check", "recv", "recvPayload", "reply",
                                    "replyPayload", "closed"},
                              op : WireOps, n : Requests, status : {0, 1}]]
    BY DEF Init, WireOps, Requests
  <2>4. /\ log \in [Clients -> Seq(Requests)]
        /\ answers \in [Clients -> Seq([op : Ops, ok : BOOLEAN, of : SUBSET Requests])]
    BY DEF Init
  <2>5. main = "serve" /\ stop = FALSE /\ faults = {}
    BY DEF Init
  <2>. QED
    BY <2>1, <2>2, <2>3, <2>4, <2>5 DEF TypeOK
<1>3. AllGood
  <2>1. SUFFICES ASSUME NEW c \in Clients
                 PROVE  Good(cn[c], conn[c], thread[c], log[c], answers[c],
                             Untaken, Cause, main = "serve")
    BY Zenon DEF AllGood
  <2>2. PICK u \in BOOLEAN : u = Untaken
    <3>1. Untaken \in BOOLEAN
      BY DEF Untaken
    <3>. QED
      BY <3>1, Zenon
  <2>3. PICK z \in BOOLEAN : z = Cause
    BY Zenon DEF Cause
  <2>4. PICK v \in BOOLEAN : v = (main = "serve")
    BY Zenon
  <2>5. PICK d, k, t : d = cn[c] /\ k = conn[c] /\ t = thread[c]
    OBVIOUS
  <2>6. /\ d.pc = "new" /\ d.op = "HELLO" /\ d.n = 0 /\ t.pc = "none"
        /\ Len(log[c]) = 0 /\ Len(answers[c]) = 0
    BY <2>5 DEF Init
  <2>7. /\ \A e \in Ends : k.state[e] = "closed" /\ k.data[e] = <<>> /\ k.coming[e] = <<>>
        /\ Len(In(k)) = 0 /\ Len(Out(k)) = 0
    BY <2>5, Peers DEF Init, NoConnection, In, Out
  <2>8. ~ Engaged(d)
    BY <2>6 DEF Engaged, Exchanging
  <2>9. Wired(d, k) /\ Hosted(d, k, t, v) /\ Talking(d, k, t, log[c], u)
        /\ Alone(d, k, log[c], u, z) /\ Gone(d, k, t, z) /\ ClosedBoth(d, k)
    BY <2>6, <2>7, <2>8, Peers DEF Wired, Hosted, Talking, Alone, Gone, ClosedBoth
  <2>10. InSequence(d, k, t, log[c])
    BY <2>6, <2>7 DEF InSequence
  <2>11. Counted(d, log[c], answers[c])
    BY <2>6 DEF Counted, Exchanging
  <2>12. Good(d, k, t, log[c], answers[c], u, z, v)
    BY <2>9, <2>10, <2>11 DEF Good, Sound
  <2>. QED
    BY <2>2, <2>3, <2>4, <2>5, <2>12, Zenon
<1>. QED
  BY <1>2, <1>3 DEF Inv, Init

LEMMA Step ==
  ASSUME Inv, [Next]_vars
  PROVE  Inv'
<1>1. ASSUME NEW c \in Clients, Exchange(c)
      PROVE  Inv'
  BY <1>1, SendRequestStep, FailsStep, CnKilledStep, ReceiveHeaderStep, ReceivePayloadStep
  DEF Exchange
<1>2. ASSUME NEW c \in Clients, Serve(c)
      PROVE  Inv'
  BY <1>2, CheckStopStep, ReceiveRequestStep, EndsStep, ReceiveBodyStep, SendResponseStep,
     AcceptStep
  DEF Serve
<1>3. ASSUME NEW c \in Clients, Connect(c) \/ ConnectFails(c) \/ Call(c) \/ Crash(c)
      PROVE  Inv'
  BY <1>3, ConnectStep, ConnectFailsStep, CallStep, CrashStep
<1>4. ASSUME NEW c \in Clients, NoBuffer(c) \/ Arrive(c)
      PROVE  Inv'
  BY <1>4, NoBufferStep, ArriveStep
<1>5. CASE UNCHANGED vars
  <2>1. TypeOK'
    BY <1>5 DEF Inv, TypeOK, vars
  <2>2. AllGood'
    BY <1>5, Zenon DEF Inv, AllGood, Untaken, Cause, vars
  <2>. QED
    BY <1>5, <2>1, <2>2 DEF Inv, vars
<1>6. CASE Signal \/ KeepLock \/ Leave \/ Exit \/ MnKilled \/ MnCrash
  BY <1>6, SignalStep, KeepLockStep, LeaveStep, ProcessStep
<1>. QED
  BY <1>1, <1>2, <1>3, <1>4, <1>5, <1>6 DEF Next, Quiet

-----------------------------------------------------------------------------
(* Theorems                                                                *)

(* In every reachable state each session is in one of the phases of its    *)
(* one exchange, on the side of the compute node, of the connection and of *)
(* the thread that serves it alike, or one of its ends is gone for a cause.*)
THEOREM Invariant == Spec => []Inv
<1>1. Init => Inv
  BY Start
<1>2. Inv /\ [Next]_vars => Inv'
  BY Step
<1>. QED
  BY <1>1, <1>2, PTL DEF Spec

(* Every variable always has its type. *)
THEOREM TypeCorrect == Spec => []TypeOK
<1>1. Inv => TypeOK
  BY DEF Inv
<1>. QED
  BY <1>1, Invariant, PTL

(* An operation that returned 0 always got the answer to its own request,  *)
(* which was executed; and the thread executes requests in order and at    *)
(* most once: however a session's earlier exchanges failed.                *)
THEOREM AnswersStayOwn == Spec => []AnswersAreOwn
<1>1. Inv => AnswersAreOwn
  <2>1. SUFFICES ASSUME Inv, NEW c \in Clients
                 PROVE  /\ \A i \in DOMAIN answers[c] :
                             answers[c][i].ok => /\ answers[c][i].of = {i}
                                                 /\ \E j \in DOMAIN log[c] : log[c][j] = i
                        /\ \A i, j \in DOMAIN log[c] : i < j => log[c][i] < log[c][j]
    BY DEF AnswersAreOwn
  <2>2. PICK u, z, v \in BOOLEAN :
          Good(cn[c], conn[c], thread[c], log[c], answers[c], u, z, v)
    BY <2>1, Here
  <2>3. /\ InSequence(cn[c], conn[c], thread[c], log[c])
        /\ Counted(cn[c], log[c], answers[c])
    BY <2>2 DEF Good, Sound
  <2>4. log[c] \in Seq(Nat) /\ answers[c] \in Seq(AnswerType)
    BY <2>1, Here DEF Session
  <2>5. DOMAIN log[c] = 1 .. Len(log[c]) /\ DOMAIN answers[c] = 1 .. Len(answers[c])
    BY <2>4
  <2>. QED
    BY <2>3, <2>5 DEF InSequence, Counted, Ran
<1>. QED
  BY <1>1, Invariant, PTL

(* SIGPIPE always has a cause at the other end: it kills a memory node     *)
(* only after a compute node died, and a compute node only after the       *)
(* memory node was stopped or ended, or could not take a WRITE.            *)
THEOREM KillsHaveCause == Spec => []KilledForCause
<1>1. Inv => KilledForCause
  <2>1. SUFFICES ASSUME Inv, NEW c \in Clients, cn[c].pc = "killed" PROVE Cause
    BY DEF Inv, KilledForCause, Cause, Untaken
  <2>2. PICK u, z, v \in BOOLEAN :
          /\ z <=> Cause
          /\ Good(cn[c], conn[c], thread[c], log[c], answers[c], u, z, v)
    BY <2>1, Here
  <2>3. Gone(cn[c], conn[c], thread[c], z)
    BY <2>2 DEF Good, Sound
  <2>. QED
    BY <2>1, <2>2, <2>3 DEF Gone
<1>. QED
  BY <1>1, Invariant, PTL
=============================================================================
