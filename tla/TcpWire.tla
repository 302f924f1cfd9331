------------------------------- MODULE TcpWire -------------------------------
(***************************************************************************)
(* The TCP transport (tdx-dist/src/transport_tcp.c): sessions of compute   *)
(* nodes and the memory node that serves them, one thread per connection,  *)
(* part by part, over connections that end whenever one side does.         *)
(*                                                                         *)
(* A session lives on after an exchange that failed.  Requests of a        *)
(* session are numbered; EVICT goes the way of CAS.  All of them need the  *)
(* lock of the region, which one EVICT may keep for ever (see Eviction).   *)
(***************************************************************************)
EXTENDS TcpSocket, Naturals, FiniteSets

CONSTANTS
  Clients,   \* compute nodes, one session each
  MaxCalls,  \* bound: operations, per session
  MaxFaults  \* bound: crashes, failed allocations, a lock that is kept

ASSUME BoundsAssumption == MaxCalls \in [Clients -> Nat] /\ MaxFaults \in Nat

Ops      == {"READ", "WRITE", "CAS"}
WireOps  == Ops \cup {"HELLO", "CLOSE"}
Requests == Nat    \* the HELLO is number 0

(* td_wire_msg_t and what follows it *)
Header(op, n, status) == [part |-> "header", op |-> op, n |-> n, status |-> status]
Payload(n)            == [part |-> "payload", op |-> "none", n |-> n, status |-> 0]
Parts == [part : {"header"}, op : WireOps \cup {"ACK"}, n : Requests, status : {0, 1}]
         \cup [part : {"payload"}, op : {"none"}, n : Requests, status : {0}]

VARIABLES
  cn,      \* per session: the exchange of its compute node
  conn,    \* per session: its connection
  thread,  \* per session: td_tcp_connection_main
  main,    \* the process of the memory node
  stop,    \* *stop_flag
  log,     \* history: the operations executed, per session
  answers, \* history: what the operations returned, per session
  faults   \* history: what went wrong, so far

vars == <<cn, conn, thread, main, stop, log, answers, faults>>

Exchanging == {"sendHeader", "sendPayload", "recvHeader", "recvPayload"}

Init ==
  /\ cn = [c \in Clients |-> [pc |-> "new", op |-> "HELLO", n |-> 0, got |-> 0]]
  /\ conn = [c \in Clients |-> NoConnection]
  /\ thread = [c \in Clients |-> [pc |-> "none", op |-> "HELLO", n |-> 0, status |-> 0]]
  /\ main = "serve"
  /\ stop = FALSE
  /\ log = [c \in Clients |-> <<>>]
  /\ answers = [c \in Clients |-> <<>>]
  /\ faults = {}

(* Each kind of failure happens once at most. *)
Fault(what) ==
  /\ what \notin faults /\ Cardinality(faults) < MaxFaults
  /\ faults' = faults \cup {what}

CnAt(c, pc)       == cn' = [cn EXCEPT ![c].pc = pc]
ThreadAt(c, pc)   == thread' = [thread EXCEPT ![c].pc = pc]
ConnIs(c, k)      == conn' = [conn EXCEPT ![c] = k]
ConnIn(c, ks)     == \E k \in ks : ConnIs(c, k)

-----------------------------------------------------------------------------
(* The compute node *)

(* td_tcp_client_connect up to the HELLO *)
Connect(c) ==
  /\ cn[c].pc = "new" /\ main = "serve"
  /\ ConnIs(c, Established)
  /\ CnAt(c, "sendHeader")
  /\ UNCHANGED <<thread, main, stop, log, answers, faults>>

(* Nobody listens, or there is no memory for the session. *)
ConnectFails(c) ==
  /\ cn[c].pc = "new"
  /\ \/ main # "serve" /\ UNCHANGED <<conn, faults>>
     \/ main = "serve" /\ Fault("connect") /\ ConnIn(c, Closings(Established, "cn", FALSE))
  /\ CnAt(c, "closed")
  /\ UNCHANGED <<thread, main, stop, log, answers>>

(* read_region, write_region, cas64, control or close is called. *)
Call(c) ==
  /\ cn[c].pc = "idle"
  /\ \E op \in (IF cn[c].n < MaxCalls[c] THEN Ops ELSE {}) \cup {"CLOSE"} :
       cn' = [cn EXCEPT ![c] = [pc |-> "sendHeader", op |-> op, n |-> @.n + 1, got |-> 0]]
  /\ UNCHANGED <<conn, thread, main, stop, log, answers, faults>>

(* td_tcp_exchange returns, with the connection k: only a failed HELLO and *)
(* CLOSE end the session.                                                  *)
Return(c, ok, k, of) ==
  /\ IF cn[c].op = "CLOSE" \/ (cn[c].op = "HELLO" /\ ~ ok)
     THEN CnAt(c, "closed") /\ ConnIn(c, Closings(k, "cn", FALSE))
     ELSE CnAt(c, "idle") /\ ConnIs(c, k)
  /\ answers' = IF cn[c].op \in Ops
                THEN [answers EXCEPT ![c] = Append(@, [op |-> cn[c].op, ok |-> ok, of |-> of])]
                ELSE answers
  /\ UNCHANGED <<thread, main, stop, log, faults>>

(* td_send_all of the header and of the payload of a WRITE *)
SendRequest(c) ==
  LET l == cn[c] IN
  /\ l.pc \in {"sendHeader", "sendPayload"}
  /\ SendGoes(conn[c], "cn")
  /\ ConnIs(c, Sent(conn[c], "cn",
                    IF l.pc = "sendHeader" THEN Header(l.op, l.n, 0) ELSE Payload(l.n)))
  /\ CnAt(c, IF l.pc = "sendHeader" /\ l.op = "WRITE" THEN "sendPayload" ELSE "recvHeader")
  /\ UNCHANGED <<thread, main, stop, log, answers, faults>>

SendRequestFails(c) ==
  /\ cn[c].pc \in {"sendHeader", "sendPayload"}
  /\ SendFails(conn[c], "cn")
  /\ Return(c, FALSE, Reported(conn[c], "cn"), {})

(* td_recv_all of the response; only that of a READ that went well has a   *)
(* payload.                                                                *)
ReceiveHeader(c) ==
  LET l == cn[c]
      r == Head(conn[c].data["cn"])
      k == Received(conn[c], "cn")
  IN /\ l.pc = "recvHeader"
     /\ CanReceive(conn[c], "cn")
     /\ IF l.op = "READ" /\ r.status = 0
        THEN /\ cn' = [cn EXCEPT ![c].pc = "recvPayload", ![c].got = r.n]
             /\ ConnIs(c, k)
             /\ UNCHANGED <<thread, main, stop, log, answers, faults>>
        ELSE Return(c, r.status = 0, k, {r.n})

ReceivePayload(c) ==
  /\ cn[c].pc = "recvPayload"
  /\ CanReceive(conn[c], "cn")
  /\ Return(c, TRUE, Received(conn[c], "cn"), {cn[c].got, Head(conn[c].data["cn"]).n})

ReceiveFails(c) ==
  /\ cn[c].pc \in {"recvHeader", "recvPayload"}
  /\ AtEnd(conn[c], "cn")
  /\ Return(c, FALSE, Reported(conn[c], "cn"), {})

(* The process is gone, and its kernel closes the connection. *)
CnGone(c, as) ==
  /\ CnAt(c, as)
  /\ ConnIn(c, Closings(conn[c], "cn", FALSE))
  /\ UNCHANGED <<thread, main, stop, log, answers>>

Crash(c) ==
  /\ cn[c].pc \in Exchanging \cup {"idle"}
  /\ Fault("crash")
  /\ CnGone(c, "crashed")

(* SIGPIPE *)
CnKilled(c) ==
  /\ cn[c].pc \in {"sendHeader", "sendPayload"}
  /\ SendKills(conn[c], "cn")
  /\ CnGone(c, "killed")
  /\ UNCHANGED faults

-----------------------------------------------------------------------------
(* The memory node: td_tcp_connection_main *)

Serving == main \in {"serve", "left"}

threadKeeps == <<cn, main, stop, answers>>

(* Its end: fd and context are freed. *)
Done(c, unread) ==
  /\ ThreadAt(c, "closed")
  /\ ConnIn(c, Closings(conn[c], "mn", unread))

CheckStop(c) ==
  /\ Serving /\ thread[c].pc = "check"
  /\ IF stop THEN Done(c, FALSE) ELSE ThreadAt(c, "recv") /\ UNCHANGED conn
  /\ UNCHANGED <<threadKeeps, log, faults>>

Locked == "lock" \in faults

(* A request is not executed, and not answered, while the lock is kept. *)
Execute(c, n) == ~ Locked /\ log' = [log EXCEPT ![c] = Append(@, n)]

Reply(c, r, status) ==
  thread' = [thread EXCEPT ![c] = [pc |-> "reply", op |-> r.op, n |-> r.n, status |-> status]]

(* The eviction of a request, or that of the eviction thread beside it,    *)
(* loops with the lock of the region.                                      *)
KeepLock ==
  /\ Serving
  /\ Fault("lock")
  /\ UNCHANGED <<cn, conn, thread, main, stop, log, answers>>

(* HELLO, READ, CAS, CLOSE: all that is to do is done when the header is   *)
(* read.  A slot is longer than a header, so one that is read in place of  *)
(* a header is not read to its end, and its magic is wrong.                *)
ReceiveRequest(c) ==
  LET r == Head(conn[c].data["mn"])
      k == Received(conn[c], "mn")
  IN /\ Serving /\ thread[c].pc = "recv"
     /\ CanReceive(conn[c], "mn")
     /\ CASE r.part = "payload" ->
               ThreadAt(c, "closed") /\ ConnIn(c, Closings(k, "mn", TRUE)) /\ UNCHANGED log
          [] r.part = "header" /\ r.op = "WRITE" ->
               /\ thread' = [thread EXCEPT ![c] = [pc |-> "recvPayload", op |-> r.op,
                                                   n |-> r.n, status |-> 0]]
               /\ ConnIs(c, k) /\ UNCHANGED log
          [] r.part = "header" /\ r.op # "WRITE" ->
               /\ Reply(c, r, 0) /\ ConnIs(c, k)
               /\ IF r.op \in Ops THEN Execute(c, r.n) ELSE UNCHANGED log
     /\ UNCHANGED <<threadKeeps, faults>>

(* A READ or WRITE for which malloc fails *)
Unbuffered(c) ==
  /\ Serving /\ thread[c].pc = "recv"
  /\ CanReceive(conn[c], "mn")
  /\ Head(conn[c].data["mn"]).op \in {"READ", "WRITE"}
  /\ UNCHANGED <<threadKeeps, log>>

(* Faulty variant: it is acknowledged. *)
NoBufferAcknowledged(c) ==
  /\ Unbuffered(c)
  /\ Fault("malloc")
  /\ Reply(c, Head(conn[c].data["mn"]), 0)
  /\ ConnIs(c, Received(conn[c], "mn"))

(* Faulty variant: the status is the errno. *)
NoBufferErrno(c) ==
  /\ Unbuffered(c)
  /\ Fault("malloc")
  /\ Reply(c, Head(conn[c].data["mn"]), 12)
  /\ ConnIs(c, Received(conn[c], "mn"))

(* Faulty variant: the thread gives up. *)
NoBufferHangsUp(c) ==
  /\ Unbuffered(c)
  /\ Fault("malloc")
  /\ Done(c, FALSE)

(* Faulty variant: it waits for the next request without an answer. *)
NoBufferSilent(c) ==
  /\ Unbuffered(c)
  /\ Fault("malloc")
  /\ ThreadAt(c, "check")
  /\ ConnIs(c, Received(conn[c], "mn"))

(* It is answered by status 1; the payload of a WRITE stays where it is. *)
NoBuffer(c) ==
  LET r == Head(conn[c].data["mn"]) IN
  /\ Unbuffered(c)
  /\ Fault(IF r.op = "READ" THEN "malloc" ELSE "mallocWrite")
  /\ Reply(c, r, 1)
  /\ ConnIs(c, Received(conn[c], "mn"))

(* Faulty variant: the end of a connection is taken for a wrong request. *)
RequestEndsIgnored(c) ==
  /\ Serving /\ thread[c].pc = "recv"
  /\ AtEnd(conn[c], "mn")
  /\ ThreadAt(c, "check") /\ UNCHANGED conn
  /\ UNCHANGED <<threadKeeps, log, faults>>

RequestEnds(c) ==
  /\ Serving /\ thread[c].pc = "recv"
  /\ AtEnd(conn[c], "mn")
  /\ Done(c, FALSE)
  /\ UNCHANGED <<threadKeeps, log, faults>>

ReceiveBody(c) ==
  /\ Serving /\ thread[c].pc = "recvPayload"
  /\ \/ /\ CanReceive(conn[c], "mn")
        /\ Reply(c, thread[c], 0)
        /\ ConnIs(c, Received(conn[c], "mn"))
        /\ Execute(c, thread[c].n)
     \/ /\ AtEnd(conn[c], "mn")
        /\ Reply(c, thread[c], 1)
        /\ ConnIs(c, Reported(conn[c], "mn"))
        /\ UNCHANGED log
  /\ UNCHANGED <<threadKeeps, faults>>

(* td_send_all of the response, then of the payload of a READ; after that  *)
(* of a CLOSE the thread ends.                                             *)
SendResponse(c) ==
  LET t == thread[c]
      k == Sent(conn[c], "mn", IF t.pc = "reply" THEN Header("ACK", t.n, t.status)
                               ELSE Payload(t.n))
  IN /\ Serving /\ t.pc \in {"reply", "replyPayload"}
     /\ SendGoes(conn[c], "mn")
     /\ IF t.op = "CLOSE"
        THEN ThreadAt(c, "closed") /\ ConnIn(c, Closings(k, "mn", FALSE))
        ELSE /\ ThreadAt(c, IF t.pc = "reply" /\ t.op = "READ" /\ t.status = 0
                            THEN "replyPayload" ELSE "check")
             /\ ConnIs(c, k)
     /\ UNCHANGED <<threadKeeps, log, faults>>

SendResponseFails(c) ==
  /\ Serving /\ thread[c].pc \in {"reply", "replyPayload"}
  /\ SendFails(conn[c], "mn")
  /\ Done(c, FALSE)
  /\ UNCHANGED <<threadKeeps, log, faults>>

-----------------------------------------------------------------------------
(* The memory node: td_tcp_server_run and the end of its process *)

Accept(c) ==
  /\ main = "serve"
  /\ thread[c].pc = "none" /\ conn[c].state["mn"] # "closed"
  /\ \/ ThreadAt(c, "check") /\ UNCHANGED <<conn, faults>>
     \/ Fault("thread") /\ Done(c, FALSE)
  /\ UNCHANGED <<threadKeeps, log>>

Signal ==
  /\ Serving /\ ~ stop
  /\ stop' = TRUE
  /\ UNCHANGED <<cn, conn, thread, main, log, answers, faults>>

(* Connections that are closed together, each in one of several ways *)
CloseAll(cs, unread) ==
  conn' \in [Clients -> UNION {Closings(conn[c], "mn", unread) \cup {conn[c]} : c \in Clients}]
  /\ \A c \in Clients :
       IF c \in cs THEN conn'[c] \in Closings(conn[c], "mn", unread)
       ELSE conn'[c] = conn[c]

OpenConns == {c \in Clients : conn[c].state["mn"] # "closed"}

(* The listening socket is closed, with all connections not accepted. *)
Leave ==
  /\ main = "serve" /\ stop
  /\ main' = "left"
  /\ CloseAll({c \in OpenConns : thread[c].pc = "none"}, TRUE)
  /\ UNCHANGED <<cn, thread, stop, log, answers, faults>>

ProcessEnds(as) ==
  /\ main' = as
  /\ CloseAll(OpenConns, FALSE)
  /\ thread' = [c \in Clients |-> [thread[c] EXCEPT !.pc = "closed"]]
  /\ UNCHANGED <<cn, stop, log, answers>>

(* main returns (NodeLifecycle has the steps between) *)
Exit ==
  /\ main = "left"
  /\ ProcessEnds("exited")
  /\ UNCHANGED faults

MnKilled ==
  /\ Serving
  /\ \E c \in Clients :
       thread[c].pc \in {"reply", "replyPayload"} /\ SendKills(conn[c], "mn")
  /\ ProcessEnds("killed")
  /\ UNCHANGED faults

MnCrash ==
  /\ Serving
  /\ Fault("mnCrash")
  /\ ProcessEnds("crashed")

Arrive(c) ==
  /\ \E e \in Ends : conn[c].coming[e] # <<>> /\ ConnIs(c, Arrived(conn[c], e))
  /\ UNCHANGED <<cn, thread, main, stop, log, answers, faults>>

-----------------------------------------------------------------------------
Exchange(c) ==
  \/ SendRequest(c) \/ SendRequestFails(c) \/ CnKilled(c)
  \/ ReceiveHeader(c) \/ ReceivePayload(c) \/ ReceiveFails(c)

Serve(c) ==
  \/ CheckStop(c) \/ ReceiveRequest(c) \/ RequestEnds(c) \/ ReceiveBody(c)
  \/ SendResponse(c) \/ SendResponseFails(c) \/ Accept(c)

Ended == {"closed", "crashed", "killed"}

Quiet ==
  /\ \A c \in Clients : cn[c].pc \in Ended
  /\ \A c \in Clients : conn[c].state["mn"] = "closed"
  /\ UNCHANGED vars

Next ==
  \/ \E c \in Clients :
       Connect(c) \/ ConnectFails(c) \/ Call(c) \/ Exchange(c) \/ Crash(c)
       \/ Serve(c) \/ NoBuffer(c) \/ Arrive(c)
  \/ Signal \/ KeepLock \/ Leave \/ Exit \/ MnKilled \/ MnCrash
  \/ Quiet

Spec == Init /\ [][Next]_vars

(* What the processes and kernels do without being asked to *)
Work ==
  \/ \E c \in Clients : Exchange(c) \/ Serve(c) \/ NoBuffer(c) \/ Arrive(c)
  \/ Leave \/ Exit \/ MnKilled

(* Work goes on while there is some.  A session is bounded, so that this   *)
(* weak condition does for every exchange and thread.  No compute node has *)
(* to connect, to call or to close.                                        *)
FairSpec == Spec /\ WF_vars(Work)

-----------------------------------------------------------------------------
(* Properties *)

(* Every variable has its type. *)
TypeOK ==
  /\ cn \in [Clients -> [pc : Exchanging \cup Ended \cup {"new", "idle"}, op : WireOps,
                         n : Requests, got : Requests]]
  /\ conn \in [Clients -> Connections(Parts)]
  /\ thread \in [Clients -> [pc : {"none", "check", "recv", "recvPayload", "reply",
                                   "replyPayload", "closed"},
                             op : WireOps, n : Requests, status : {0, 1}]]
  /\ main \in {"serve", "left", "exited", "killed", "crashed"}
  /\ stop \in BOOLEAN
  /\ log \in [Clients -> Seq(Requests)]
  /\ answers \in [Clients -> Seq([op : Ops, ok : BOOLEAN, of : SUBSET Requests])]
  /\ faults \subseteq {"connect", "crash", "malloc", "mallocWrite", "thread", "mnCrash",
                        "lock"}

(* An operation that returned 0 got the answer to its own request, and     *)
(* that request was executed; also on a session on which others failed     *)
(* before, whose answers or payloads may have been left in the stream.     *)
(* Requests are executed in order and at most once.                        *)
AnswersAreOwn ==
  \A c \in Clients :
    /\ \A i \in DOMAIN answers[c] :
         answers[c][i].ok => /\ answers[c][i].of = {i}
                             /\ \E j \in DOMAIN log[c] : log[c][j] = i
    /\ \A i, j \in DOMAIN log[c] : i < j => log[c][i] < log[c][j]

(* No process is killed by SIGPIPE without a cause at the other end: a     *)
(* memory node only after a compute node died, a compute node only after   *)
(* its memory node was stopped or died, or could not receive a WRITE.      *)
KilledForCause ==
  /\ main = "killed" => \E c \in Clients : cn[c].pc \in {"crashed", "killed"}
  /\ \A c \in Clients :
       cn[c].pc = "killed" => stop \/ main # "serve" \/ "mallocWrite" \in faults

(* Nothing hangs, though there is no deadline: every exchange ends, with   *)
(* an answer or an error (while both hosts are up, one side answers or     *)
(* closes); and when a compute node is gone, however it went, the thread   *)
(* that served it ends and frees its descriptor.  The one exception is an  *)
(* eviction pass that never gives the lock of the region back.             *)
NothingHangs ==
  \A c \in Clients :
    /\ cn[c].pc \in Exchanging ~> (cn[c].pc \notin Exchanging \/ Locked)
    /\ cn[c].pc \in Ended ~> (conn[c].state["mn"] = "closed" \/ Locked)
=============================================================================
