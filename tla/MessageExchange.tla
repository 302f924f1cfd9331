--------------------------- MODULE MessageExchange ---------------------------
(***************************************************************************)
(* The RDMA message path (tdx-dist/src/transport_rdma.c): a compute node   *)
(* sends a request and waits for the response                              *)
(* (td_rdma_client_msg_exchange); one thread of the memory node accepts    *)
(* connections and serves the requests of all of them                      *)
(* (td_rdma_host_run, td_rdma_host_service_conn).                          *)
(*                                                                         *)
(* A session has one send buffer and one receive buffer.  A posted send    *)
(* takes its content from the buffer when it is transmitted, and a posted  *)
(* receive puts the response there when it arrives; completions queue up   *)
(* until somebody polls.  All of that outlives an exchange that ran into   *)
(* its deadline, and the session stays in use.                             *)
(*                                                                         *)
(* Requests of a session are numbered, and a message is its number: what   *)
(* the properties tell apart is which request was executed and answered.   *)
(***************************************************************************)
EXTENDS Naturals, Sequences, FiniteSets

CONSTANTS
  Sessions,    \* connections, one compute node each
  RecvWr,      \* max_recv_wr, receives that can be posted at a time, per session
  MaxRequests, \* bound: exchanges, per session
  MaxFaults    \* bound: deadlines, broken links, rejections, a stop, a stall

ASSUME RecvWrAssumption == RecvWr \in [Sessions -> Nat \ {0}]
ASSUME BoundsAssumption == MaxRequests \in [Sessions -> Nat] /\ MaxFaults \in Nat

VARIABLES
  cn,      \* per session: the compute node's call, buffers and queue pair
  mn,      \* per session: td_rdma_host_conn_t
  cut,     \* per session: the link is broken
  events,  \* connection events that the memory node has not handled
  list,    \* connections, the newest first
  turn,    \* connections still to serve in this round
  loop,    \* whether td_rdma_host_run runs, has ended or got stuck
  stop,    \* *stop_flag
  log,     \* per session: history, requests executed
  faults   \* faults so far

hostVars == <<list, turn, loop>>
vars == <<cn, mn, cut, events, list, turn, loop, stop, log, faults>>

Completion == {"send", "recv"}

(* td_rdma_impl_t and the locals of an exchange: n is the request in the   *)
(* send buffer, buf the one whose response is in the receive buffer.       *)
NewSession ==
  [pc |-> "new", n |-> 0, sent |-> FALSE, got |-> FALSE, answer |-> 0,
   late |-> FALSE, recvs |-> 0, out |-> 0, acked |-> 0, buf |-> 0,
   cq |-> <<>>, up |-> TRUE]

NoConn ==
  [open |-> FALSE, recv |-> FALSE, rbuf |-> 0, sbuf |-> 0, out |-> 0,
   cq |-> <<>>, up |-> TRUE]

Init ==
  /\ cn = [s \in Sessions |-> NewSession]
  /\ mn = [s \in Sessions |-> NoConn]
  /\ cut = [s \in Sessions |-> FALSE]
  /\ events = <<>>
  /\ list = <<>>
  /\ turn = <<>>
  /\ loop = "run"
  /\ stop = FALSE
  /\ log = [s \in Sessions |-> <<>>]
  /\ faults = 0

(* Both ends exist and the link between them works. *)
Linked(s) == mn[s].open /\ cn[s].pc # "left" /\ ~cut[s]

Faulty == faults < MaxFaults /\ faults' = faults + 1

-----------------------------------------------------------------------------
(* The compute node *)

Connect(s) ==
  /\ cn[s].pc = "new"
  /\ loop # "ended"
  /\ cn' = [cn EXCEPT ![s].pc = "connecting"]
  /\ events' = Append(events, <<"connect", s>>)
  /\ UNCHANGED <<mn, cut, hostVars, stop, log, faults>>

(* Nobody listens any more. *)
ConnectFails(s) ==
  /\ cn[s].pc = "connecting"
  /\ loop = "ended"
  /\ cn' = [cn EXCEPT ![s].pc = "refused"]
  /\ UNCHANGED <<mn, cut, events, hostVars, stop, log, faults>>

(* Faulty variant: receives are posted without end. *)
PostAlways(s) ==
  /\ cn[s].pc = "idle"
  /\ cn[s].n < MaxRequests[s]
  /\ cn' = [cn EXCEPT ![s].n = @ + 1, ![s].pc = "wait", ![s].recvs = @ + 1,
              ![s].out = @ + 1]
  /\ UNCHANGED <<mn, cut, events, hostVars, stop, log, faults>>

(* The request is copied into the send buffer, also if an earlier send is  *)
(* still waiting there; then a receive and the send are posted.            *)
Post(s) ==
  /\ cn[s].pc = "idle"
  /\ cn[s].n < MaxRequests[s]
  /\ \/ /\ cn[s].recvs < RecvWr[s]
        /\ cn' = [cn EXCEPT ![s].n = @ + 1, ![s].pc = "wait", ![s].recvs = @ + 1,
                    ![s].out = @ + 1]
     \/ /\ cn[s].recvs >= RecvWr[s]
        /\ cn' = [cn EXCEPT ![s].n = @ + 1, ![s].late = TRUE]
  /\ UNCHANGED <<mn, cut, events, hostVars, stop, log, faults>>

(* td_rdma_poll_wc_try_once, one completion *)
Poll(s) ==
  /\ cn[s].pc = "wait"
  /\ cn[s].cq # <<>>
  /\ cn' = [cn EXCEPT ![s].cq = Tail(@),
              ![s].sent = @ \/ Head(cn[s].cq) = "send",
              ![s].got = @ \/ Head(cn[s].cq) = "recv"]
  /\ UNCHANGED <<mn, cut, events, hostVars, stop, log, faults>>

(* The call is over; its locals are gone. *)
Over(c) == [c EXCEPT !.pc = "idle", !.sent = FALSE, !.got = FALSE]

(* The queue pair is in the error state: what is posted comes back failed. *)
PollFailed(s) ==
  /\ cn[s].pc = "wait"
  /\ cn[s].cq = <<>>
  /\ ~cn[s].up
  /\ cn' = [cn EXCEPT ![s] = [Over(@) EXCEPT !.late = TRUE, !.recvs = 0,
                                !.out = 0, !.acked = 0]]
  /\ UNCHANGED <<mn, cut, events, hostVars, stop, log, faults>>

(* Faulty variant: the exchange does not wait for both completions. *)
CompleteEither(c) == c.sent \/ c.got

Complete(c) == c.sent /\ c.got

Return(s) ==
  /\ cn[s].pc = "wait"
  /\ Complete(cn[s])
  /\ cn' = [cn EXCEPT ![s] = [Over(@) EXCEPT !.answer = cn[s].buf]]
  /\ UNCHANGED <<mn, cut, events, hostVars, stop, log, faults>>

(* The deadline is looked at after each poll, even if that was the last     *)
(* one.  Posted work and completions stay where they are.                   *)
Expire(s) ==
  /\ cn[s].pc = "wait"
  /\ Faulty
  /\ cn' = [cn EXCEPT ![s] = [Over(@) EXCEPT !.late = TRUE]]
  /\ UNCHANGED <<mn, cut, events, hostVars, stop, log>>

(* td_rdma_client_close; or the process dies, perhaps in an exchange *)
Leave(s) ==
  /\ cn[s].pc \in {"idle", "wait"}
  /\ cn' = [cn EXCEPT ![s] = [NewSession EXCEPT !.pc = "left", !.late = cn[s].late]]
  /\ events' = IF Linked(s) THEN Append(events, <<"disconnect", s>>) ELSE events
  /\ UNCHANGED <<mn, cut, hostVars, stop, log, faults>>

-----------------------------------------------------------------------------
(* The queue pairs: delivery is reliable and in order while both ends are  *)
(* there, and a message waits at the sender until a receive is posted.     *)

DeliverRequest(s) ==
  /\ Linked(s) /\ cn[s].up /\ mn[s].up
  /\ cn[s].out > 0
  /\ mn[s].recv
  /\ cn' = [cn EXCEPT ![s].out = @ - 1, ![s].acked = @ + 1]
  /\ mn' = [mn EXCEPT ![s].recv = FALSE, ![s].rbuf = cn[s].n,
              ![s].cq = Append(@, "recv")]
  /\ UNCHANGED <<cut, events, hostVars, stop, log, faults>>

(* The acknowledgement of a send may come after the response to it. *)
Acknowledge(s) ==
  /\ ~cut[s] /\ cn[s].up
  /\ cn[s].acked > 0
  /\ cn' = [cn EXCEPT ![s].acked = @ - 1, ![s].cq = Append(@, "send")]
  /\ UNCHANGED <<mn, cut, events, hostVars, stop, log, faults>>

DeliverResponse(s) ==
  /\ Linked(s) /\ cn[s].up /\ mn[s].up
  /\ mn[s].out > 0
  /\ cn[s].recvs > 0
  /\ cn' = [cn EXCEPT ![s].recvs = @ - 1, ![s].buf = mn[s].sbuf,
              ![s].cq = Append(@, "recv")]
  /\ mn' = [mn EXCEPT ![s].out = @ - 1, ![s].cq = Append(@, "send")]
  /\ UNCHANGED <<cut, events, hostVars, stop, log, faults>>

Break(s) ==
  /\ Linked(s)
  /\ Faulty
  /\ cut' = [cut EXCEPT ![s] = TRUE]
  /\ UNCHANGED <<cn, mn, events, hostVars, stop, log>>

(* A send that cannot be delivered fails after its retries, and with it    *)
(* everything else that is posted on the queue pair.                       *)
SessionFails(s) ==
  /\ cn[s].up /\ cn[s].pc # "left"
  /\ ~Linked(s)
  /\ cn[s].out + cn[s].acked > 0
  /\ cn' = [cn EXCEPT ![s].up = FALSE]
  /\ UNCHANGED <<mn, cut, events, hostVars, stop, log, faults>>

ConnFails(s) ==
  /\ mn[s].open /\ mn[s].up
  /\ ~Linked(s)
  /\ mn[s].out > 0
  /\ mn' = [mn EXCEPT ![s].up = FALSE]
  /\ UNCHANGED <<cn, cut, events, hostVars, stop, log, faults>>

-----------------------------------------------------------------------------
(* The memory node *)

(* The clean-up behind the loop of td_rdma_host_run *)
End ==
  /\ loop' = "ended"
  /\ list' = <<>>
  /\ turn' = <<>>
  /\ mn' = [s \in Sessions |-> NoConn]

Accept(s) ==
  /\ mn' = [mn EXCEPT ![s] = [NoConn EXCEPT !.open = TRUE, !.recv = TRUE]]
  /\ cn' = [cn EXCEPT ![s].pc = "idle"]
  /\ list' = <<s>> \o list
  /\ turn' = list'
  /\ UNCHANGED <<loop, faults>>

(* Faulty variant: the error of a rejected connection is not reset. *)
RejectKeepingError(s) ==
  /\ Faulty
  /\ cn' = [cn EXCEPT ![s].pc = "refused"]
  /\ End

(* The connection cannot be set up; the error is reset and the others go on. *)
Reject(s) ==
  /\ Faulty
  /\ cn' = [cn EXCEPT ![s].pc = "refused"]
  /\ turn' = list
  /\ UNCHANGED <<mn, list, loop>>

(* The connection of the event is unlinked and destroyed. *)
Dispose(s) ==
  /\ mn' = [mn EXCEPT ![s] = NoConn]
  /\ \E i \in 1 .. Len(list) :
       /\ list[i] = s
       /\ list' = SubSeq(list, 1, i - 1) \o SubSeq(list, i + 1, Len(list))
  /\ turn' = list'
  /\ UNCHANGED <<cn, loop, faults>>

(* One connection event, then a round through the connections *)
HandleEvent ==
  /\ loop = "run" /\ ~stop /\ turn = <<>>
  /\ events # <<>>
  /\ events' = Tail(events)
  /\ LET s == Head(events)[2] IN
       CASE Head(events)[1] = "connect"    -> Accept(s) \/ Reject(s)
         [] Head(events)[1] = "disconnect" -> Dispose(s)
  /\ UNCHANGED <<cut, stop, log>>

(* No event within 10 ms *)
NextRound ==
  /\ loop = "run" /\ ~stop /\ turn = <<>>
  /\ events = <<>>
  /\ list # <<>>
  /\ turn' = list
  /\ UNCHANGED <<cn, mn, cut, events, list, loop, stop, log, faults>>

(* Faulty variant: no receive is posted for the next request. *)
AnswerWithoutRecv(m) ==
  [m EXCEPT !.cq = Tail(@), !.sbuf = m.rbuf, !.out = @ + 1]

(* td_rdma_host_handle_msg_request: the response is built in the only send *)
(* buffer and posted, then a receive for the next request.                 *)
AnswerOf(m) ==
  [m EXCEPT !.cq = Tail(@), !.sbuf = m.rbuf, !.out = @ + 1, !.recv = TRUE]

(* Faulty variant: every completion is taken for a request. *)
IsRequestAlways(c) == c \in Completion

IsRequest(c) == c = "recv"

(* td_rdma_host_service_conn, one completion of the connection whose turn   *)
(* it is                                                                    *)
Serve(s) ==
  /\ mn[s].cq # <<>>
  /\ IF IsRequest(Head(mn[s].cq))
     THEN /\ mn' = [mn EXCEPT ![s] = AnswerOf(@)]
          /\ log' = [log EXCEPT ![s] = Append(@, mn[s].rbuf)]
     ELSE /\ mn' = [mn EXCEPT ![s].cq = Tail(@)]
          /\ UNCHANGED log
  /\ UNCHANGED <<cn, cut, events, hostVars, stop, faults>>

NothingToServe(s) ==
  /\ mn[s].cq = <<>>
  /\ mn[s].up
  /\ turn' = Tail(turn)
  /\ UNCHANGED <<cn, mn, cut, events, list, loop, stop, log, faults>>

(* A failed completion ends the loop for all connections. *)
ServeFails(s) ==
  /\ mn[s].cq = <<>>
  /\ ~mn[s].up
  /\ End
  /\ UNCHANGED <<cn, cut, events, stop, log, faults>>

Service ==
  /\ loop = "run" /\ turn # <<>>
  /\ LET s == Head(turn) IN Serve(s) \/ NothingToServe(s) \/ ServeFails(s)

(* The request is an EVICT or makes one necessary, and the pass does not    *)
(* end, because the eviction thread clears slots too, or waits for the     *)
(* region lock that thread never gives back (td_region_evict_if_needed).   *)
Stall ==
  /\ loop = "run" /\ turn # <<>>
  /\ LET s == Head(turn) IN mn[s].cq # <<>> /\ IsRequest(Head(mn[s].cq))
  /\ Faulty
  /\ loop' = "stalled"
  /\ UNCHANGED <<cn, mn, cut, events, list, turn, stop, log>>

StopLoop ==
  /\ loop = "run" /\ stop /\ turn = <<>>
  /\ End
  /\ UNCHANGED <<cn, cut, events, stop, log, faults>>

(* A signal to the memory node *)
RequestStop ==
  /\ ~stop
  /\ Faulty
  /\ stop' = TRUE
  /\ UNCHANGED <<cn, mn, cut, events, hostVars, log>>

-----------------------------------------------------------------------------
Caller(s) == Poll(s) \/ PollFailed(s) \/ Return(s)

Network(s) == DeliverRequest(s) \/ Acknowledge(s) \/ DeliverResponse(s)

Host == HandleEvent \/ NextRound \/ Service \/ StopLoop

Next ==
  \/ \E s \in Sessions :
       \/ Connect(s) \/ ConnectFails(s) \/ Post(s) \/ Caller(s)
       \/ Expire(s) \/ Leave(s)
       \/ Network(s)
       \/ Break(s) \/ SessionFails(s) \/ ConnFails(s)
  \/ Host
  \/ RequestStop
  \/ Stall

Spec == Init /\ [][Next]_vars

(* The memory node's thread goes on, and so does a call that waits; the    *)
(* network delivers what can be delivered.  Nobody has to send anything,   *)
(* and no deadline has to pass.                                            *)
FairSpec ==
  /\ Spec
  /\ WF_vars(Host)
  /\ \A s \in Sessions :
       /\ WF_vars(Caller(s))
       /\ WF_vars(DeliverRequest(s)) /\ WF_vars(Acknowledge(s))
       /\ WF_vars(DeliverResponse(s))

-----------------------------------------------------------------------------
(* Properties *)

SessionType ==
  [pc : {"new", "connecting", "refused", "idle", "wait", "left"},
   n : Nat, sent : BOOLEAN, got : BOOLEAN, answer : Nat, late : BOOLEAN,
   recvs : Nat, out : Nat, acked : Nat, buf : Nat,
   cq : Seq(Completion), up : BOOLEAN]

ConnType ==
  [open : BOOLEAN, recv : BOOLEAN, rbuf : Nat, sbuf : Nat, out : Nat,
   cq : Seq(Completion), up : BOOLEAN]

(* Every variable has its type; never more receives than a queue takes. *)
TypeOK ==
  /\ cn \in [Sessions -> SessionType]
  /\ \A s \in Sessions : cn[s].recvs <= RecvWr[s]
  /\ mn \in [Sessions -> ConnType]
  /\ cut \in [Sessions -> BOOLEAN]
  /\ events \in Seq({"connect", "disconnect"} \X Sessions)
  /\ list \in Seq(Sessions) /\ turn \in Seq(Sessions)
  /\ loop \in {"run", "stalled", "ended"} /\ stop \in BOOLEAN
  /\ log \in [Sessions -> Seq(Nat)]
  /\ faults \in Nat

(* While no exchange of its session failed before, an exchange returns the *)
(* response to its own request, and that request has been executed once    *)
(* and is the last one executed (td_rdma_client_msg_exchange: nothing in   *)
(* the messages says which request a response belongs to).                 *)
OwnAnswer ==
  \A s \in Sessions :
    cn[s].pc = "idle" /\ ~cn[s].late =>
      /\ cn[s].answer = cn[s].n
      /\ log[s] = [i \in 1 .. cn[s].n |-> i]

(* The memory node executes the requests of a session in the order in      *)
(* which they were made; even after failed exchanges, when it may execute  *)
(* one twice and another not at all, it never goes back to an earlier one. *)
InOrder ==
  \A s \in Sessions :
    /\ \A i, j \in 1 .. Len(log[s]) : i < j => log[s][i] <= log[s][j]
    /\ ~cn[s].late => \A i \in 1 .. Len(log[s]) : log[s][i] = i

(* The loop of the memory node ends because it was stopped, or because the *)
(* link to a compute node broke or the compute node went away with a        *)
(* response under way; a deadline, a rejected connection or a disconnection *)
(* between exchanges does not end it (td_rdma_host_run resets err).         *)
EndsOnlyForCause ==
  [][loop' # loop /\ loop' = "ended" =>
       stop \/ \E s \in Sessions : mn[s].open /\ ~Linked(s) /\ mn[s].out > 0]_vars

(* A request on a working connection is answered, or its deadline passes,  *)
(* whatever other sessions do: the loop gets to every connection and posts *)
(* a receive for every next request.  Only an eviction that never ends     *)
(* keeps the loop from it.                                                 *)
Answered ==
  \A s \in Sessions :
    cn[s].pc = "wait" ~> (cn[s].pc # "wait" \/ ~Linked(s) \/ loop = "stalled")
=============================================================================
