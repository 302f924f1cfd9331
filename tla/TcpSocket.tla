------------------------------ MODULE TcpSocket ------------------------------
(***************************************************************************)
(* A TCP connection between a compute node ("cn") and a memory node ("mn") *)
(* as the send, recv and close of tdx-dist/src/transport_tcp.c see it on   *)
(* Linux.  A part is what one td_send_all sends and one td_recv_all takes. *)
(*                                                                         *)
(* What matters here is how a connection ends.  The end of the peer        *)
(* arrives as FIN; what is sent nevertheless is answered by RST.  After    *)
(* RST no send succeeds, and one whose error was reported before (or that  *)
(* follows a FIN) does not return: the code passes no MSG_NOSIGNAL and     *)
(* leaves SIGPIPE at its default, which ends the process.                  *)
(***************************************************************************)
EXTENDS Sequences

Ends    == {"cn", "mn"}
Peer(e) == CHOOSE f \in Ends : f # e

(* "fin": the peer has closed.  "reset": RST has come, the error is not    *)
(* reported yet.  "pipe": who sends is killed.                             *)
SocketStates == {"open", "fin", "reset", "pipe", "closed"}

(* data: sent to this end and not read; coming: its signals on their way   *)
Connections(parts) ==
  [state  : [Ends -> SocketStates],
   data   : [Ends -> Seq(parts)],
   coming : [Ends -> {<<>>, <<"fin">>, <<"rst">>, <<"fin", "rst">>}]]

NoConnection ==
  [state  |-> [e \in Ends |-> "closed"],
   data   |-> [e \in Ends |-> <<>>],
   coming |-> [e \in Ends |-> <<>>]]

Established == [NoConnection EXCEPT !.state = [e \in Ends |-> "open"]]

(* The kernel at end e gets a signal of the peer's. *)
Arrived(k, e) ==
  [k EXCEPT !.coming[e] = Tail(@),
            !.state[e]  = CASE Head(k.coming[e]) = "fin" -> "fin"
                            [] @ = "fin"                 -> "pipe"
                            [] OTHER                     -> "reset"]

SendGoes(k, e)  == k.state[e] \in {"open", "fin"}
SendFails(k, e) == k.state[e] = "reset"
SendKills(k, e) == k.state[e] = "pipe"

(* A peer that is gone answers by RST. *)
Sent(k, e, part) ==
  IF k.state[Peer(e)] # "closed" THEN [k EXCEPT !.data[Peer(e)] = Append(@, part)]
  ELSE IF k.coming[e] \in {<<>>, <<"fin">>} /\ k.state[e] # "pipe"
       THEN [k EXCEPT !.coming[e] = Append(@, "rst")]
       ELSE k

CanReceive(k, e) == k.data[e] # <<>>
Received(k, e)   == [k EXCEPT !.data[e] = Tail(@)]

(* recv returns 0 or -1. *)
AtEnd(k, e) == k.data[e] = <<>> /\ k.state[e] \in {"fin", "reset", "pipe"}

(* An error is reported once. *)
Reported(k, e) == IF k.state[e] = "reset" THEN [k EXCEPT !.state[e] = "pipe"] ELSE k

(* End e is closed: RST to the peer if anything was unread, or arrives     *)
(* after the FIN.                                                          *)
Closings(k, e, unread) ==
  LET gone == [k EXCEPT !.state[e] = "closed", !.data[e] = <<>>, !.coming[e] = <<>>]
  IN IF k.state[Peer(e)] = "closed" THEN {gone}
     ELSE {[gone EXCEPT !.coming[Peer(e)] = signals] :
             signals \in IF unread \/ k.data[e] # <<>>
                         THEN {<<"rst">>, <<"fin", "rst">>} ELSE {<<"fin">>}}
=============================================================================
