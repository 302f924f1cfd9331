-------------------------- MODULE MCMessageExchange --------------------------
(* Two compute nodes.  The receive queue of the first takes a second       *)
(* exchange after one that failed, the other one is full then.             *)
EXTENDS MessageExchange

MCSessions == {"s1", "s2"}
MCRequests == [s1 |-> 2, s2 |-> 2]
MCRecvWr   == [s1 |-> 2, s2 |-> 1]
=============================================================================
