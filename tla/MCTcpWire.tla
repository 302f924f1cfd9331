----------------------------- MODULE MCTcpWire -----------------------------
(* Two compute nodes, the second of which is there to see what the first   *)
(* one's session does to others.                                           *)
EXTENDS TcpWire

MCCalls == [c \in Clients |-> IF c = "c1" THEN 2 ELSE 0]
=============================================================================
