----------------------------- MODULE MCEviction -----------------------------
(* Instances of Eviction; the .cfg files give the constants. *)
EXTENDS Eviction
=============================================================================
