------------------------ MODULE RequestRingRefinement ------------------------
(***************************************************************************)
(* The request ring implements the commit service: the mapping that reads  *)
(* the service's state off the ring.                                       *)
(***************************************************************************)
EXTENDS RequestRing

(* A call is executed once the consumer has run its number, and its result *)
(* is the one of that run; the entry may be gone by then.                  *)
CallOf(p) ==
  IF pc[p] \in {"idle", "down"}
  THEN [stage |-> "none", req |-> ZeroRequest, res |-> NoResult]
  ELSE IF pc[p] = "poll" /\ HasRun(seq[p])
  THEN [stage |-> "executed", req |-> req[p], res |-> log[seq[p] + 1].res]
  ELSE [stage |-> "pending", req |-> req[p], res |-> NoResult]

AnswerOf(p) ==
  IF answer[p].kind \in {"none", "completed"}
  THEN [kind |-> answer[p].kind, res |-> answer[p].res]
  ELSE [kind |-> "unknown", res |-> NoResult]

(* Published, not yet run, and nobody waits for it *)
Strays ==
  {[id |-> n, req |-> EntryOf(n).req] :
     n \in {m \in Executed .. head - 1 :
              \A p \in Producers : pc[p] = "poll" => seq[p] # m}}

Service == INSTANCE CommitService
  WITH slot   <- slot,
       call   <- [p \in Producers |-> CallOf(p)],
       answer <- [p \in Producers |-> AnswerOf(p)],
       stray  <- Strays,
       Ids    <- 0 .. Cardinality(Producers) * MaxCalls

(* Every behaviour of the ring, with reused entries, timeouts, dead        *)
(* producers and evictions, is a behaviour of the commit service: each     *)
(* request takes effect atomically, at most once, between submission and   *)
(* return, and completed calls return the result of that effect.           *)
ImplementsCommitService == Service!Spec
=============================================================================
