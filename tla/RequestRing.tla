----------------------------- MODULE RequestRing -----------------------------
(***************************************************************************)
(* The one-sided request ring (tdx-dist/src/request.c).                    *)
(*                                                                         *)
(* Compute nodes (the producers) own nothing on the memory node: each step *)
(* of td_remote_submit_request is one RDMA READ, WRITE or CAS on the       *)
(* shared region, so every such operation is one action here and any other *)
(* producer, the consumer or the eviction thread may act in between.  The  *)
(* memory node's single consumer (td_request_consume_once) executes the    *)
(* published entries in the order of their sequence numbers; its stores to *)
(* the slot, to the entry's state and to the tail are separate actions,    *)
(* because a producer's READ may fall between them.                        *)
(*                                                                         *)
(* A READ of one entry is taken to be atomic (see README).                 *)
(***************************************************************************)
EXTENDS CommitOps, Sequences, FiniteSets

CONSTANTS
  Producers,       \* sessions of compute nodes, one request at a time each
  Requests,        \* the requests they send
  Capacity,        \* request_capacity, the number of entries of the ring
  Word,            \* 2^64, the modulus of the counters' arithmetic
  MaxCalls,        \* bound: requests one producer submits
  TransportFaults  \* whether an RDMA operation may fail

ASSUME ProducersAssumption == IsFiniteSet(Producers)
ASSUME RequestsAssumption == Requests \subseteq {r \in Request : r.op # "NONE"}
ASSUME CapacityAssumption == Capacity \in Nat \ {0}
ASSUME WordAssumption == Word \in Nat /\ Word > Capacity
ASSUME MaxCallsAssumption == MaxCalls \in Nat
ASSUME FaultsAssumption == TransportFaults \in BOOLEAN

VARIABLES
  reserveHead,  \* ring->reserve_head: next sequence number to hand out
  head,         \* ring->head: everything below is published
  tail,         \* ring->tail: next sequence number to execute
  entry,        \* the entries, by index
  slot,         \* the slots the requests commit to
  cpc,          \* consumer: what it does next
  crc,          \* consumer: rc of the request in hand
  pc,           \* producer: the operation it does next
  calls,        \* producer: requests submitted so far
  req,          \* producer: its request
  seq,          \* producer: the sequence number it reserved
  rh,           \* producer: reserve_head as it read it
  tl,           \* producer: tail as it read it
  answer,       \* producer: what its last call returned
  log           \* history: requests executed, with their results

ringVars     == <<reserveHead, head, tail, entry>>
consumerVars == <<slot, cpc, crc, log>>
localVars    == <<calls, req, seq, rh, tl>>
vars == <<reserveHead, head, tail, entry, slot, cpc, crc,
          pc, calls, req, seq, rh, tl, answer, log>>

-----------------------------------------------------------------------------
(* td_request_entry_t *)
Entry == [seq : Nat, state : {"FREE", "READY", "DONE"}, req : Request,
          res : Result]

(* The region is zeroed when it is initialized. *)
FreeEntry == [seq |-> 0, state |-> "FREE", req |-> ZeroRequest, res |-> NoResult]

Index(n) == n % Capacity
EntryOf(n) == entry[Index(n)]

(* Unsigned difference of two counters *)
Minus(a, b) == IF a >= b THEN a - b ELSE (a + Word) - b

(* Faulty variant: an off-by-one *)
FullTooLate(r, t) == Minus(r, t) > Capacity

Full(r, t) == Minus(r, t) >= Capacity

(* What a call returned: its result, or one of the error returns. *)
Answer == [kind : {"none", "completed", "reused", "timeout", "fault"},
           seq : Nat, res : Result]

NoAnswer == [kind |-> "none", seq |-> 0, res |-> NoResult]

Init ==
  /\ reserveHead = 0 /\ head = 0 /\ tail = 0
  /\ entry  = [i \in 0 .. Capacity - 1 |-> FreeEntry]
  /\ slot   = [s \in Slots |-> EmptySlot]
  /\ cpc    = "wait"
  /\ crc    = 0
  /\ pc     = [p \in Producers |-> "idle"]
  /\ calls  = [p \in Producers |-> 0]
  /\ req    = [p \in Producers |-> ZeroRequest]
  /\ seq    = [p \in Producers |-> 0]
  /\ rh     = [p \in Producers |-> 0]
  /\ tl     = [p \in Producers |-> 0]
  /\ answer = [p \in Producers |-> NoAnswer]
  /\ log    = <<>>

-----------------------------------------------------------------------------
(* Producers.  Every action below is one operation of p on the region. *)

Goto(p, from, to) == pc[p] = from /\ pc' = [pc EXCEPT ![p] = to]

Answered(p, kind, res) ==
  answer' = [answer EXCEPT ![p] = [kind |-> kind, seq |-> seq[p], res |-> res]]

(* td_remote_commit_request, td_remote_evict_request *)
Submit(p) ==
  /\ Goto(p, "idle", "readHead")
  /\ calls[p] < MaxCalls
  /\ calls' = [calls EXCEPT ![p] = @ + 1]
  /\ \E r \in Requests : req' = [req EXCEPT ![p] = r]
  /\ answer' = [answer EXCEPT ![p] = NoAnswer]
  /\ seq' = [seq EXCEPT ![p] = 0]
  /\ UNCHANGED <<rh, tl, ringVars, consumerVars>>

(* td_remote_reserve_seq reads reserve_head and tail one after the other, *)
(* starts over when the ring looks full, and else claims with a CAS.      *)
ReadReserveHead(p) ==
  /\ Goto(p, "readHead", "readTail")
  /\ rh' = [rh EXCEPT ![p] = reserveHead]
  /\ UNCHANGED <<calls, req, seq, tl, answer, ringVars, consumerVars>>

ReadTail(p) ==
  /\ Goto(p, "readTail", IF Full(rh[p], tail) THEN "readHead" ELSE "reserve")
  /\ tl' = [tl EXCEPT ![p] = tail]
  /\ UNCHANGED <<calls, req, seq, rh, answer, ringVars, consumerVars>>

Reserve(p) ==
  /\ reserveHead = rh[p]
  /\ Goto(p, "reserve", "write")
  /\ reserveHead' = reserveHead + 1
  /\ seq' = [seq EXCEPT ![p] = rh[p]]
  /\ rh' = [rh EXCEPT ![p] = 0] /\ tl' = [tl EXCEPT ![p] = 0]
  /\ UNCHANGED <<calls, req, answer, head, tail, entry, consumerVars>>

LoseReserve(p) ==
  /\ reserveHead # rh[p]
  /\ Goto(p, "reserve", "readHead")
  /\ UNCHANGED <<localVars, answer, ringVars, consumerVars>>

(* The entry as the producer writes it: results zeroed. *)
ReadyEntry(n, r) == [seq |-> n, state |-> "READY", req |-> r, res |-> NoResult]

Write(p) ==
  /\ Goto(p, "write", "publish")
  /\ entry' = [entry EXCEPT ![Index(seq[p])] = ReadyEntry(seq[p], req[p])]
  /\ UNCHANGED <<localVars, answer, reserveHead, head, tail, consumerVars>>

(* Faulty variant: publishes without waiting for earlier numbers *)
PublishUnordered(p) ==
  /\ head <= seq[p]
  /\ Goto(p, "publish", "poll")
  /\ head' = seq[p] + 1
  /\ UNCHANGED <<localVars, answer, reserveHead, tail, entry, consumerVars>>

(* td_remote_publish_seq spins until all earlier sequence numbers are *)
(* published; a failing CAS changes nothing.                          *)
Publish(p) ==
  /\ head = seq[p]
  /\ Goto(p, "publish", "poll")
  /\ head' = head + 1
  /\ UNCHANGED <<localVars, answer, reserveHead, tail, entry, consumerVars>>

(* Faulty variant: does not look at the entry's sequence number *)
PollDoneAnySeq(p) ==
  /\ Goto(p, "poll", "idle")
  /\ EntryOf(seq[p]).state = "DONE"
  /\ Answered(p, "completed", EntryOf(seq[p]).res)
  /\ UNCHANGED <<localVars, ringVars, consumerVars>>

(* The poll loop; a READ that finds the entry still waiting is repeated. *)
PollDone(p) ==
  /\ Goto(p, "poll", "idle")
  /\ EntryOf(seq[p]).seq = seq[p]
  /\ EntryOf(seq[p]).state = "DONE"
  /\ Answered(p, "completed", EntryOf(seq[p]).res)
  /\ UNCHANGED <<localVars, ringVars, consumerVars>>

PollReused(p) ==
  /\ Goto(p, "poll", "idle")
  /\ EntryOf(seq[p]).seq # seq[p]
  /\ Answered(p, "reused", NoResult)
  /\ UNCHANGED <<localVars, ringVars, consumerVars>>

(* The five second deadline, looked at only after a READ that found the *)
(* request not done.                                                    *)
PollTimeout(p) ==
  /\ Goto(p, "poll", "idle")
  /\ EntryOf(seq[p]).seq = seq[p]
  /\ EntryOf(seq[p]).state # "DONE"
  /\ Answered(p, "timeout", NoResult)
  /\ UNCHANGED <<localVars, ringVars, consumerVars>>

(* An operation fails, or the compute node dies.  Its queue pair is in the *)
(* error state from then on, so nothing of p reaches the ring again.  The  *)
(* failed operation itself may have taken effect on the memory node.       *)
Fault(p) ==
  /\ TransportFaults
  /\ pc[p] \notin {"idle", "down"}
  /\ pc' = [pc EXCEPT ![p] = "down"]
  /\ Answered(p, "fault", NoResult)
  /\ \/ UNCHANGED <<reserveHead, head, entry>>
     \/ /\ pc[p] = "reserve" /\ reserveHead = rh[p]
        /\ reserveHead' = reserveHead + 1
        /\ UNCHANGED <<head, entry>>
     \/ /\ pc[p] = "write"
        /\ entry' = [entry EXCEPT ![Index(seq[p])] = ReadyEntry(seq[p], req[p])]
        /\ UNCHANGED <<reserveHead, head>>
     \/ /\ pc[p] = "publish" /\ head = seq[p]
        /\ head' = head + 1
        /\ UNCHANGED <<reserveHead, entry>>
  /\ UNCHANGED <<localVars, tail, consumerVars>>

-----------------------------------------------------------------------------
(* The memory node: consumer loop and eviction thread. *)

(* The entry at the tail, if it is published, is executed under the region *)
(* lock; its observed_* fields are written in place.                       *)
Execute ==
  /\ cpc = "wait"
  /\ tail < head
  /\ EntryOf(tail).state = "READY"
  /\ EntryOf(tail).seq = tail
  /\ \E o \in Outcomes(slot, EntryOf(tail).req) :
       /\ slot' = o[1]
       /\ crc' = o[2].status
       /\ entry' = [entry EXCEPT ![Index(tail)].res.epoch = o[2].epoch,
                                 ![Index(tail)].res.tie = o[2].tie]
       /\ log' = Append(log, [req |-> EntryOf(tail).req, res |-> o[2]])
  /\ cpc' = "executed"
  /\ UNCHANGED <<pc, localVars, answer, reserveHead, head, tail>>

(* Faulty variant: forgets to store the status *)
MarkDoneNoStatus ==
  /\ cpc = "executed"
  /\ entry' = [entry EXCEPT ![Index(tail)].state = "DONE"]
  /\ cpc' = "done"
  /\ UNCHANGED <<pc, localVars, answer, reserveHead, head, tail, slot, crc, log>>

MarkDone ==
  /\ cpc = "executed"
  /\ entry' = [entry EXCEPT ![Index(tail)].res.status = crc,
                            ![Index(tail)].state = "DONE"]
  /\ cpc' = "done"
  /\ UNCHANGED <<pc, localVars, answer, reserveHead, head, tail, slot, crc, log>>

(* Faulty variant: a request that failed is left at the tail. *)
AdvanceTailOnSuccess ==
  /\ cpc = "done" /\ crc = 0
  /\ tail' = tail + 1
  /\ cpc' = "wait"
  /\ UNCHANGED <<pc, localVars, answer, reserveHead, head, entry, slot, crc, log>>

AdvanceTail ==
  /\ cpc = "done"
  /\ tail' = tail + 1
  /\ cpc' = "wait"
  /\ UNCHANGED <<pc, localVars, answer, reserveHead, head, entry, slot, crc, log>>

(* Of the two threads that evict, the consumer and the eviction thread, one *)
(* loops in its pass with the region lock (see Eviction): the consumer is  *)
(* in that loop, or waits for the lock, and its entry is never done.       *)
Stall ==
  /\ cpc = "wait"
  /\ tail < head
  /\ EntryOf(tail).state = "READY"
  /\ EntryOf(tail).seq = tail
  /\ cpc' = "stalled"
  /\ UNCHANGED <<pc, localVars, answer, ringVars, slot, crc, log>>

(* The memory node's eviction thread runs beside the consumer. *)
BackgroundEvict ==
  /\ \E gone \in SUBSET CacheSlots : slot' = Evicted(slot, gone)
  /\ UNCHANGED <<pc, localVars, answer, ringVars, cpc, crc, log>>

-----------------------------------------------------------------------------
Reserving(p) == ReadReserveHead(p) \/ ReadTail(p) \/ Reserve(p) \/ LoseReserve(p)

Polling(p) == PollDone(p) \/ PollReused(p) \/ PollTimeout(p)

Producer(p) == Reserving(p) \/ Write(p) \/ Publish(p) \/ Polling(p)

Consumer == Execute \/ MarkDone \/ AdvanceTail

(* Every submitted request has been answered and executed, and the bound *)
(* on the number of calls is reached: the ring rests.                     *)
Rest ==
  /\ \A p \in Producers : pc[p] = "idle" /\ calls[p] = MaxCalls
  /\ cpc = "wait" /\ tail = head
  /\ UNCHANGED vars

Next ==
  \/ \E p \in Producers : Submit(p) \/ Producer(p) \/ Fault(p)
  \/ Consumer
  \/ Stall
  \/ BackgroundEvict
  \/ Rest

Spec == Init /\ [][Next]_vars

(* The loops of a compute node that is alive and of the consumer go on. *)
FairSpec ==
  /\ Spec
  /\ \A p \in Producers : WF_vars(Producer(p))
  /\ WF_vars(Consumer)

-----------------------------------------------------------------------------
(* Properties *)

(* Every variable has its type: counters are numbers, every entry of the *)
(* ring and every local copy is what the C struct can hold.               *)
LogEntry == [req : Request, res : Result]

TypeOK ==
  /\ reserveHead \in Nat /\ head \in Nat /\ tail \in Nat
  /\ entry \in [0 .. Capacity - 1 -> Entry]
  /\ slot \in [Slots -> Slot]
  /\ cpc \in {"wait", "executed", "done", "stalled"}
  /\ crc \in {0, 1}
  /\ pc \in [Producers -> {"idle", "readHead", "readTail", "reserve", "write",
                           "publish", "poll", "down"}]
  /\ calls \in [Producers -> Nat]
  /\ req \in [Producers -> Request]
  /\ seq \in [Producers -> Nat]
  /\ rh \in [Producers -> Nat]
  /\ tl \in [Producers -> Nat]
  /\ answer \in [Producers -> Answer]
  /\ log \in Seq(LogEntry)

(* The number of requests executed, and p's sequence number among them *)
Executed == Len(log)
HasRun(n) == n < Executed

(* The counters never overtake each other and the reserved window never    *)
(* exceeds the ring, although reserve_head and tail are read at different  *)
(* times: tail <= executed <= head <= reserve_head <= tail + capacity.     *)
RingOrder ==
  /\ tail <= Executed /\ Executed <= tail + 1
  /\ Executed <= head /\ head <= reserveHead
  /\ reserveHead <= tail + Capacity

(* A published request that has not run yet sits complete in its entry:    *)
(* no other producer, however long it slept between its operations, has    *)
(* overwritten it.                                                         *)
PublishedIntact ==
  \A n \in Executed .. head - 1 :
    /\ EntryOf(n) = ReadyEntry(n, EntryOf(n).req)
    /\ EntryOf(n).req \in Requests

(* What ran under a producer's sequence number is the request that this    *)
(* producer submitted, and an answer "completed" carries the result of     *)
(* that execution and of no other.                                         *)
AnswersAreTrue ==
  \A p \in Producers :
    /\ pc[p] = "poll" /\ HasRun(seq[p]) => log[seq[p] + 1].req = req[p]
    /\ answer[p].kind = "completed" =>
         /\ HasRun(answer[p].seq)
         /\ log[answer[p].seq + 1] = [req |-> req[p], res |-> answer[p].res]

(* The error return "request ring slot reused" means that the request was  *)
(* executed: its entry is taken by another one only afterwards.            *)
ReusedMeansExecuted ==
  \A p \in Producers :
    answer[p].kind = "reused" =>
      /\ HasRun(answer[p].seq)
      /\ log[answer[p].seq + 1].req = req[p]

(* The rest of the inductive invariant.                                    *)

(* A claim is computed from values that were once true. *)
ClaimsSound ==
  \A p \in Producers :
    /\ pc[p] \in {"readTail", "reserve"} => rh[p] <= reserveHead
    /\ pc[p] = "reserve" => tl[p] <= tail /\ ~ Full(rh[p], tl[p])

(* Reserved numbers are held by one producer each, unpublished above head *)
(* and published below it.                                                *)
NumbersHeldOnce ==
  /\ \A p \in Producers :
       /\ pc[p] \in {"write", "publish"} => head <= seq[p] /\ seq[p] < reserveHead
       /\ pc[p] = "poll" => seq[p] < head
  /\ \A p, q \in Producers :
       /\ p # q
       /\ pc[p] \in {"write", "publish"}
       /\ pc[q] \in {"write", "publish"}
       => seq[p] # seq[q]

(* What a producer has written stays as it is until the consumer runs it. *)
WrittenIntact ==
  \A p \in Producers :
    /\ pc[p] \notin {"idle", "down"} => req[p] \in Requests
    /\ pc[p] = "publish" => EntryOf(seq[p]) = ReadyEntry(seq[p], req[p])
    /\ pc[p] = "poll" /\ ~ HasRun(seq[p]) => EntryOf(seq[p]).req = req[p]

(* The entry the consumer has in hand, and the results of finished ones *)
InHand ==
  /\ cpc \in {"wait", "stalled"} => Executed = tail
  /\ cpc \in {"executed", "done"} =>
       /\ Executed = tail + 1
       /\ EntryOf(tail).seq = tail
       /\ EntryOf(tail).state = (IF cpc = "executed" THEN "READY" ELSE "DONE")
       /\ EntryOf(tail).res.epoch = log[tail + 1].res.epoch
       /\ EntryOf(tail).res.tie = log[tail + 1].res.tie
       /\ crc = log[tail + 1].res.status

DoneIsTrue ==
  \A i \in 0 .. Capacity - 1 :
    entry[i].state = "DONE" =>
      /\ HasRun(entry[i].seq)
      /\ entry[i].res = log[entry[i].seq + 1].res

(* Inductive with TypeOK; its first four conjuncts are the properties. *)
RingInv ==
  /\ RingOrder
  /\ PublishedIntact
  /\ AnswersAreTrue
  /\ ReusedMeansExecuted
  /\ ClaimsSound
  /\ NumbersHeldOnce
  /\ WrittenIntact
  /\ InHand
  /\ DoneIsTrue

(* The consumer is stopped for good, in an eviction pass or by the lock. *)
Stalled == cpc = "stalled"

(* A request that was published is executed, also when the compute node    *)
(* that published it has died or has given up waiting, unless an eviction  *)
(* pass never ends.                                                        *)
PublishedIsExecuted ==
  \A n \in 0 .. Cardinality(Producers) * MaxCalls - 1 :
    (head > n) ~> (HasRun(n) \/ Stalled)

(* A reserved number that nobody is going to publish any more *)
Gap ==
  \E n \in head .. reserveHead - 1 :
    \A p \in Producers : pc[p] \in {"write", "publish"} => seq[p] # n

(* A call that has its number returns, whatever the other producers do,    *)
(* unless a compute node died between its reservation and its publication. *)
NumberedCallsReturn ==
  \A p \in Producers :
    pc[p] \in {"write", "publish", "poll"} ~> (pc[p] \in {"idle", "down"} \/ Gap)

(* Somebody looks for a number. *)
Looking == \E p \in Producers : pc[p] \in {"readHead", "readTail", "reserve"}

(* The loop that looks for a number (td_remote_reserve_seq) has no deadline *)
(* and no order: one call may lose its CAS, or find the ring full, again   *)
(* and again.  It does so only because others get numbers meanwhile, or    *)
(* because entries are never freed: behind a gap or a consumer that is     *)
(* stalled.                                                                *)
SomeCallGetsNumber ==
  \A n \in 0 .. Cardinality(Producers) * MaxCalls - 1 :
    Looking /\ reserveHead = n ~> ~ Looking \/ reserveHead > n \/ Gap \/ Stalled

(* Progress of the callers, with all that can hold them up.  It does not   *)
(* promise that each of them gets a number.                                *)
CallsProgress == NumberedCallsReturn /\ SomeCallGetsNumber
=============================================================================
