--------------------------- MODULE RequestRingProofs ---------------------------
(***************************************************************************)
(* Proofs about the request ring, for every number of producers, every     *)
(* capacity, every set of requests and with or without transport faults.   *)
(***************************************************************************)
EXTENDS RequestRingRefinement, FiniteSetTheorems, TLAPS

(* The entry a sequence number maps to exists. *)
LEMMA IndexType == \A n \in Nat : Index(n) \in 0 .. Capacity - 1
  BY CapacityAssumption, SMT DEF Index

(* Two numbers less than a ring apart have different entries. *)
LEMMA IndexInjective ==
  ASSUME NEW m \in Nat, NEW n \in Nat, m < n, n < m + Capacity
  PROVE  Index(m) # Index(n)
<1> DEFINE qm == m \div Capacity
           qn == n \div Capacity
<1>1. /\ m = Capacity * qm + Index(m) /\ qm \in Nat
      /\ n = Capacity * qn + Index(n) /\ qn \in Nat
  BY CapacityAssumption, SMT DEF Index
<1>2. SUFFICES ASSUME Index(m) = Index(n) PROVE FALSE
  OBVIOUS
<1>3. n - m = Capacity * (qn - qm)
  BY <1>1, <1>2, IndexType, CapacityAssumption, SMT
<1>4. qn - qm < 1
  BY <1>3, <1>1, CapacityAssumption, SMT
<1>. QED
  BY <1>3, <1>4, <1>1, CapacityAssumption, SMT

(* A zeroed entry is an entry. *)
LEMMA ZeroTypes == ZeroRequest \in Request /\ FreeEntry \in Entry
  BY SlotsAssumption DEF ZeroRequest, FreeEntry, Entry, Request, NoResult, Result

(* Executing a request leaves slots, and answers with a result. *)
LEMMA OutcomeTypes ==
  ASSUME slot \in [Slots -> Slot], NEW r \in Request, NEW o \in Outcomes(slot, r)
  PROVE  o[1] \in [Slots -> Slot] /\ o[2] \in Result
<1>1. CASE r.op = "COMMIT_SLOT"
  <2>1. o = <<Committed(slot, r), CommitResult(slot, r)>>
    BY <1>1 DEF Outcomes
  <2>2. Committed(slot, r) \in [Slots -> Slot]
    BY DEF Committed, Slot, Request
  <2>3. CommitResult(slot, r) \in Result
    BY DEF CommitResult, Result, Request, Slot
  <2>. QED BY <2>1, <2>2, <2>3
<1>2. CASE r.op # "COMMIT_SLOT"
  <2>1. PICK gone \in SUBSET CacheSlots : o = <<Evicted(slot, gone), NoResult>>
    BY <1>2 DEF Outcomes
  <2>2. Evicted(slot, gone) \in [Slots -> Slot]
    BY DEF Evicted, EmptySlot, Slot
  <2>3. NoResult \in Result
    BY DEF NoResult, Result
  <2>. QED BY <2>1, <2>2, <2>3
<1>. QED BY <1>1, <1>2

(* What a producer writes is an entry. *)
LEMMA ReadyType ==
  ASSUME NEW n \in Nat, NEW r \in Request PROVE ReadyEntry(n, r) \in Entry
  BY DEF ReadyEntry, Entry, NoResult, Result

-----------------------------------------------------------------------------
(* Type correctness *)

LEMMA InitType == Init => TypeOK
  BY ZeroTypes, CapacityAssumption
     DEF Init, TypeOK, NoAnswer, Answer, NoResult, Result, EmptySlot, Slot

LEMMA StepType == TypeOK /\ [Next]_vars => TypeOK'
<1> SUFFICES ASSUME TypeOK, [Next]_vars PROVE TypeOK'
  OBVIOUS
<1> USE DEF TypeOK
<1>1. ASSUME NEW p \in Producers, Submit(p) PROVE TypeOK'
  BY <1>1, RequestsAssumption
     DEF Submit, Goto, ringVars, consumerVars, NoAnswer, Answer, NoResult, Result
<1>2. ASSUME NEW p \in Producers, ReadReserveHead(p) PROVE TypeOK'
  BY <1>2 DEF ReadReserveHead, Goto, ringVars, consumerVars
<1>3. ASSUME NEW p \in Producers, ReadTail(p) PROVE TypeOK'
  BY <1>3 DEF ReadTail, Goto, ringVars, consumerVars
<1>4. ASSUME NEW p \in Producers, Reserve(p) PROVE TypeOK'
  BY <1>4 DEF Reserve, Goto, consumerVars
<1>5. ASSUME NEW p \in Producers, LoseReserve(p) PROVE TypeOK'
  BY <1>5 DEF LoseReserve, Goto, localVars, ringVars, consumerVars
<1>6. ASSUME NEW p \in Producers, Write(p) PROVE TypeOK'
  BY <1>6, ReadyType DEF Write, Goto, localVars, consumerVars
<1>7. ASSUME NEW p \in Producers, Publish(p) PROVE TypeOK'
  BY <1>7 DEF Publish, Goto, localVars, consumerVars
<1>8. ASSUME NEW p \in Producers, Polling(p) PROVE TypeOK'
  <2>1. EntryOf(seq[p]) \in Entry
    BY IndexType DEF EntryOf
  <2>2. NoResult \in Result /\ EntryOf(seq[p]).res \in Result
    BY <2>1 DEF Entry, NoResult, Result
  <2>3. ASSUME NEW kind \in {"completed", "reused", "timeout"}, NEW res \in Result,
               Answered(p, kind, res), Goto(p, "poll", "idle"),
               UNCHANGED <<localVars, ringVars, consumerVars>>
        PROVE  TypeOK'
    BY <2>3 DEF Goto, Answered, Answer, localVars, ringVars, consumerVars
  <2>. QED
    BY <1>8, <2>2, <2>3 DEF Polling, PollDone, PollReused, PollTimeout
<1>9. ASSUME NEW p \in Producers, Fault(p) PROVE TypeOK'
  <2>1. NoResult \in Result
    BY DEF NoResult, Result
  <2>. QED
    BY <1>9, <2>1, ReadyType DEF Fault, Answered, Answer, localVars, consumerVars
<1>10. CASE Execute
  <2>1. EntryOf(tail) \in Entry /\ EntryOf(tail).req \in Request
    BY IndexType DEF EntryOf, Entry
  <2>2. PICK o \in Outcomes(slot, EntryOf(tail).req) :
          /\ slot' = o[1]
          /\ crc' = o[2].status
          /\ entry' = [entry EXCEPT ![Index(tail)].res.epoch = o[2].epoch,
                                    ![Index(tail)].res.tie = o[2].tie]
          /\ log' = Append(log, [req |-> EntryOf(tail).req, res |-> o[2]])
    BY <1>10 DEF Execute
  <2>3. o[1] \in [Slots -> Slot] /\ o[2] \in Result
    BY <2>1, OutcomeTypes
  <2>4. crc' \in {0, 1}
    BY <2>2, <2>3 DEF Result
  <2>5. entry' \in [0 .. Capacity - 1 -> Entry]
    <3>1. [entry[Index(tail)] EXCEPT !.res.epoch = o[2].epoch, !.res.tie = o[2].tie]
            \in Entry
      BY <2>1, <2>3 DEF EntryOf, Entry, Result
    <3>. QED
      BY <2>2, <3>1, IndexType
  <2>6. log' \in Seq(LogEntry)
    BY <2>1, <2>2, <2>3 DEF LogEntry
  <2>. QED
    BY <1>10, <2>2, <2>3, <2>4, <2>5, <2>6 DEF Execute, localVars
<1>11. CASE MarkDone
  <2>1. entry' \in [0 .. Capacity - 1 -> Entry]
    <3>1. entry[Index(tail)] \in Entry
      BY IndexType
    <3>2. [entry[Index(tail)] EXCEPT !.res.status = crc, !.state = "DONE"] \in Entry
      BY <3>1 DEF Entry, Result
    <3>. QED
      BY <1>11, <3>2, IndexType DEF MarkDone
  <2>. QED
    BY <1>11, <2>1 DEF MarkDone, localVars
<1>12. CASE AdvanceTail
  BY <1>12 DEF AdvanceTail, localVars
<1>13. CASE BackgroundEvict
  <2>1. PICK gone \in SUBSET CacheSlots : slot' = Evicted(slot, gone)
    BY <1>13 DEF BackgroundEvict
  <2>2. slot' \in [Slots -> Slot]
    BY <2>1 DEF Evicted, EmptySlot, Slot
  <2>. QED
    BY <1>13, <2>2 DEF BackgroundEvict, localVars, ringVars
<1>14. CASE Stall
  BY <1>14 DEF Stall, localVars, ringVars
<1>15. CASE UNCHANGED vars
  BY <1>15 DEF vars
<1>. QED
  BY <1>1, <1>2, <1>3, <1>4, <1>5, <1>6, <1>7, <1>8, <1>9, <1>10, <1>11, <1>12,
     <1>13, <1>14, <1>15 DEF Next, Producer, Reserving, Consumer, Rest

(* Every variable keeps its type: no step of a producer, of the consumer   *)
(* or of the eviction thread leaves the C structures' value ranges.        *)
THEOREM TypeCorrect == Spec => []TypeOK
  BY InitType, StepType, PTL DEF Spec

-----------------------------------------------------------------------------
(* The ring invariant *)

(* The numbers of the window between tail and reserve_head have an entry   *)
(* each.                                                                   *)
LEMMA WindowDistinct ==
  ASSUME TypeOK, RingOrder, NEW m \in Nat, NEW n \in Nat, m # n,
         tail <= m, tail <= n, m < reserveHead, n < reserveHead
  PROVE  Index(m) # Index(n)
<1>1. CASE m < n
  <2>1. n < m + Capacity
    BY CapacityAssumption DEF TypeOK, RingOrder
  <2>. QED BY <1>1, <2>1, IndexInjective
<1>2. CASE n < m
  <2>1. m < n + Capacity
    BY CapacityAssumption DEF TypeOK, RingOrder
  <2>. QED BY <1>2, <2>1, IndexInjective
<1>. QED BY <1>1, <1>2

(* Unless it wraps, the unsigned difference is the difference. *)
LEMMA RoomForOne ==
  ASSUME TypeOK, NEW r \in Nat, NEW t \in Nat, t <= r, ~ Full(r, t)
  PROVE  r + 1 <= t + Capacity
  BY CapacityAssumption DEF Full, Minus

LEMMA InitRing == Init => RingInv
<1> SUFFICES ASSUME Init PROVE RingInv
  OBVIOUS
<1> USE DEF Init
<1>1. Executed = 0
  BY DEF Executed
<1>2. RingOrder
  BY <1>1, CapacityAssumption DEF RingOrder
<1>3. PublishedIntact
  BY <1>1 DEF PublishedIntact
<1>4. AnswersAreTrue /\ ReusedMeansExecuted
  BY DEF AnswersAreTrue, ReusedMeansExecuted, NoAnswer
<1>5. ClaimsSound /\ NumbersHeldOnce /\ WrittenIntact
  BY DEF ClaimsSound, NumbersHeldOnce, WrittenIntact
<1>6. InHand
  BY <1>1 DEF InHand
<1>7. DoneIsTrue
  BY DEF DoneIsTrue, FreeEntry
<1>. QED
  BY <1>2, <1>3, <1>4, <1>5, <1>6, <1>7 DEF RingInv

(* Steps of a producer that has no number: nothing shared changes. *)
LEMMA LocalStep ==
  ASSUME TypeOK, RingInv, NEW p \in Producers,
         Submit(p) \/ ReadReserveHead(p) \/ ReadTail(p) \/ LoseReserve(p)
  PROVE  RingInv'
<1>1. UNCHANGED <<ringVars, consumerVars>>
  BY DEF Submit, ReadReserveHead, ReadTail, LoseReserve, localVars
<1> USE <1>1 DEF ringVars, consumerVars
<1>2. \A q \in Producers :
        /\ pc'[q] \in {"write", "publish", "poll"} =>
             pc'[q] = pc[q] /\ seq'[q] = seq[q]
        /\ pc'[q] \notin {"idle", "down"} =>
             \/ pc[q] \notin {"idle", "down"} /\ req'[q] = req[q]
             \/ req'[q] \in Requests
        /\ pc'[q] = "poll" => req'[q] = req[q]
        /\ pc'[q] = "publish" => req'[q] = req[q]
        /\ answer'[q] = NoAnswer \/ (answer'[q] = answer[q] /\ req'[q] = req[q])
  BY RequestsAssumption
     DEF Submit, ReadReserveHead, ReadTail, LoseReserve, Goto, localVars, TypeOK
<1>3. RingOrder'
  BY DEF RingInv, RingOrder, Executed
<1>4. PublishedIntact'
  BY DEF RingInv, PublishedIntact, Executed, EntryOf
<1>5. AnswersAreTrue'
  <2>1. AnswersAreTrue
    BY DEF RingInv
  <2> SUFFICES ASSUME NEW q \in Producers
               PROVE  /\ pc'[q] = "poll" /\ HasRun(seq'[q]) =>
                           log[seq'[q] + 1].req = req'[q]
                      /\ answer'[q].kind = "completed" =>
                           /\ HasRun(answer'[q].seq)
                           /\ log[answer'[q].seq + 1] =
                                [req |-> req'[q], res |-> answer'[q].res]
    BY DEF AnswersAreTrue, HasRun, Executed
  <2>2. CASE answer'[q] = NoAnswer
    <3>1. answer'[q].kind # "completed"
      BY <2>2 DEF NoAnswer
    <3>2. pc'[q] = "poll" =>
            pc[q] = "poll" /\ req'[q] = req[q] /\ seq'[q] = seq[q]
      BY <1>2
    <3>. QED BY <2>1, <3>1, <3>2 DEF AnswersAreTrue
  <2>3. CASE answer'[q] = answer[q] /\ req'[q] = req[q]
    BY <1>2, <2>1, <2>3 DEF AnswersAreTrue
  <2>. QED BY <1>2, <2>2, <2>3
<1>6. ReusedMeansExecuted'
  BY <1>2 DEF RingInv, ReusedMeansExecuted, HasRun, Executed, NoAnswer
<1>7. ClaimsSound'
  BY DEF RingInv, ClaimsSound, Submit, ReadReserveHead, ReadTail, LoseReserve,
         Goto, TypeOK, localVars
<1>8. NumbersHeldOnce'
  BY <1>2 DEF RingInv, NumbersHeldOnce
<1>9. WrittenIntact'
  BY <1>2 DEF RingInv, WrittenIntact, HasRun, Executed, EntryOf
<1>10. InHand'
  BY DEF RingInv, InHand, Executed, EntryOf
<1>11. DoneIsTrue'
  BY DEF RingInv, DoneIsTrue, HasRun, Executed
<1>. QED
  BY <1>3, <1>4, <1>5, <1>6, <1>7, <1>8, <1>9, <1>10, <1>11 DEF RingInv

(* A successful reservation, also when its reply is lost. *)
LEMMA ReserveOrder ==
  ASSUME TypeOK, RingInv, NEW p \in Producers, pc[p] = "reserve",
         reserveHead = rh[p], reserveHead' = reserveHead + 1,
         UNCHANGED <<head, tail, log>>
  PROVE  RingOrder'
<1>1. tl[p] <= tail /\ ~ Full(rh[p], tl[p])
  BY DEF RingInv, ClaimsSound
<1>2. Executed' = Executed
  BY DEF Executed
<1>3. tl[p] <= rh[p]
  BY <1>1 DEF RingInv, RingOrder, TypeOK, Executed
<1>4. rh[p] + 1 <= tl[p] + Capacity
  BY <1>1, <1>3, RoomForOne DEF TypeOK
<1>. QED
  BY <1>1, <1>2, <1>4, CapacityAssumption DEF RingInv, RingOrder, TypeOK, Executed

LEMMA ReserveStep ==
  ASSUME TypeOK, RingInv, NEW p \in Producers, Reserve(p)
  PROVE  RingInv'
<1> USE DEF Reserve, consumerVars
<1>1. /\ pc' = [pc EXCEPT ![p] = "write"] /\ pc[p] = "reserve"
      /\ seq' = [seq EXCEPT ![p] = rh[p]] /\ reserveHead = rh[p]
  BY DEF Goto
<1>2. RingOrder'
  BY <1>1, ReserveOrder
<1>3. PublishedIntact'
  BY DEF RingInv, PublishedIntact, Executed, EntryOf
<1>4. AnswersAreTrue' /\ ReusedMeansExecuted'
  BY <1>1 DEF RingInv, AnswersAreTrue, ReusedMeansExecuted, HasRun, Executed, TypeOK
<1>5. ClaimsSound'
  BY <1>1 DEF RingInv, ClaimsSound, TypeOK
<1>6. NumbersHeldOnce'
  <2>1. NumbersHeldOnce
    BY DEF RingInv
  <2>2. \A q \in Producers :
          IF q = p THEN pc'[q] = "write" /\ seq'[q] = reserveHead
                   ELSE pc'[q] = pc[q] /\ seq'[q] = seq[q]
    BY <1>1 DEF TypeOK
  <2>3. head <= reserveHead /\ reserveHead \in Nat /\ head \in Nat
        /\ reserveHead' = reserveHead + 1 /\ head' = head
    BY DEF RingInv, RingOrder, TypeOK
  <2>4. \A q \in Producers : seq[q] \in Nat
    BY DEF TypeOK
  <2>5. \A q \in Producers :
          /\ pc'[q] \in {"write", "publish"} => head' <= seq'[q] /\ seq'[q] < reserveHead'
          /\ pc'[q] = "poll" => seq'[q] < head'
    BY <2>1, <2>2, <2>3, <2>4 DEF NumbersHeldOnce
  <2>6. \A q \in Producers :
          q # p /\ pc'[q] \in {"write", "publish"} => seq'[q] < reserveHead
    BY <2>1, <2>2 DEF NumbersHeldOnce
  <2>7. \A q, r \in Producers :
          q # r /\ pc'[q] \in {"write", "publish"} /\ pc'[r] \in {"write", "publish"}
          => seq'[q] # seq'[r]
    BY <2>1, <2>2, <2>3, <2>4, <2>6 DEF NumbersHeldOnce
  <2>. QED BY <2>5, <2>7 DEF NumbersHeldOnce
<1>7. WrittenIntact'
  BY <1>1 DEF RingInv, WrittenIntact, HasRun, Executed, EntryOf, TypeOK
<1>8. InHand'
  BY DEF RingInv, InHand, Executed, EntryOf
<1>9. DoneIsTrue'
  BY DEF RingInv, DoneIsTrue, HasRun, Executed
<1>. QED
  BY <1>2, <1>3, <1>4, <1>5, <1>6, <1>7, <1>8, <1>9 DEF RingInv

(* The store of an entry disturbs no other entry of the window. *)
LEMMA WriteEntries ==
  ASSUME TypeOK, RingInv, NEW p \in Producers, pc[p] = "write",
         entry' = [entry EXCEPT ![Index(seq[p])] = ReadyEntry(seq[p], req[p])],
         UNCHANGED <<reserveHead, head, tail, slot, cpc, crc, log, seq, req>>
  PROVE  /\ PublishedIntact' /\ InHand' /\ DoneIsTrue'
         /\ \A n \in tail .. reserveHead - 1 :
              n # seq[p] => entry'[Index(n)] = entry[Index(n)]
<1>1. seq[p] \in Nat /\ head <= seq[p] /\ seq[p] < reserveHead
  BY DEF RingInv, NumbersHeldOnce, TypeOK
<1>2. \A n \in tail .. reserveHead - 1 :
        n # seq[p] => entry'[Index(n)] = entry[Index(n)]
  <2> SUFFICES ASSUME NEW n \in tail .. reserveHead - 1, n # seq[p]
               PROVE  entry'[Index(n)] = entry[Index(n)]
    OBVIOUS
  <2>1. n \in Nat /\ tail <= n /\ n < reserveHead /\ tail <= seq[p]
    BY <1>1 DEF TypeOK, RingInv, RingOrder, Executed
  <2>2. Index(n) # Index(seq[p])
    BY <1>1, <2>1, WindowDistinct DEF RingInv
  <2>. QED
    BY <2>1, <2>2, IndexType DEF TypeOK
<1>3. PublishedIntact'
  <2>1. \A n \in Executed .. head - 1 :
          n \in tail .. reserveHead - 1 /\ n # seq[p]
    BY <1>1 DEF RingInv, RingOrder, TypeOK, Executed
  <2>. QED
    BY <1>2, <2>1 DEF RingInv, PublishedIntact, Executed, EntryOf
<1>4. InHand'
  <2>1. cpc \in {"executed", "done"} => tail \in tail .. reserveHead - 1 /\ tail # seq[p]
    BY <1>1 DEF RingInv, InHand, RingOrder, TypeOK, Executed
  <2>. QED
    BY <1>2, <2>1 DEF RingInv, InHand, Executed, EntryOf
<1>5. DoneIsTrue'
  BY <1>1, IndexType DEF RingInv, DoneIsTrue, ReadyEntry, HasRun, Executed, TypeOK
<1>. QED
  BY <1>2, <1>3, <1>4, <1>5

LEMMA WriteStep ==
  ASSUME TypeOK, RingInv, NEW p \in Producers, Write(p)
  PROVE  RingInv'
<1> USE DEF Write, consumerVars, localVars
<1>1. pc' = [pc EXCEPT ![p] = "publish"] /\ pc[p] = "write"
  BY DEF Goto
<1>2. PublishedIntact' /\ InHand' /\ DoneIsTrue'
  BY <1>1, WriteEntries
<1>3. RingOrder'
  BY DEF RingInv, RingOrder, Executed
<1>4. AnswersAreTrue' /\ ReusedMeansExecuted'
  BY <1>1 DEF RingInv, AnswersAreTrue, ReusedMeansExecuted, HasRun, Executed, TypeOK
<1>5. ClaimsSound'
  BY <1>1 DEF RingInv, ClaimsSound, TypeOK
<1>6. NumbersHeldOnce'
  BY <1>1 DEF RingInv, NumbersHeldOnce, TypeOK
<1>7. WrittenIntact'
  <2> SUFFICES ASSUME NEW q \in Producers
               PROVE  /\ pc'[q] \notin {"idle", "down"} => req'[q] \in Requests
                      /\ pc'[q] = "publish" =>
                           EntryOf(seq[q])' = ReadyEntry(seq[q], req[q])
                      /\ pc'[q] = "poll" /\ ~ HasRun(seq[q]) =>
                           EntryOf(seq[q])'.req = req[q]
    BY DEF WrittenIntact, HasRun, Executed
  <2>1. CASE q = p
    BY <1>1, <2>1, IndexType DEF RingInv, WrittenIntact, EntryOf, TypeOK
  <2>2. CASE q # p
    <3>1. pc'[q] = pc[q]
      BY <1>1, <2>2 DEF TypeOK
    <3>2. pc[q] = "publish" \/ (pc[q] = "poll" /\ ~ HasRun(seq[q])) =>
            seq[q] \in tail .. reserveHead - 1 /\ seq[q] # seq[p]
      BY <1>1, <2>2
         DEF RingInv, NumbersHeldOnce, RingOrder, HasRun, Executed, TypeOK
    <3>3. \A n \in tail .. reserveHead - 1 :
            n # seq[p] => entry'[Index(n)] = entry[Index(n)]
      BY <1>1, WriteEntries
    <3>. QED
      BY <3>1, <3>2, <3>3 DEF RingInv, WrittenIntact, EntryOf
  <2>. QED BY <2>1, <2>2
<1>. QED
  BY <1>2, <1>3, <1>4, <1>5, <1>6, <1>7 DEF RingInv

(* The publication of the number at head, also when its reply is lost. *)
LEMMA PublishShared ==
  ASSUME TypeOK, RingInv, NEW p \in Producers, pc[p] = "publish", head = seq[p],
         head' = head + 1, UNCHANGED <<reserveHead, tail, entry, consumerVars>>
  PROVE  RingOrder' /\ PublishedIntact' /\ InHand' /\ DoneIsTrue'
<1> USE DEF consumerVars
<1>1. seq[p] < reserveHead /\ EntryOf(head) = ReadyEntry(head, req[p])
        /\ req[p] \in Requests
  BY DEF RingInv, NumbersHeldOnce, WrittenIntact
<1>2. RingOrder'
  BY <1>1 DEF RingInv, RingOrder, Executed, TypeOK
<1>3. PublishedIntact'
  <2> SUFFICES ASSUME NEW n \in Executed .. head
               PROVE  /\ EntryOf(n) = ReadyEntry(n, EntryOf(n).req)
                      /\ EntryOf(n).req \in Requests
    BY DEF PublishedIntact, Executed, EntryOf, TypeOK
  <2>1. CASE n = head
    BY <1>1, <2>1 DEF ReadyEntry
  <2>2. CASE n # head
    BY <2>2 DEF RingInv, PublishedIntact, Executed, TypeOK
  <2>. QED BY <2>1, <2>2
<1>4. InHand' /\ DoneIsTrue'
  BY DEF RingInv, InHand, DoneIsTrue, HasRun, Executed, EntryOf
<1>. QED BY <1>2, <1>3, <1>4

LEMMA PublishStep ==
  ASSUME TypeOK, RingInv, NEW p \in Producers, Publish(p)
  PROVE  RingInv'
<1> USE DEF Publish, consumerVars, localVars
<1>1. pc' = [pc EXCEPT ![p] = "poll"] /\ pc[p] = "publish" /\ head = seq[p]
  BY DEF Goto
<1>2. RingOrder' /\ PublishedIntact' /\ InHand' /\ DoneIsTrue'
  BY <1>1, PublishShared
<1>3. ~ HasRun(seq[p])
  BY <1>1 DEF RingInv, RingOrder, HasRun, Executed, TypeOK
<1>4. AnswersAreTrue' /\ ReusedMeansExecuted'
  BY <1>1, <1>3 DEF RingInv, AnswersAreTrue, ReusedMeansExecuted, HasRun, Executed, TypeOK
<1>5. ClaimsSound'
  BY <1>1 DEF RingInv, ClaimsSound, TypeOK
<1>6. NumbersHeldOnce'
  BY <1>1 DEF RingInv, NumbersHeldOnce, TypeOK
<1>7. WrittenIntact'
  BY <1>1 DEF RingInv, WrittenIntact, HasRun, Executed, EntryOf, ReadyEntry, TypeOK
<1>. QED
  BY <1>2, <1>4, <1>5, <1>6, <1>7 DEF RingInv

(* The entry of a request that is waited for: either the consumer has run  *)
(* it, or it is still there.                                               *)
LEMMA PolledEntry ==
  ASSUME TypeOK, RingInv, NEW p \in Producers, pc[p] = "poll"
  PROVE  /\ seq[p] \in Nat /\ EntryOf(seq[p]) = entry[Index(seq[p])]
         /\ Index(seq[p]) \in 0 .. Capacity - 1
         /\ HasRun(seq[p]) \/ EntryOf(seq[p]).seq = seq[p]
<1>1. seq[p] \in Nat /\ seq[p] < head /\ head \in Nat /\ Executed \in Nat
  BY DEF RingInv, NumbersHeldOnce, TypeOK, Executed
<1>2. CASE HasRun(seq[p])
  BY <1>1, <1>2, IndexType DEF EntryOf
<1>3. CASE ~ HasRun(seq[p])
  <2>1. seq[p] \in Executed .. head - 1
    BY <1>1, <1>3 DEF HasRun
  <2>2. EntryOf(seq[p]) = ReadyEntry(seq[p], EntryOf(seq[p]).req)
    BY <2>1 DEF RingInv, PublishedIntact
  <2>3. EntryOf(seq[p]).seq = seq[p]
    BY <2>2 DEF ReadyEntry
  <2>. QED BY <1>1, <2>3, IndexType DEF EntryOf
<1>. QED BY <1>2, <1>3

LEMMA PollStep ==
  ASSUME TypeOK, RingInv, NEW p \in Producers, Polling(p)
  PROVE  RingInv'
<1>1. /\ pc' = [pc EXCEPT ![p] = "idle"] /\ pc[p] = "poll"
      /\ UNCHANGED <<localVars, ringVars, consumerVars>>
  BY DEF Polling, PollDone, PollReused, PollTimeout, Goto
<1>2. PICK kind \in {"completed", "reused", "timeout"}, res \in Result :
        /\ answer' = [answer EXCEPT ![p] = [kind |-> kind, seq |-> seq[p], res |-> res]]
        /\ kind = "completed" =>
             HasRun(seq[p]) /\ log[seq[p] + 1] = [req |-> req[p], res |-> res]
        /\ kind = "reused" => HasRun(seq[p]) /\ log[seq[p] + 1].req = req[p]
  <2>1. HasRun(seq[p]) => log[seq[p] + 1].req = req[p]
    BY <1>1 DEF RingInv, AnswersAreTrue
  <2>2. HasRun(seq[p]) => log[seq[p] + 1] \in LogEntry
    BY DEF HasRun, Executed, TypeOK
  <2>3. CASE PollDone(p)
    <3>1. HasRun(seq[p]) /\ EntryOf(seq[p]).res = log[seq[p] + 1].res
      BY <1>1, <2>3, PolledEntry DEF PollDone, RingInv, DoneIsTrue
    <3>2. log[seq[p] + 1] = [req |-> req[p], res |-> EntryOf(seq[p]).res]
      BY <2>1, <2>2, <3>1 DEF LogEntry
    <3>3. EntryOf(seq[p]).res \in Result
      BY <2>2, <3>1 DEF LogEntry
    <3>. QED BY <2>3, <3>1, <3>2, <3>3 DEF PollDone, Answered
  <2>4. CASE PollReused(p)
    <3>1. HasRun(seq[p])
      BY <1>1, <2>4, PolledEntry DEF PollReused
    <3>2. NoResult \in Result
      BY DEF NoResult, Result
    <3>. WITNESS "reused" \in {"completed", "reused", "timeout"}, NoResult \in Result
    <3>. QED BY <2>1, <2>4, <3>1 DEF PollReused, Answered
  <2>5. CASE PollTimeout(p)
    <3>1. NoResult \in Result
      BY DEF NoResult, Result
    <3>. WITNESS "timeout" \in {"completed", "reused", "timeout"}, NoResult \in Result
    <3>. QED BY <2>5 DEF PollTimeout, Answered
  <2>. QED BY <2>3, <2>4, <2>5 DEF Polling
<1> USE DEF localVars, ringVars, consumerVars
<1>3. RingOrder' /\ PublishedIntact' /\ InHand' /\ DoneIsTrue'
  BY <1>1 DEF RingInv, RingOrder, PublishedIntact, InHand, DoneIsTrue, HasRun,
              Executed, EntryOf
<1>4. \A q \in Producers :
        IF q = p THEN pc'[q] = "idle" /\ answer'[q] = [kind |-> kind, seq |-> seq[p], res |-> res]
                 ELSE pc'[q] = pc[q] /\ answer'[q] = answer[q]
  BY <1>1, <1>2 DEF TypeOK
<1>5. AnswersAreTrue'
  BY <1>1, <1>2, <1>4 DEF RingInv, AnswersAreTrue, HasRun, Executed
<1>6. ReusedMeansExecuted'
  BY <1>1, <1>2, <1>4 DEF RingInv, ReusedMeansExecuted, HasRun, Executed
<1>7. ClaimsSound' /\ NumbersHeldOnce' /\ WrittenIntact'
  BY <1>1, <1>4 DEF RingInv, ClaimsSound, NumbersHeldOnce, WrittenIntact, HasRun,
                    Executed, EntryOf
<1>. QED
  BY <1>3, <1>5, <1>6, <1>7 DEF RingInv

LEMMA FaultStep ==
  ASSUME TypeOK, RingInv, NEW p \in Producers, Fault(p)
  PROVE  RingInv'
<1>1. /\ pc' = [pc EXCEPT ![p] = "down"]
      /\ answer' = [answer EXCEPT ![p] =
                      [kind |-> "fault", seq |-> seq[p], res |-> NoResult]]
      /\ UNCHANGED <<localVars, tail, consumerVars>>
  BY DEF Fault, Answered
<1> USE DEF localVars, consumerVars
<1>2. \A q \in Producers :
        IF q = p THEN pc'[q] = "down" /\ answer'[q].kind = "fault"
                 ELSE pc'[q] = pc[q] /\ answer'[q] = answer[q]
  BY <1>1 DEF TypeOK
<1>3. AnswersAreTrue' /\ ReusedMeansExecuted'
  BY <1>1, <1>2 DEF RingInv, AnswersAreTrue, ReusedMeansExecuted, HasRun, Executed
<1>4. CASE UNCHANGED <<reserveHead, head, entry>>
  <2>1. RingOrder' /\ PublishedIntact' /\ InHand' /\ DoneIsTrue'
    BY <1>1, <1>4 DEF RingInv, RingOrder, PublishedIntact, InHand, DoneIsTrue,
                      HasRun, Executed, EntryOf
  <2>2. ClaimsSound' /\ NumbersHeldOnce' /\ WrittenIntact'
    BY <1>1, <1>2, <1>4 DEF RingInv, ClaimsSound, NumbersHeldOnce, WrittenIntact,
                            HasRun, Executed, EntryOf
  <2>. QED BY <1>3, <2>1, <2>2 DEF RingInv
<1>5. CASE /\ pc[p] = "reserve" /\ reserveHead = rh[p]
           /\ reserveHead' = reserveHead + 1 /\ UNCHANGED <<head, entry>>
  <2>1. RingOrder'
    BY <1>1, <1>5, ReserveOrder
  <2>2. PublishedIntact' /\ InHand' /\ DoneIsTrue'
    BY <1>1, <1>5 DEF RingInv, PublishedIntact, InHand, DoneIsTrue, HasRun,
                      Executed, EntryOf
  <2>3. ClaimsSound' /\ NumbersHeldOnce' /\ WrittenIntact'
    BY <1>1, <1>2, <1>5 DEF RingInv, ClaimsSound, NumbersHeldOnce, WrittenIntact,
                            HasRun, Executed, EntryOf, TypeOK
  <2>. QED BY <1>3, <2>1, <2>2, <2>3 DEF RingInv
<1>6. CASE /\ pc[p] = "write"
           /\ entry' = [entry EXCEPT ![Index(seq[p])] = ReadyEntry(seq[p], req[p])]
           /\ UNCHANGED <<reserveHead, head>>
  <2>1. /\ PublishedIntact' /\ InHand' /\ DoneIsTrue'
        /\ \A n \in tail .. reserveHead - 1 :
              n # seq[p] => entry'[Index(n)] = entry[Index(n)]
    BY <1>1, <1>6, WriteEntries
  <2>2. RingOrder' /\ ClaimsSound' /\ NumbersHeldOnce'
    BY <1>1, <1>2, <1>6 DEF RingInv, RingOrder, ClaimsSound, NumbersHeldOnce, Executed
  <2>3. \A q \in Producers :
          q # p /\ (pc[q] = "publish" \/ (pc[q] = "poll" /\ ~ HasRun(seq[q]))) =>
            seq[q] \in tail .. reserveHead - 1 /\ seq[q] # seq[p]
    BY <1>6 DEF RingInv, NumbersHeldOnce, RingOrder, HasRun, Executed, TypeOK
  <2>4. WrittenIntact'
    BY <1>1, <1>2, <2>1, <2>3 DEF RingInv, WrittenIntact, HasRun, Executed, EntryOf
  <2>. QED BY <1>3, <2>1, <2>2, <2>4 DEF RingInv
<1>7. CASE /\ pc[p] = "publish" /\ head = seq[p]
           /\ head' = head + 1 /\ UNCHANGED <<reserveHead, entry>>
  <2>1. RingOrder' /\ PublishedIntact' /\ InHand' /\ DoneIsTrue'
    BY <1>1, <1>7, PublishShared
  <2>2. ClaimsSound' /\ WrittenIntact'
    BY <1>1, <1>2, <1>7 DEF RingInv, ClaimsSound, WrittenIntact, HasRun, Executed, EntryOf
  <2>3. NumbersHeldOnce'
    BY <1>1, <1>2, <1>7 DEF RingInv, NumbersHeldOnce, TypeOK
  <2>. QED BY <1>3, <2>1, <2>2, <2>3 DEF RingInv
<1>. QED
  BY <1>4, <1>5, <1>6, <1>7 DEF Fault

(* The consumer's steps change the entry at the tail only. *)
LEMMA TailEntry ==
  ASSUME TypeOK, RingInv, tail < head
  PROVE  /\ tail \in Nat /\ Index(tail) \in 0 .. Capacity - 1
         /\ \A n \in tail + 1 .. reserveHead - 1 : Index(n) # Index(tail)
<1>1. tail \in Nat /\ reserveHead \in Nat /\ tail < reserveHead
  BY DEF RingInv, RingOrder, TypeOK
<1>2. ASSUME NEW n \in tail + 1 .. reserveHead - 1
      PROVE  Index(n) # Index(tail)
  BY <1>1, <1>2, WindowDistinct DEF RingInv
<1>. QED BY <1>1, <1>2, IndexType

LEMMA ExecuteStep ==
  ASSUME TypeOK, RingInv, Execute
  PROVE  RingInv'
<1> DEFINE e == EntryOf(tail)
           i == Index(tail)
<1>1. /\ cpc = "wait" /\ cpc' = "executed" /\ tail < head
      /\ e.state = "READY" /\ e.seq = tail
      /\ UNCHANGED <<pc, localVars, answer, reserveHead, head, tail>>
  BY DEF Execute
<1> USE DEF localVars
<1>2. PICK o \in Outcomes(slot, e.req) :
        /\ slot' = o[1]
        /\ crc' = o[2].status
        /\ entry' = [entry EXCEPT ![i].res.epoch = o[2].epoch,
                                  ![i].res.tie = o[2].tie]
        /\ log' = Append(log, [req |-> e.req, res |-> o[2]])
  BY DEF Execute
<1>3. Executed = tail /\ tail \in Nat /\ head \in Nat /\ reserveHead \in Nat
      /\ head <= reserveHead
  BY <1>1 DEF RingInv, InHand, RingOrder, TypeOK
<1>4. e \in Entry /\ e.req \in Request /\ i \in 0 .. Capacity - 1 /\ e = entry[i]
  BY <1>3, IndexType DEF EntryOf, Entry, TypeOK
<1>5. o[2] \in Result
  BY <1>4, OutcomeTypes DEF TypeOK
<1>6. /\ Executed' = tail + 1
      /\ \A n \in Nat : n < tail => log'[n + 1] = log[n + 1]
      /\ log'[tail + 1] = [req |-> e.req, res |-> o[2]]
  <2>1. log \in Seq(LogEntry) /\ [req |-> e.req, res |-> o[2]] \in LogEntry
    BY <1>4, <1>5 DEF TypeOK, LogEntry
  <2>2. Len(log) = tail
    BY <1>3 DEF Executed
  <2>. QED BY <1>2, <1>3, <2>1, <2>2 DEF Executed
<1>7. \A j \in 0 .. Capacity - 1 :
        IF j = i
        THEN /\ entry'[j].seq = tail /\ entry'[j].state = "READY"
             /\ entry'[j].req = e.req
             /\ entry'[j].res.epoch = o[2].epoch /\ entry'[j].res.tie = o[2].tie
        ELSE entry'[j] = entry[j]
  BY <1>1, <1>2, <1>4 DEF TypeOK, Entry, Result
<1>8. \A n \in tail + 1 .. reserveHead - 1 :
        Index(n) \in 0 .. Capacity - 1 /\ entry'[Index(n)] = entry[Index(n)]
  BY <1>1, <1>3, <1>7, TailEntry, IndexType
<1>9. RingOrder'
  BY <1>1, <1>3, <1>6 DEF RingInv, RingOrder
<1>10. PublishedIntact'
  BY <1>1, <1>3, <1>6, <1>8 DEF RingInv, PublishedIntact, EntryOf
<1>11. AnswersAreTrue'
  <2> SUFFICES ASSUME NEW p \in Producers
               PROVE  /\ pc[p] = "poll" /\ seq[p] < tail + 1 =>
                           log'[seq[p] + 1].req = req[p]
                      /\ answer[p].kind = "completed" =>
                           /\ answer[p].seq < tail + 1
                           /\ log'[answer[p].seq + 1] =
                                [req |-> req[p], res |-> answer[p].res]
    BY <1>1, <1>6 DEF AnswersAreTrue, HasRun
  <2>1. seq[p] \in Nat /\ answer[p].seq \in Nat
    BY DEF TypeOK, Answer
  <2>2. pc[p] = "poll" /\ seq[p] < tail => log[seq[p] + 1].req = req[p]
    BY <1>3 DEF RingInv, AnswersAreTrue, HasRun
  <2>3. pc[p] = "poll" /\ seq[p] = tail => e.req = req[p]
    BY <1>3 DEF RingInv, WrittenIntact, HasRun
  <2>4. answer[p].kind = "completed" =>
          /\ answer[p].seq < tail
          /\ log[answer[p].seq + 1] = [req |-> req[p], res |-> answer[p].res]
    BY <1>3 DEF RingInv, AnswersAreTrue, HasRun
  <2>. QED BY <1>3, <1>6, <2>1, <2>2, <2>3, <2>4
<1>12. ReusedMeansExecuted'
  <2>1. \A p \in Producers : answer[p].seq \in Nat
    BY DEF TypeOK, Answer
  <2>. QED
    BY <1>1, <1>3, <1>6, <2>1 DEF RingInv, ReusedMeansExecuted, HasRun
<1>13. ClaimsSound' /\ NumbersHeldOnce'
  BY <1>1 DEF RingInv, ClaimsSound, NumbersHeldOnce
<1>14. WrittenIntact'
  <2> SUFFICES ASSUME NEW p \in Producers
               PROVE  /\ pc[p] \notin {"idle", "down"} => req[p] \in Requests
                      /\ pc[p] = "publish" =>
                           entry'[Index(seq[p])] = ReadyEntry(seq[p], req[p])
                      /\ pc[p] = "poll" /\ ~ (seq[p] < tail + 1) =>
                           entry'[Index(seq[p])].req = req[p]
    BY <1>1, <1>6 DEF WrittenIntact, HasRun, EntryOf
  <2>1. WrittenIntact /\ NumbersHeldOnce /\ seq[p] \in Nat
    BY DEF RingInv, TypeOK
  <2>2. pc[p] = "publish" => seq[p] \in tail + 1 .. reserveHead - 1
    BY <1>1, <1>3, <2>1 DEF NumbersHeldOnce
  <2>3. pc[p] = "poll" /\ ~ (seq[p] < tail + 1) =>
          seq[p] \in tail + 1 .. reserveHead - 1
    BY <1>3, <2>1 DEF NumbersHeldOnce
  <2>. QED
    BY <1>3, <1>8, <2>1, <2>2, <2>3 DEF WrittenIntact, EntryOf, HasRun
<1>15. InHand'
  <2>1. EntryOf(tail)' = entry'[i] /\ tail' = tail
    BY <1>1 DEF EntryOf
  <2>2. /\ EntryOf(tail)'.seq = tail /\ EntryOf(tail)'.state = "READY"
        /\ EntryOf(tail)'.res.epoch = log'[tail + 1].res.epoch
        /\ EntryOf(tail)'.res.tie = log'[tail + 1].res.tie
        /\ crc' = log'[tail + 1].res.status
    <3>1. log'[tail + 1].res = o[2]
      BY <1>6
    <3>2. /\ entry'[i].seq = tail /\ entry'[i].state = "READY"
          /\ entry'[i].res.epoch = o[2].epoch /\ entry'[i].res.tie = o[2].tie
      BY <1>4, <1>7
    <3>. QED BY <1>2, <2>1, <3>1, <3>2
  <2>. QED
    BY <1>1, <1>6, <2>1, <2>2 DEF InHand
<1>16. DoneIsTrue'
  <2>1. \A j \in 0 .. Capacity - 1 : entry[j].seq \in Nat
    BY DEF TypeOK, Entry
  <2>. QED
    BY <1>3, <1>6, <1>7, <2>1 DEF RingInv, DoneIsTrue, HasRun
<1>. QED
  BY <1>9, <1>10, <1>11, <1>12, <1>13, <1>14, <1>15, <1>16 DEF RingInv

LEMMA MarkDoneStep ==
  ASSUME TypeOK, RingInv, MarkDone
  PROVE  RingInv'
<1> DEFINE i == Index(tail)
<1>1. /\ cpc = "executed" /\ cpc' = "done"
      /\ UNCHANGED <<pc, localVars, answer, reserveHead, head, tail, slot, crc, log>>
      /\ entry' = [entry EXCEPT ![i].res.status = crc, ![i].state = "DONE"]
  BY DEF MarkDone
<1> USE DEF localVars
<1>2. /\ Executed = tail + 1 /\ Executed' = Executed /\ Executed <= head
      /\ tail \in Nat /\ head \in Nat /\ reserveHead \in Nat /\ head <= reserveHead
      /\ entry[i].seq = tail
      /\ entry[i].res.epoch = log[tail + 1].res.epoch
      /\ entry[i].res.tie = log[tail + 1].res.tie
      /\ crc = log[tail + 1].res.status
  BY <1>1 DEF RingInv, InHand, RingOrder, TypeOK, EntryOf, Executed
<1>3. i \in 0 .. Capacity - 1 /\ log[tail + 1] \in LogEntry /\ tail < head
  <2>1. log \in Seq(LogEntry) /\ Len(log) = tail + 1
    BY <1>2 DEF TypeOK, Executed
  <2> QED BY <1>2, <2>1, IndexType
<1>4. \A j \in 0 .. Capacity - 1 :
        IF j = i
        THEN /\ entry'[j].seq = tail /\ entry'[j].state = "DONE"
             /\ entry'[j].res = log[tail + 1].res
        ELSE entry'[j] = entry[j]
  <2>1. \A j \in 0 .. Capacity - 1 :
          entry'[j] = IF j = i THEN [entry[i] EXCEPT !.res.status = crc, !.state = "DONE"]
                      ELSE entry[j]
    BY <1>1, <1>3 DEF TypeOK
  <2>2. entry[i] \in Entry /\ log[tail + 1].res \in Result
    BY <1>3 DEF TypeOK, LogEntry
  <2>3. [entry[i].res EXCEPT !.status = crc] = log[tail + 1].res
    BY <1>2, <2>2 DEF Entry, Result
  <2>4. [entry[i] EXCEPT !.res.status = crc, !.state = "DONE"].res
          = [entry[i].res EXCEPT !.status = crc]
    BY <2>2 DEF Entry
  <2>. QED
    BY <1>2, <2>1, <2>2, <2>3, <2>4 DEF Entry
<1>5. \A n \in tail + 1 .. reserveHead - 1 :
        Index(n) \in 0 .. Capacity - 1 /\ entry'[Index(n)] = entry[Index(n)]
  BY <1>2, <1>3, <1>4, TailEntry, IndexType
<1>6. RingOrder'
  BY <1>1, <1>2 DEF RingInv, RingOrder
<1>7. PublishedIntact'
  <2>1. \A n \in Executed .. head - 1 : n \in tail + 1 .. reserveHead - 1
    BY <1>2
  <2>2. \A n \in Executed .. head - 1 : EntryOf(n)' = EntryOf(n)
    BY <1>5, <2>1 DEF EntryOf
  <2>. QED
    BY <1>1, <1>2, <2>2 DEF RingInv, PublishedIntact, EntryOf
<1>8. AnswersAreTrue' /\ ReusedMeansExecuted'
  BY <1>1, <1>2 DEF RingInv, AnswersAreTrue, ReusedMeansExecuted, HasRun
<1>9. ClaimsSound' /\ NumbersHeldOnce'
  BY <1>1 DEF RingInv, ClaimsSound, NumbersHeldOnce
<1>10. WrittenIntact'
  <2> SUFFICES ASSUME NEW p \in Producers
               PROVE  /\ pc[p] \notin {"idle", "down"} => req[p] \in Requests
                      /\ pc[p] = "publish" =>
                           entry'[Index(seq[p])] = ReadyEntry(seq[p], req[p])
                      /\ pc[p] = "poll" /\ ~ (seq[p] < tail + 1) =>
                           entry'[Index(seq[p])].req = req[p]
    BY <1>1, <1>2 DEF WrittenIntact, HasRun, EntryOf
  <2>1. WrittenIntact /\ NumbersHeldOnce /\ seq[p] \in Nat
    BY DEF RingInv, TypeOK
  <2>2. /\ pc[p] = "publish" => seq[p] \in tail + 1 .. reserveHead - 1
        /\ pc[p] = "poll" /\ ~ (seq[p] < tail + 1) =>
             seq[p] \in tail + 1 .. reserveHead - 1
    BY <1>2, <1>3, <2>1 DEF NumbersHeldOnce
  <2>. QED
    BY <1>2, <1>5, <2>1, <2>2 DEF WrittenIntact, EntryOf, HasRun
<1>11. InHand'
  BY <1>1, <1>2, <1>3, <1>4 DEF InHand, EntryOf
<1>12. DoneIsTrue'
  <2> SUFFICES ASSUME NEW j \in 0 .. Capacity - 1, entry'[j].state = "DONE"
               PROVE  /\ entry'[j].seq < Executed
                      /\ entry'[j].res = log[entry'[j].seq + 1].res
    BY <1>1, <1>2 DEF DoneIsTrue, HasRun
  <2>1. CASE j = i
    BY <1>2, <1>4, <2>1
  <2>2. CASE j # i
    BY <1>4, <2>2 DEF RingInv, DoneIsTrue, HasRun
  <2>. QED BY <2>1, <2>2
<1>. QED
  BY <1>6, <1>7, <1>8, <1>9, <1>10, <1>11, <1>12 DEF RingInv

LEMMA AdvanceTailStep ==
  ASSUME TypeOK, RingInv, AdvanceTail
  PROVE  RingInv'
<1>1. /\ cpc = "done" /\ cpc' = "wait" /\ tail' = tail + 1
      /\ UNCHANGED <<pc, localVars, answer, reserveHead, head, entry, slot, crc, log>>
  BY DEF AdvanceTail
<1> USE DEF localVars
<1>2. Executed = tail + 1 /\ Executed' = Executed
  BY <1>1 DEF RingInv, InHand, Executed
<1>3. RingOrder'
  BY <1>1, <1>2, CapacityAssumption DEF RingInv, RingOrder, TypeOK
<1>4. PublishedIntact' /\ AnswersAreTrue' /\ ReusedMeansExecuted' /\ DoneIsTrue'
  BY <1>1, <1>2 DEF RingInv, PublishedIntact, AnswersAreTrue, ReusedMeansExecuted,
                    DoneIsTrue, HasRun, EntryOf
<1>5. ClaimsSound' /\ NumbersHeldOnce' /\ WrittenIntact'
  BY <1>1, <1>2 DEF RingInv, ClaimsSound, NumbersHeldOnce, WrittenIntact, HasRun,
                    EntryOf, TypeOK
<1>6. InHand'
  BY <1>1, <1>2 DEF InHand
<1>. QED
  BY <1>3, <1>4, <1>5, <1>6 DEF RingInv

LEMMA QuietStep ==
  ASSUME TypeOK, RingInv, BackgroundEvict \/ Stall \/ UNCHANGED vars
  PROVE  RingInv'
<1>1. /\ UNCHANGED <<pc, localVars, answer, ringVars, crc, log>>
      /\ cpc' = cpc \/ (cpc = "wait" /\ cpc' = "stalled")
  BY DEF BackgroundEvict, Stall, vars, localVars, ringVars
<1>. QED
  BY <1>1 DEF RingInv, RingOrder, PublishedIntact, AnswersAreTrue,
     ReusedMeansExecuted, ClaimsSound, NumbersHeldOnce, WrittenIntact, InHand,
     DoneIsTrue, HasRun, Executed, EntryOf, localVars, ringVars

(* TypeOK and RingInv together are inductive. *)
LEMMA RingStep == TypeOK /\ RingInv /\ [Next]_vars => RingInv'
<1> SUFFICES ASSUME TypeOK, RingInv, [Next]_vars PROVE RingInv'
  OBVIOUS
<1>1. ASSUME NEW p \in Producers, Submit(p) \/ Producer(p) \/ Fault(p)
      PROVE  RingInv'
  BY <1>1, LocalStep, ReserveStep, WriteStep, PublishStep, PollStep, FaultStep
     DEF Producer, Reserving
<1>2. CASE Consumer
  BY <1>2, ExecuteStep, MarkDoneStep, AdvanceTailStep DEF Consumer
<1>3. CASE BackgroundEvict \/ Stall \/ UNCHANGED vars
  BY <1>3, QuietStep
<1>. QED
  BY <1>1, <1>2, <1>3 DEF Next, Rest

(* The inductive invariant holds of every reachable state of the ring. *)
THEOREM RingInvariant == Spec => []RingInv
<1>1. Init => TypeOK /\ RingInv
  BY InitType, InitRing
<1>2. TypeOK /\ RingInv /\ [Next]_vars => (TypeOK /\ RingInv)'
  BY StepType, RingStep
<1>. QED
  BY <1>1, <1>2, PTL DEF Spec

(* However the producers' READs and CASes interleave, the counters keep    *)
(* their order and no more than capacity entries are in flight.            *)
THEOREM CountersInOrder == Spec => []RingOrder
<1>1. RingInv => RingOrder
  BY DEF RingInv
<1>. QED
  BY <1>1, RingInvariant, PTL

(* A published request reaches the consumer as its producer wrote it. *)
THEOREM PublishedStays == Spec => []PublishedIntact
<1>1. RingInv => PublishedIntact
  BY DEF RingInv
<1>. QED
  BY <1>1, RingInvariant, PTL

(* A completed call returns the result of the one execution of its own     *)
(* request.                                                                *)
THEOREM CompletedIsTrue == Spec => []AnswersAreTrue
<1>1. RingInv => AnswersAreTrue
  BY DEF RingInv
<1>. QED
  BY <1>1, RingInvariant, PTL

(* A producer that finds its entry reused knows that its request was       *)
(* executed, though not with which result.                                 *)
THEOREM ReusedIsExecuted == Spec => []ReusedMeansExecuted
<1>1. RingInv => ReusedMeansExecuted
  BY DEF RingInv
<1>. QED
  BY <1>1, RingInvariant, PTL

-----------------------------------------------------------------------------
(* The numbers that producers hold, and how many there are                 *)

Claiming == {"readHead", "readTail", "reserve"}
Holding  == {"write", "publish", "poll"}

(* No two producers hold or wait for the same number. *)
SeqsHeldOnce ==
  \A p, q \in Producers :
    p # q /\ pc[p] \in Holding /\ pc[q] \in Holding => seq[p] # seq[q]

(* Each number handed out is the one of a call, and each call has one. *)
NumbersOfCalls ==
  [0 .. reserveHead - 1 -> Producers \X (1 .. MaxCalls)]

NumbersCounted ==
  /\ \A p \in Producers :
       calls[p] <= MaxCalls /\ (pc[p] \in Claiming => calls[p] > 0)
  /\ \E f \in NumbersOfCalls :
       /\ \A m, n \in 0 .. reserveHead - 1 : f[m] = f[n] => m = n
       /\ \A n \in 0 .. reserveHead - 1 :
            /\ f[n][2] <= calls[f[n][1]]
            /\ pc[f[n][1]] \in Claiming => f[n][2] < calls[f[n][1]]

(* There are no more numbers than calls. *)
LEMMA NumberBound ==
  ASSUME TypeOK, NumbersCounted
  PROVE  reserveHead <= Cardinality(Producers) * MaxCalls
<1> DEFINE S == 0 .. reserveHead - 1
           T == Producers \X (1 .. MaxCalls)
<1>1. reserveHead \in Nat /\ MaxCalls \in Nat
  BY MaxCallsAssumption DEF TypeOK
<1>2. IsFiniteSet(S) /\ Cardinality(S) = reserveHead
  <2>1. 0 \in Int /\ reserveHead - 1 \in Int
    BY <1>1
  <2>2. IsFiniteSet(S) /\ Cardinality(S) = IF 0 > reserveHead - 1 THEN 0 ELSE reserveHead - 1 - 0 + 1
    BY <2>1, FS_Interval
  <2>. QED
    BY <1>1, <2>2
<1>3. IsFiniteSet(1 .. MaxCalls) /\ Cardinality(1 .. MaxCalls) = MaxCalls
  <2>1. 1 \in Int /\ MaxCalls \in Int
    BY <1>1
  <2>2. IsFiniteSet(1 .. MaxCalls)
        /\ Cardinality(1 .. MaxCalls) = IF 1 > MaxCalls THEN 0 ELSE MaxCalls - 1 + 1
    BY <2>1, FS_Interval
  <2>. QED
    BY <1>1, <2>2
<1>4. /\ IsFiniteSet(T) /\ Cardinality(T) = Cardinality(Producers) * MaxCalls
      /\ Cardinality(T) \in Nat
  BY <1>3, ProducersAssumption, FS_Product, FS_CardinalityType
<1>5. ~ Cardinality(T) < Cardinality(S)
  <2>1. PICK f \in [S -> T] : \A m, n \in S : f[m] = f[n] => m = n
    BY DEF NumbersCounted, NumbersOfCalls
  <2> HIDE DEF S, T
  <2>. QED
    BY <1>2, <1>4, <2>1, FS_PigeonHole
<1>. QED
  BY <1>1, <1>2, <1>4, <1>5

(* A step that hands out no number *)
LEMMA NumbersStay ==
  ASSUME TypeOK, NumbersCounted, reserveHead' = reserveHead,
         \A p \in Producers :
           \/ calls'[p] = calls[p] /\ (pc'[p] \in Claiming => pc[p] \in Claiming)
           \/ calls[p] < MaxCalls /\ calls'[p] = calls[p] + 1
  PROVE  NumbersCounted'
<1>1. PICK f \in NumbersOfCalls :
        /\ \A m, n \in 0 .. reserveHead - 1 : f[m] = f[n] => m = n
        /\ \A n \in 0 .. reserveHead - 1 :
             /\ f[n][2] <= calls[f[n][1]]
             /\ pc[f[n][1]] \in Claiming => f[n][2] < calls[f[n][1]]
  BY DEF NumbersCounted
<1>2. \A p \in Producers : calls[p] \in Nat /\ MaxCalls \in Nat
  BY MaxCallsAssumption DEF TypeOK
<1>3. \A p \in Producers :
        calls'[p] <= MaxCalls /\ (pc'[p] \in Claiming => calls'[p] > 0)
  BY <1>2 DEF NumbersCounted
<1>4. \A n \in 0 .. reserveHead - 1 : f[n][1] \in Producers /\ f[n][2] \in Nat
  BY <1>1, <1>2 DEF NumbersOfCalls
<1>5. \A n \in 0 .. reserveHead - 1 :
        /\ f[n][2] <= calls'[f[n][1]]
        /\ pc'[f[n][1]] \in Claiming => f[n][2] < calls'[f[n][1]]
  BY <1>1, <1>2, <1>4
<1>6. f \in NumbersOfCalls'
  BY <1>1 DEF NumbersOfCalls
<1>. QED
  BY <1>1, <1>3, <1>5, <1>6 DEF NumbersCounted

(* A step that hands out a number *)
LEMMA NumbersGrow ==
  ASSUME TypeOK, NumbersCounted, reserveHead' = reserveHead + 1, calls' = calls,
         NEW p \in Producers, pc[p] = "reserve", pc'[p] \notin Claiming,
         \A q \in Producers \ {p} : pc'[q] = pc[q]
  PROVE  NumbersCounted'
<1>1. PICK f \in NumbersOfCalls :
        /\ \A m, n \in 0 .. reserveHead - 1 : f[m] = f[n] => m = n
        /\ \A n \in 0 .. reserveHead - 1 :
             /\ f[n][2] <= calls[f[n][1]]
             /\ pc[f[n][1]] \in Claiming => f[n][2] < calls[f[n][1]]
  BY DEF NumbersCounted
<1>2. reserveHead \in Nat /\ \A q \in Producers : calls[q] \in Nat /\ calls[q] <= MaxCalls
  BY DEF TypeOK, NumbersCounted
<1>3. calls[p] \in 1 .. MaxCalls
  BY <1>2, MaxCallsAssumption DEF NumbersCounted, Claiming
<1>4. PICK last : last = <<p, calls[p]>> /\ last[1] = p /\ last[2] = calls[p]
  <2>1. PICK last : last = <<p, calls[p]>>
    OBVIOUS
  <2>. QED
    BY <2>1
<1>5. last \in Producers \X (1 .. MaxCalls)
  BY <1>3, <1>4
<1>6. PICK g : g = [n \in 0 .. reserveHead |-> IF n = reserveHead THEN last ELSE f[n]]
  OBVIOUS
<1>7. /\ \A n \in 0 .. reserveHead - 1 : g[n] = f[n] /\ f[n] \in Producers \X (1 .. MaxCalls)
      /\ g[reserveHead] = last
      /\ reserveHead' - 1 = reserveHead
      /\ \A n \in 0 .. reserveHead : n = reserveHead \/ n \in 0 .. reserveHead - 1
  BY <1>1, <1>2, <1>6 DEF NumbersOfCalls
<1>8. g \in NumbersOfCalls'
  <2>1. \A n \in 0 .. reserveHead : g[n] \in Producers \X (1 .. MaxCalls)
    BY <1>5, <1>7
  <2>. QED
    BY <1>6, <1>7, <2>1 DEF NumbersOfCalls
<1>9. \A n \in 0 .. reserveHead - 1 : f[n] # last
  <2>1. ASSUME NEW n \in 0 .. reserveHead - 1, f[n] = last
        PROVE  FALSE
    <3>1. f[n][2] < calls[p]
      BY <1>1, <1>4, <2>1 DEF Claiming
    <3>. QED
      BY <1>2, <1>4, <2>1, <3>1
  <2>. QED
    BY <2>1
<1>10. \A m, n \in 0 .. reserveHead : g[m] = g[n] => m = n
  BY <1>1, <1>7, <1>9
<1>11. ASSUME NEW n \in 0 .. reserveHead
       PROVE  /\ g[n][2] <= calls[g[n][1]]
              /\ pc'[g[n][1]] \in Claiming => g[n][2] < calls[g[n][1]]
  <2>1. CASE n = reserveHead
    BY <1>2, <1>4, <1>7, <2>1
  <2>2. CASE n \in 0 .. reserveHead - 1
    <3>1. g[n] = f[n] /\ f[n][1] \in Producers
      BY <1>7, <2>2
    <3>2. CASE f[n][1] = p
      BY <1>1, <2>2, <3>1, <3>2
    <3>3. CASE f[n][1] # p
      BY <1>1, <2>2, <3>1, <3>3
    <3>. QED
      BY <3>2, <3>3
  <2>. QED
    BY <1>7, <2>1, <2>2
<1>12. \A q \in Producers :
         calls'[q] <= MaxCalls /\ (pc'[q] \in Claiming => calls'[q] > 0)
  BY DEF NumbersCounted
<1>. QED
  BY <1>7, <1>8, <1>10, <1>11, <1>12 DEF NumbersCounted

(* Both hold at first, and every step preserves them. *)
LEMMA InitNumbers == Init => NumbersCounted /\ SeqsHeldOnce
<1> SUFFICES ASSUME Init PROVE NumbersCounted /\ SeqsHeldOnce
  OBVIOUS
<1>1. /\ reserveHead = 0 /\ \A p \in Producers : pc[p] = "idle" /\ calls[p] = 0
  BY DEF Init
<1>2. SeqsHeldOnce
  BY <1>1 DEF SeqsHeldOnce, Holding
<1>3. PICK f : f = [n \in 0 .. reserveHead - 1 |-> <<>>]
  OBVIOUS
<1>4. 0 .. reserveHead - 1 = {}
  BY <1>1
<1>5. f \in NumbersOfCalls
  BY <1>3, <1>4 DEF NumbersOfCalls
<1>6. \A p \in Producers :
        calls[p] <= MaxCalls /\ (pc[p] \in Claiming => calls[p] > 0)
  BY <1>1, MaxCallsAssumption DEF Claiming
<1>. QED
  BY <1>2, <1>4, <1>5, <1>6 DEF NumbersCounted

(* What one producer's step does to its program counter *)
LEMMA OtherProducers ==
  ASSUME TypeOK, NEW p \in Producers, Submit(p) \/ Producer(p) \/ Fault(p)
  PROVE  /\ \A q \in Producers \ {p} :
              pc'[q] = pc[q] /\ calls'[q] = calls[q] /\ seq'[q] = seq[q]
         /\ pc' = [pc EXCEPT ![p] = pc'[p]]
<1>1. PICK s \in {"idle", "readHead", "readTail", "reserve", "write", "publish", "poll", "down"} :
        pc' = [pc EXCEPT ![p] = s]
  BY DEF Submit, Producer, Reserving, Polling, ReadReserveHead, ReadTail, Reserve,
         LoseReserve, Write, Publish, PollDone, PollReused, PollTimeout, Fault, Goto
<1>2. pc'[p] = s /\ \A q \in Producers \ {p} : pc'[q] = pc[q]
  BY <1>1 DEF TypeOK
<1>3. \A q \in Producers \ {p} : calls'[q] = calls[q] /\ seq'[q] = seq[q]
  BY DEF Submit, Producer, Reserving, Polling, ReadReserveHead, ReadTail, Reserve,
         LoseReserve, Write, Publish, PollDone, PollReused, PollTimeout, Fault, localVars,
         TypeOK
<1>. QED
  BY <1>1, <1>2, <1>3

LEMMA NumbersStep ==
  ASSUME TypeOK, RingInv, NumbersCounted, SeqsHeldOnce, [Next]_vars
  PROVE  NumbersCounted' /\ SeqsHeldOnce'
<1>1. ASSUME NEW p \in Producers, Submit(p) \/ Producer(p) \/ Fault(p)
      PROVE  NumbersCounted' /\ SeqsHeldOnce'
  <2>1. \A q \in Producers \ {p} :
          pc'[q] = pc[q] /\ calls'[q] = calls[q] /\ seq'[q] = seq[q]
    BY <1>1, OtherProducers
  <2>2. CASE Reserve(p)
    <3>1. /\ reserveHead' = reserveHead + 1 /\ calls' = calls /\ pc[p] = "reserve"
          /\ pc'[p] = "write" /\ seq'[p] = reserveHead
      BY <2>2 DEF Reserve, Goto, TypeOK
    <3>2. NumbersCounted'
      BY <2>1, <3>1, NumbersGrow DEF Claiming
    <3>3. \A q \in Producers : pc[q] \in Holding => seq[q] < reserveHead
      BY DEF RingInv, NumbersHeldOnce, RingOrder, Executed, Holding, TypeOK
    <3>4. reserveHead \in Nat /\ \A q \in Producers : seq[q] \in Nat
      BY DEF TypeOK
    <3>5. SeqsHeldOnce'
      BY <2>1, <3>1, <3>3, <3>4 DEF SeqsHeldOnce
    <3>. QED
      BY <3>2, <3>5
  <2>3. CASE Fault(p) /\ reserveHead' # reserveHead
    <3>1. /\ reserveHead' = reserveHead + 1 /\ calls' = calls /\ pc[p] = "reserve"
          /\ pc'[p] = "down"
      BY <2>3 DEF Fault, localVars, TypeOK
    <3>2. NumbersCounted'
      BY <2>1, <3>1, NumbersGrow DEF Claiming
    <3>3. SeqsHeldOnce'
      BY <2>1, <3>1 DEF SeqsHeldOnce, Holding
    <3>. QED
      BY <3>2, <3>3
  <2>4. CASE Submit(p)
    <3>1. /\ reserveHead' = reserveHead /\ calls[p] < MaxCalls /\ calls'[p] = calls[p] + 1
          /\ pc'[p] = "readHead"
      BY <2>4 DEF Submit, Goto, ringVars, TypeOK
    <3>2. NumbersCounted'
      BY <2>1, <3>1, NumbersStay
    <3>3. SeqsHeldOnce'
      BY <2>1, <3>1 DEF SeqsHeldOnce, Holding
    <3>. QED
      BY <3>2, <3>3
  <2>5. CASE ~ Reserve(p) /\ ~ Submit(p) /\ reserveHead' = reserveHead
    <3>1. /\ calls'[p] = calls[p] /\ seq'[p] = seq[p]
          /\ pc'[p] \in Claiming => pc[p] \in Claiming
          /\ pc'[p] \in Holding => pc[p] \in Holding
      BY <1>1, <2>5
         DEF Producer, Reserving, Polling, ReadReserveHead, ReadTail, LoseReserve, Write,
             Publish, PollDone, PollReused, PollTimeout, Fault, Goto, localVars, Claiming,
             Holding, TypeOK
    <3>2. NumbersCounted'
      BY <2>1, <2>5, <3>1, NumbersStay
    <3>3. SeqsHeldOnce'
      BY <2>1, <3>1 DEF SeqsHeldOnce
    <3>. QED
      BY <3>2, <3>3
  <2>6. reserveHead' = reserveHead \/ Reserve(p) \/ Fault(p)
    BY <1>1 DEF Submit, Producer, Reserving, Polling, ReadReserveHead, ReadTail, LoseReserve,
                Write, Publish, PollDone, PollReused, PollTimeout, ringVars
  <2>. QED
    BY <2>2, <2>3, <2>4, <2>5, <2>6
<1>2. ASSUME UNCHANGED <<pc, calls, seq, reserveHead>>
      PROVE  NumbersCounted' /\ SeqsHeldOnce'
  <2>1. NumbersCounted'
    BY <1>2, NumbersStay
  <2>. QED
    BY <1>2, <2>1 DEF SeqsHeldOnce
<1>3. CASE Consumer \/ Stall \/ BackgroundEvict \/ UNCHANGED vars
  <2>1. UNCHANGED <<pc, calls, seq, reserveHead>>
    BY <1>3 DEF Consumer, Execute, MarkDone, AdvanceTail, Stall, BackgroundEvict, vars,
                localVars, ringVars
  <2>. QED
    BY <1>2, <2>1
<1>. QED
  BY <1>1, <1>3 DEF Next, Rest

-----------------------------------------------------------------------------
(* The ring implements the commit service                                  *)

LEMMA SameOps ==
  /\ \A s, gone : Service!Evicted(s, gone) = Evicted(s, gone)
  /\ \A s, r : Service!Outcomes(s, r) = Outcomes(s, r)
  BY DEF Service!Evicted, Evicted, Service!Outcomes, Outcomes, Service!Committed, Committed,
         Service!CommitResult, CommitResult, Service!Accepts, Accepts, Service!EmptySlot,
         EmptySlot, Service!NoResult, NoResult

LEMMA SameRecords ==
  /\ Service!NoCall = [stage |-> "none", req |-> ZeroRequest, res |-> NoResult]
  /\ Service!NoAnswer = [kind |-> "none", res |-> NoResult]
  /\ Service!Unknown = [kind |-> "unknown", res |-> NoResult]
  /\ Service!NoResult = NoResult
  BY DEF Service!NoCall, Service!ZeroRequest, ZeroRequest, Service!NoResult, NoResult,
         Service!NoAnswer, Service!Unknown

(* The numbers of the requests that nobody waits for *)
StrayNumbers ==
  {m \in Executed .. head - 1 : \A p \in Producers : pc[p] = "poll" => seq[p] # m}

LEMMA InitService == Init => Service!Init
<1> SUFFICES ASSUME Init PROVE Service!Init
  OBVIOUS
<1>1. slot = [s \in Slots |-> Service!EmptySlot]
  BY DEF Init, Service!EmptySlot, EmptySlot
<1>2. \A p \in Producers : CallOf(p) = Service!NoCall /\ AnswerOf(p) = Service!NoAnswer
  BY SameRecords DEF Init, CallOf, AnswerOf, NoAnswer
<1>3. Strays = {}
  BY DEF Init, Strays, Executed
<1>. QED
  BY <1>1, <1>2, <1>3 DEF Service!Init

(* How the functions of the service change when one producer's value does *)
LEMMA CallChange ==
  ASSUME NEW p \in Producers, NEW c, CallOf(p)' = c,
         \A q \in Producers \ {p} : CallOf(q)' = CallOf(q)
  PROVE  [q \in Producers |-> CallOf(q)]' = [[q \in Producers |-> CallOf(q)] EXCEPT ![p] = c]
  OBVIOUS

LEMMA AnswerChange ==
  ASSUME NEW p \in Producers, NEW a, AnswerOf(p)' = a,
         \A q \in Producers \ {p} : AnswerOf(q)' = AnswerOf(q)
  PROVE  [q \in Producers |-> AnswerOf(q)]' =
           [[q \in Producers |-> AnswerOf(q)] EXCEPT ![p] = a]
  OBVIOUS

LEMMA StraysAre ==
  Strays = {[id |-> n, req |-> EntryOf(n).req] : n \in StrayNumbers}
  BY DEF Strays, StrayNumbers

(* Strays stay when their numbers and their entries do. *)
LEMMA StraysStay ==
  ASSUME StrayNumbers' = StrayNumbers,
         \A n \in StrayNumbers : EntryOf(n).req' = EntryOf(n).req
  PROVE  Strays' = Strays
<1>1. Strays' = {[id |-> n, req |-> EntryOf(n).req'] : n \in StrayNumbers}
  BY StraysAre DEF Strays, StrayNumbers
<1>. QED
  BY <1>1, StraysAre

(* The steps that the service does not see *)
LEMMA Unseen ==
  ASSUME slot' = slot, Strays' = Strays,
         \A p \in Producers : CallOf(p)' = CallOf(p) /\ AnswerOf(p)' = AnswerOf(p)
  PROVE  UNCHANGED Service!vars
  BY DEF Service!vars

(* The numbers that are published and not run yet have their entries. *)
LEMMA StrayRange ==
  ASSUME TypeOK, RingInv, NEW n \in StrayNumbers
  PROVE  /\ n \in Nat /\ n \in tail .. reserveHead - 1 /\ ~ HasRun(n) /\ n < head
         /\ \A p \in Producers : pc[p] = "poll" => seq[p] # n
  BY DEF StrayNumbers, RingInv, RingOrder, HasRun, Executed, TypeOK

(* A producer on its way to its publication is seen by nobody. *)
LEMMA QuietProducer ==
  ASSUME TypeOK, RingInv, NEW p \in Producers,
         Reserving(p) \/ Write(p) \/ Publish(p)
  PROVE  UNCHANGED Service!vars
<1>1. /\ pc[p] \in {"readHead", "readTail", "reserve", "write", "publish"}
      /\ pc'[p] \in {"readHead", "readTail", "reserve", "write", "publish", "poll"}
      /\ req' = req /\ answer' = answer /\ slot' = slot /\ log' = log
      /\ \A q \in Producers \ {p} : pc'[q] = pc[q] /\ seq'[q] = seq[q]
  BY DEF Reserving, ReadReserveHead, ReadTail, Reserve, LoseReserve, Write, Publish, Goto,
         localVars, consumerVars, TypeOK
<1>2. pc'[p] = "poll" => Publish(p)
  BY DEF Reserving, ReadReserveHead, ReadTail, Reserve, LoseReserve, Write, Goto, TypeOK
<1>3. Publish(p) => seq[p] = head /\ seq'[p] = head /\ head' = head + 1 /\ entry' = entry
  BY DEF Publish, localVars
<1>4. Executed \in Nat /\ Executed <= head /\ head \in Nat
  BY DEF RingInv, RingOrder, Executed, TypeOK
<1>5. \A q \in Producers : CallOf(q)' = CallOf(q) /\ AnswerOf(q)' = AnswerOf(q)
  <2>1. CallOf(p) = [stage |-> "pending", req |-> req[p], res |-> NoResult]
    BY <1>1 DEF CallOf
  <2>2. CallOf(p)' = [stage |-> "pending", req |-> req[p], res |-> NoResult]
    <3>1. pc'[p] = "poll" => ~ (seq'[p] < Len(log'))
      BY <1>1, <1>2, <1>3, <1>4 DEF Executed
    <3>. QED
      BY <1>1, <3>1 DEF CallOf, HasRun, Executed
  <2>3. \A q \in Producers \ {p} : CallOf(q)' = CallOf(q)
    BY <1>1 DEF CallOf, HasRun, Executed
  <2>4. \A q \in Producers : AnswerOf(q)' = AnswerOf(q)
    BY <1>1 DEF AnswerOf
  <2>. QED
    BY <2>1, <2>2, <2>3, <2>4
<1>6. CASE Publish(p)
  <2>1. \A m \in Executed .. head :
          (\A q \in Producers : pc'[q] = "poll" => seq'[q] # m)
          <=> (m # head /\ \A q \in Producers : pc[q] = "poll" => seq[q] # m)
    BY <1>1, <1>2, <1>3, <1>6 DEF Publish, Goto, TypeOK
  <2>2. StrayNumbers' = StrayNumbers
    BY <1>1, <1>3, <1>4, <1>6, <2>1 DEF StrayNumbers, Executed
  <2>3. \A n \in StrayNumbers : EntryOf(n).req' = EntryOf(n).req
    BY <1>3, <1>6 DEF EntryOf
  <2>. QED
    BY <1>1, <1>5, <2>2, <2>3, StraysStay, Unseen
<1>7. CASE ~ Publish(p)
  <2>1. head' = head
    BY <1>7 DEF Reserving, ReadReserveHead, ReadTail, Reserve, LoseReserve, Write, ringVars
  <2>2. StrayNumbers' = StrayNumbers
    BY <1>1, <1>2, <1>7, <2>1 DEF StrayNumbers, Executed
  <2>3. ASSUME NEW n \in StrayNumbers
        PROVE  EntryOf(n).req' = EntryOf(n).req
    <3>1. CASE Write(p)
      <4>1. /\ pc[p] = "write"
            /\ entry' = [entry EXCEPT ![Index(seq[p])] = ReadyEntry(seq[p], req[p])]
            /\ UNCHANGED <<reserveHead, head, tail, slot, cpc, crc, log, seq, req>>
        BY <3>1 DEF Write, Goto, localVars, consumerVars
      <4>2. n \in tail .. reserveHead - 1 /\ n # seq[p]
        BY <4>1, StrayRange DEF RingInv, NumbersHeldOnce, TypeOK
      <4>3. entry'[Index(n)] = entry[Index(n)]
        BY <4>1, <4>2, WriteEntries
      <4>. QED
        BY <4>3 DEF EntryOf
    <3>2. CASE Reserving(p)
      BY <3>2 DEF Reserving, ReadReserveHead, ReadTail, Reserve, LoseReserve, ringVars, EntryOf
    <3>. QED
      BY <1>7, <3>1, <3>2
  <2>. QED
    BY <1>1, <1>5, <2>2, <2>3, StraysStay, Unseen
<1>. QED
  BY <1>6, <1>7

LEMMA SubmitService ==
  ASSUME TypeOK, NEW p \in Producers, Submit(p)
  PROVE  Service!Call(p)
<1>1. PICK r \in Requests : req' = [req EXCEPT ![p] = r]
  BY DEF Submit
<1>2. /\ pc[p] = "idle" /\ pc'[p] = "readHead" /\ req'[p] = r
      /\ answer'[p].kind = "none" /\ answer'[p].res = NoResult
      /\ slot' = slot /\ log' = log /\ head' = head /\ entry' = entry
      /\ \A q \in Producers \ {p} :
           pc'[q] = pc[q] /\ seq'[q] = seq[q] /\ req'[q] = req[q] /\ answer'[q] = answer[q]
  BY <1>1 DEF Submit, Goto, NoAnswer, ringVars, consumerVars, TypeOK
<1>3. CallOf(p).stage = "none"
  BY <1>2 DEF CallOf
<1>4. CallOf(p)' = [stage |-> "pending", req |-> r, res |-> Service!NoResult]
  BY <1>2, SameRecords DEF CallOf
<1>5. AnswerOf(p)' = Service!NoAnswer
  BY <1>2, SameRecords DEF AnswerOf
<1>6. \A q \in Producers \ {p} : CallOf(q)' = CallOf(q) /\ AnswerOf(q)' = AnswerOf(q)
  BY <1>2 DEF CallOf, AnswerOf, HasRun, Executed
<1>7. Strays' = Strays
  <2>1. StrayNumbers' = StrayNumbers
    BY <1>2 DEF StrayNumbers, Executed
  <2>2. \A n \in StrayNumbers : EntryOf(n).req' = EntryOf(n).req
    BY <1>2 DEF EntryOf
  <2>. QED
    BY <2>1, <2>2, StraysStay
<1>8. /\ [q \in Producers |-> CallOf(q)]' =
           [[q \in Producers |-> CallOf(q)] EXCEPT ![p] =
              [stage |-> "pending", req |-> r, res |-> Service!NoResult]]
      /\ [q \in Producers |-> AnswerOf(q)]' =
           [[q \in Producers |-> AnswerOf(q)] EXCEPT ![p] = Service!NoAnswer]
  BY <1>4, <1>5, <1>6, CallChange, AnswerChange
<1>. QED
  BY <1>2, <1>3, <1>7, <1>8 DEF Service!Call

(* A call that returns without an answer: it leaves nothing behind, or its *)
(* request stays on the ring.                                              *)
LEMMA GivesUp ==
  ASSUME TypeOK, RingInv, NumbersCounted, NEW p \in Producers,
         pc[p] \notin {"idle", "down"}, pc'[p] \in {"idle", "down"},
         answer'[p].kind \in {"reused", "timeout", "fault"},
         slot' = slot, log' = log, seq' = seq, req' = req,
         \A q \in Producers \ {p} : pc'[q] = pc[q] /\ answer'[q] = answer[q],
         \A n \in StrayNumbers : EntryOf(n).req' = EntryOf(n).req,
         \/ StrayNumbers' = StrayNumbers
         \/ /\ StrayNumbers' = StrayNumbers \cup {seq[p]}
            /\ EntryOf(seq[p]).req' = req[p]
            /\ seq[p] \notin StrayNumbers /\ seq[p] < reserveHead
            /\ pc[p] = "poll" => ~ HasRun(seq[p])
  PROVE  Service!GiveUp(p)
<1>1. /\ CallOf(p).stage # "none" /\ CallOf(p)' = Service!NoCall
      /\ AnswerOf(p)' = Service!Unknown
  BY SameRecords DEF CallOf, AnswerOf
<1>2. \A q \in Producers \ {p} : CallOf(q)' = CallOf(q) /\ AnswerOf(q)' = AnswerOf(q)
  BY DEF CallOf, AnswerOf, HasRun, Executed
<1>3. /\ [q \in Producers |-> CallOf(q)]' =
           [[q \in Producers |-> CallOf(q)] EXCEPT ![p] = Service!NoCall]
      /\ [q \in Producers |-> AnswerOf(q)]' =
           [[q \in Producers |-> AnswerOf(q)] EXCEPT ![p] = Service!Unknown]
  BY <1>1, <1>2, CallChange, AnswerChange
<1>4. CASE StrayNumbers' = StrayNumbers
  <2>1. Strays' = Strays
    BY <1>4, StraysStay
  <2>. QED
    BY <1>1, <1>3, <2>1 DEF Service!GiveUp
<1>5. CASE /\ StrayNumbers' = StrayNumbers \cup {seq[p]}
           /\ EntryOf(seq[p]).req' = req[p]
           /\ seq[p] \notin StrayNumbers /\ seq[p] < reserveHead
           /\ pc[p] = "poll" => ~ HasRun(seq[p])
  <2>1. PICK i \in Nat : i = seq[p]
    BY DEF TypeOK
  <2>2. i \in 0 .. Cardinality(Producers) * MaxCalls
    <3>1. i < reserveHead /\ reserveHead <= Cardinality(Producers) * MaxCalls
      BY <1>5, <2>1, NumberBound
    <3>2. /\ MaxCalls \in Nat /\ Cardinality(Producers) \in Nat /\ reserveHead \in Nat
      BY ProducersAssumption, MaxCallsAssumption, FS_CardinalityType DEF TypeOK
    <3>3. PICK b \in Int : b = Cardinality(Producers) * MaxCalls
      BY <3>2
    <3>. QED
      BY <2>1, <3>1, <3>2, <3>3
  <2>3. i \notin {s.id : s \in Strays}
    BY <1>5, <2>1, StraysAre
  <2>4. CallOf(p).stage = "pending" /\ CallOf(p).req = req[p]
    BY <1>5 DEF CallOf
  <2>5. Strays' = Strays \cup {[id |-> i, req |-> CallOf(p).req]}
    <3> DEFINE Left(n) == [id |-> n, req |-> EntryOf(n).req']
    <3>1. /\ Strays' = {Left(n) : n \in StrayNumbers \cup {i}}
          /\ Strays = {Left(n) : n \in StrayNumbers}
      BY <1>5, <2>1, StraysAre DEF Strays, StrayNumbers
    <3>2. Left(i) = [id |-> i, req |-> CallOf(p).req]
      BY <1>5, <2>1, <2>4 DEF EntryOf
    <3>3. \A m : m \in StrayNumbers \cup {i} <=> m \in StrayNumbers \/ m = i
      OBVIOUS
    <3> HIDE DEF Left
    <3>4. {Left(n) : n \in StrayNumbers \cup {i}} = {Left(n) : n \in StrayNumbers} \cup {Left(i)}
      BY <3>3, Zenon
    <3>. QED
      BY <3>1, <3>2, <3>4
  <2>. QED
    BY <1>1, <1>3, <2>2, <2>3, <2>4, <2>5 DEF Service!GiveUp
<1>. QED
  BY <1>4, <1>5

(* When a producer that waits stops doing so and the ring stays, its       *)
(* request is a stray from then on, unless it has run.                     *)
LEMMA StopsWaiting ==
  ASSUME TypeOK, RingInv, SeqsHeldOnce, NEW p \in Producers,
         pc[p] = "poll", pc'[p] # "poll",
         \A q \in Producers \ {p} : pc'[q] = pc[q], seq' = seq, head' = head, log' = log
  PROVE  /\ seq[p] \notin StrayNumbers /\ seq[p] < reserveHead
         /\ IF HasRun(seq[p]) THEN StrayNumbers' = StrayNumbers
                              ELSE StrayNumbers' = StrayNumbers \cup {seq[p]}
<1>1. /\ seq[p] \in Nat /\ head \in Nat /\ reserveHead \in Nat /\ Executed \in Nat
      /\ seq[p] < head /\ head <= reserveHead
  BY DEF RingInv, RingOrder, NumbersHeldOnce, Executed, TypeOK
<1>2. seq[p] \notin StrayNumbers
  BY DEF StrayNumbers
<1>3. \A q \in Producers \ {p} : pc[q] = "poll" => seq[q] # seq[p]
  BY DEF SeqsHeldOnce, Holding
<1>4. StrayNumbers' =
        {m \in Executed .. head - 1 :
           \A q \in Producers \ {p} : pc[q] = "poll" => seq[q] # m}
  BY DEF StrayNumbers, Executed
<1>5. CASE HasRun(seq[p])
  <2>1. \A m \in Executed .. head - 1 : seq[p] # m
    BY <1>1, <1>5 DEF HasRun
  <2>. QED
    BY <1>1, <1>2, <1>4, <1>5, <2>1 DEF StrayNumbers
<1>6. CASE ~ HasRun(seq[p])
  <2>1. seq[p] \in Executed .. head - 1
    BY <1>1, <1>6 DEF HasRun
  <2>2. StrayNumbers' = StrayNumbers \cup {seq[p]}
    BY <1>3, <1>4, <2>1 DEF StrayNumbers
  <2>. QED
    BY <1>1, <1>2, <1>6, <2>2
<1>. QED
  BY <1>5, <1>6

LEMMA PollService ==
  ASSUME TypeOK, RingInv, NumbersCounted, SeqsHeldOnce, NEW p \in Producers, Polling(p)
  PROVE  Service!Return(p) \/ Service!GiveUp(p)
<1>1. /\ pc[p] = "poll" /\ pc'[p] = "idle"
      /\ slot' = slot /\ log' = log /\ head' = head /\ entry' = entry
      /\ seq' = seq /\ req' = req
      /\ \A q \in Producers \ {p} : pc'[q] = pc[q] /\ answer'[q] = answer[q]
  BY DEF Polling, PollDone, PollReused, PollTimeout, Goto, Answered, localVars, ringVars,
         consumerVars, TypeOK
<1>2. /\ seq[p] \notin StrayNumbers /\ seq[p] < reserveHead
      /\ IF HasRun(seq[p]) THEN StrayNumbers' = StrayNumbers
                           ELSE StrayNumbers' = StrayNumbers \cup {seq[p]}
  BY <1>1, StopsWaiting
<1>3. \A n \in StrayNumbers : EntryOf(n).req' = EntryOf(n).req
  BY <1>1 DEF EntryOf
<1>4. CASE PollDone(p)
  <2>1. HasRun(seq[p]) /\ EntryOf(seq[p]).res = log[seq[p] + 1].res
    BY <1>1, <1>4, PolledEntry DEF PollDone, RingInv, DoneIsTrue
  <2>2. CallOf(p).stage = "executed" /\ CallOf(p).res = EntryOf(seq[p]).res
    BY <1>1, <2>1 DEF CallOf
  <2>3. answer'[p].kind = "completed" /\ answer'[p].res = EntryOf(seq[p]).res
    BY <1>4 DEF PollDone, Answered, TypeOK
  <2>4. /\ CallOf(p)' = Service!NoCall
        /\ AnswerOf(p)' = [kind |-> "completed", res |-> CallOf(p).res]
    BY <1>1, <2>2, <2>3, SameRecords DEF CallOf, AnswerOf
  <2>5. \A q \in Producers \ {p} : CallOf(q)' = CallOf(q) /\ AnswerOf(q)' = AnswerOf(q)
    BY <1>1 DEF CallOf, AnswerOf, HasRun, Executed
  <2>6. Strays' = Strays
    BY <1>2, <1>3, <2>1, StraysStay
  <2>7. /\ [q \in Producers |-> CallOf(q)]' =
             [[q \in Producers |-> CallOf(q)] EXCEPT ![p] = Service!NoCall]
        /\ [q \in Producers |-> AnswerOf(q)]' =
             [[q \in Producers |-> AnswerOf(q)] EXCEPT ![p] =
                [kind |-> "completed", res |-> CallOf(p).res]]
    BY <2>4, <2>5, CallChange, AnswerChange
  <2>. QED
    BY <1>1, <2>2, <2>6, <2>7 DEF Service!Return
<1>5. CASE PollReused(p) \/ PollTimeout(p)
  <2>1. answer'[p].kind \in {"reused", "timeout"}
    BY <1>5 DEF PollReused, PollTimeout, Answered, TypeOK
  <2>2. ~ HasRun(seq[p]) => EntryOf(seq[p]).req' = req[p]
    BY <1>1 DEF RingInv, WrittenIntact, EntryOf
  <2>. QED
    BY <1>1, <1>2, <1>3, <2>1, <2>2, GivesUp
<1>. QED
  BY <1>4, <1>5 DEF Polling

LEMMA FaultService ==
  ASSUME TypeOK, RingInv, NumbersCounted, SeqsHeldOnce, NEW p \in Producers, Fault(p)
  PROVE  Service!GiveUp(p)
<1>1. /\ pc[p] \notin {"idle", "down"} /\ pc'[p] = "down"
      /\ slot' = slot /\ log' = log /\ seq' = seq /\ req' = req
      /\ answer'[p].kind = "fault"
      /\ \A q \in Producers \ {p} : pc'[q] = pc[q] /\ answer'[q] = answer[q]
  BY DEF Fault, Answered, localVars, consumerVars, TypeOK
<1>2. CASE pc[p] = "poll"
  <2>1. head' = head /\ entry' = entry
    BY <1>2 DEF Fault
  <2>2. /\ seq[p] \notin StrayNumbers /\ seq[p] < reserveHead
        /\ IF HasRun(seq[p]) THEN StrayNumbers' = StrayNumbers
                             ELSE StrayNumbers' = StrayNumbers \cup {seq[p]}
    BY <1>1, <1>2, <2>1, StopsWaiting
  <2>3. \A n \in StrayNumbers : EntryOf(n).req' = EntryOf(n).req
    BY <2>1 DEF EntryOf
  <2>4. ~ HasRun(seq[p]) => EntryOf(seq[p]).req' = req[p]
    BY <1>1, <1>2, <2>1 DEF RingInv, WrittenIntact, EntryOf
  <2>. QED
    BY <1>1, <2>2, <2>3, <2>4, GivesUp
<1>3. CASE pc[p] # "poll" /\ head' = head
  <2>1. StrayNumbers' = StrayNumbers
    BY <1>1, <1>3 DEF StrayNumbers, Executed
  <2>2. ASSUME NEW n \in StrayNumbers
        PROVE  EntryOf(n).req' = EntryOf(n).req
    <3>1. CASE entry' = entry
      BY <3>1 DEF EntryOf
    <3>2. CASE entry' # entry
      <4>1. /\ pc[p] = "write"
            /\ entry' = [entry EXCEPT ![Index(seq[p])] = ReadyEntry(seq[p], req[p])]
            /\ UNCHANGED <<reserveHead, head, tail, slot, cpc, crc, log, seq, req>>
        BY <3>2 DEF Fault, localVars, consumerVars
      <4>2. n \in tail .. reserveHead - 1 /\ n # seq[p]
        BY <4>1, StrayRange DEF RingInv, NumbersHeldOnce, TypeOK
      <4>3. entry'[Index(n)] = entry[Index(n)]
        BY <4>1, <4>2, WriteEntries
      <4>. QED
        BY <4>3 DEF EntryOf
    <3>. QED
      BY <3>1, <3>2
  <2>. QED
    BY <1>1, <2>1, <2>2, GivesUp
<1>4. CASE head' # head
  <2>1. /\ pc[p] = "publish" /\ head = seq[p] /\ head' = head + 1 /\ entry' = entry
    BY <1>4 DEF Fault
  <2>2. /\ seq[p] \in Nat /\ Executed \in Nat /\ Executed <= seq[p] /\ seq[p] < reserveHead
        /\ EntryOf(seq[p]).req = req[p]
    BY <2>1 DEF RingInv, RingOrder, NumbersHeldOnce, WrittenIntact, ReadyEntry, Executed,
                TypeOK
  <2>3. /\ \A q \in Producers : pc[q] = "poll" => seq[q] # head
        /\ \A q \in Producers : pc'[q] = "poll" <=> pc[q] = "poll"
    BY <1>1, <2>1 DEF RingInv, NumbersHeldOnce, TypeOK
  <2>4. StrayNumbers' =
          {m \in Executed .. head : \A q \in Producers : pc[q] = "poll" => seq[q] # m}
    BY <1>1, <2>1, <2>2, <2>3 DEF StrayNumbers, Executed
  <2>5. /\ StrayNumbers' = StrayNumbers \cup {seq[p]}
        /\ seq[p] \notin StrayNumbers
    BY <2>1, <2>2, <2>3, <2>4 DEF StrayNumbers
  <2>6. /\ EntryOf(seq[p]).req' = req[p]
        /\ \A n \in StrayNumbers : EntryOf(n).req' = EntryOf(n).req
    BY <1>1, <2>1, <2>2 DEF EntryOf
  <2>. QED
    BY <1>1, <2>1, <2>2, <2>5, <2>6, GivesUp
<1>. QED
  BY <1>2, <1>3, <1>4

(* The request the consumer takes is the call of the producer that waits   *)
(* for it, or the one of a call that was given up.                         *)
LEMMA ExecuteService ==
  ASSUME TypeOK, RingInv, SeqsHeldOnce, Execute
  PROVE  (\E p \in Producers : Service!Execute(p)) \/ Service!ExecuteStray
<1> DEFINE e == EntryOf(tail)
           i == Index(tail)
<1>1. /\ cpc = "wait" /\ tail < head
      /\ UNCHANGED <<pc, localVars, answer, reserveHead, head, tail>>
  BY DEF Execute
<1> USE DEF localVars
<1>2. PICK o \in Outcomes(slot, e.req) :
        /\ slot' = o[1]
        /\ entry' = [entry EXCEPT ![i].res.epoch = o[2].epoch,
                                  ![i].res.tie = o[2].tie]
        /\ log' = Append(log, [req |-> e.req, res |-> o[2]])
  BY DEF Execute
<1>3. Executed = tail /\ tail \in Nat /\ head \in Nat /\ reserveHead \in Nat
      /\ head <= reserveHead
  BY <1>1 DEF RingInv, InHand, RingOrder, TypeOK
<1>4. e \in Entry /\ e.req \in Request /\ i \in 0 .. Capacity - 1 /\ e = entry[i]
  BY <1>3, IndexType DEF EntryOf, Entry, TypeOK
<1>5. o[2] \in Result
  BY <1>4, OutcomeTypes DEF TypeOK
<1>6. /\ Executed' = tail + 1
      /\ \A n \in Nat : n < tail => log'[n + 1] = log[n + 1]
      /\ log'[tail + 1] = [req |-> e.req, res |-> o[2]]
  <2>1. log \in Seq(LogEntry) /\ [req |-> e.req, res |-> o[2]] \in LogEntry
    BY <1>4, <1>5 DEF TypeOK, LogEntry
  <2>2. Len(log) = tail
    BY <1>3 DEF Executed
  <2>. QED BY <1>2, <1>3, <2>1, <2>2 DEF Executed
<1>7. \A n \in tail + 1 .. reserveHead - 1 : entry'[Index(n)] = entry[Index(n)]
  <2>1. \A j \in 0 .. Capacity - 1 : j # i => entry'[j] = entry[j]
    BY <1>2, <1>4 DEF TypeOK
  <2>. QED
    BY <1>1, <1>3, <2>1, TailEntry, IndexType
<1>8. \A n \in StrayNumbers : n # tail => EntryOf(n).req' = EntryOf(n).req
  <2>1. ASSUME NEW n \in StrayNumbers, n # tail
        PROVE  n \in tail + 1 .. reserveHead - 1
    BY <1>3, <2>1, StrayRange DEF HasRun
  <2>. QED
    BY <1>7, <2>1 DEF EntryOf
<1>9. StrayNumbers' = StrayNumbers \ {tail}
  <2>1. /\ StrayNumbers' =
             {m \in tail + 1 .. head - 1 : \A p \in Producers : pc[p] = "poll" => seq[p] # m}
        /\ StrayNumbers =
             {m \in tail .. head - 1 : \A p \in Producers : pc[p] = "poll" => seq[p] # m}
    BY <1>1, <1>3, <1>6 DEF StrayNumbers
  <2>2. \A m : m \in tail + 1 .. head - 1 <=> m \in tail .. head - 1 /\ m # tail
    BY <1>3
  <2>. QED
    BY <2>1, <2>2
<1>10. ASSUME NEW q \in Producers, ~ (pc[q] = "poll" /\ seq[q] = tail)
       PROVE  CallOf(q)' = CallOf(q)
  <2>1. /\ seq[q] \in Nat /\ pc'[q] = pc[q] /\ seq'[q] = seq[q] /\ req'[q] = req[q]
    BY <1>1 DEF TypeOK
  <2>2. CASE pc[q] # "poll"
    BY <2>1, <2>2 DEF CallOf
  <2>3. CASE pc[q] = "poll" /\ seq[q] < tail
    <3>1. HasRun(seq[q]) /\ HasRun(seq[q])' /\ log'[seq[q] + 1] = log[seq[q] + 1]
      BY <1>3, <1>6, <2>1, <2>3 DEF HasRun
    <3>. QED
      BY <2>1, <2>3, <3>1 DEF CallOf
  <2>4. CASE pc[q] = "poll" /\ seq[q] > tail
    <3>1. ~ HasRun(seq[q]) /\ ~ HasRun(seq[q])'
      BY <1>3, <1>6, <2>1, <2>4 DEF HasRun
    <3>. QED
      BY <2>1, <2>4, <3>1 DEF CallOf
  <2>. QED
    BY <1>3, <1>10, <2>1, <2>2, <2>3, <2>4
<1>11. /\ [q \in Producers |-> AnswerOf(q)]' = [q \in Producers |-> AnswerOf(q)]
       /\ o \in Service!Outcomes(slot, e.req)
  BY <1>1, SameOps DEF AnswerOf
<1>12. ASSUME NEW p \in Producers, pc[p] = "poll", seq[p] = tail
       PROVE  Service!Execute(p)
  <2>1. ~ HasRun(seq[p]) /\ e.req = req[p]
    BY <1>3, <1>12 DEF HasRun, RingInv, WrittenIntact
  <2>2. CallOf(p) = [stage |-> "pending", req |-> req[p], res |-> NoResult]
    BY <1>12, <2>1 DEF CallOf
  <2>3. CallOf(p)' = [stage |-> "executed", req |-> CallOf(p).req, res |-> o[2]]
    <3>1. /\ pc'[p] = "poll" /\ seq'[p] = tail /\ HasRun(seq[p])' /\ req'[p] = req[p]
          /\ log'[seq'[p] + 1].res = o[2]
      BY <1>1, <1>3, <1>6, <1>12 DEF HasRun
    <3>. QED
      BY <2>2, <3>1 DEF CallOf
  <2>4. \A q \in Producers \ {p} : CallOf(q)' = CallOf(q)
    BY <1>10, <1>12 DEF SeqsHeldOnce, Holding
  <2>5. [q \in Producers |-> CallOf(q)]' =
          [[q \in Producers |-> CallOf(q)] EXCEPT ![p] =
             [stage |-> "executed", req |-> CallOf(p).req, res |-> o[2]]]
    BY <2>3, <2>4, CallChange
  <2>6. Strays' = Strays
    <3>1. tail \notin StrayNumbers
      BY <1>12 DEF StrayNumbers
    <3>. QED
      BY <1>8, <1>9, <3>1, StraysStay
  <2>7. /\ CallOf(p).stage = "pending" /\ CallOf(p).req = e.req
        /\ o \in Service!Outcomes(slot, CallOf(p).req)
    BY <1>11, <2>1, <2>2
  <2> HIDE DEF e
  <2>. QED
    BY <1>2, <1>11, <2>5, <2>6, <2>7 DEF Service!Execute
<1>13. ASSUME \A p \in Producers : pc[p] = "poll" => seq[p] # tail
       PROVE  Service!ExecuteStray
  <2>1. [q \in Producers |-> CallOf(q)]' = [q \in Producers |-> CallOf(q)]
    BY <1>10, <1>13
  <2>2. tail \in StrayNumbers
    BY <1>1, <1>3, <1>13 DEF StrayNumbers
  <2>3. PICK s \in Strays : s = [id |-> tail, req |-> e.req]
    BY <2>2, StraysAre
  <2>4. Strays' = Strays \ {s}
    <3> DEFINE Left(n) == [id |-> n, req |-> EntryOf(n).req]
    <3>1. Strays = {Left(n) : n \in StrayNumbers}
      BY StraysAre
    <3>2. Strays' = {Left(n) : n \in StrayNumbers \ {tail}}
      <4>1. Strays' = {[id |-> n, req |-> EntryOf(n).req'] : n \in StrayNumbers \ {tail}}
        BY <1>9 DEF Strays, StrayNumbers
      <4>. QED
        BY <1>8, <4>1
    <3>3. s = Left(tail) /\ \A m, n : Left(m) = Left(n) => m = n
      BY <2>3
    <3> HIDE DEF Left
    <3>. QED
      BY <2>2, <3>1, <3>2, <3>3, Zenon
  <2>. QED
    BY <1>2, <1>11, <2>1, <2>3, <2>4 DEF Service!ExecuteStray
<1>. QED
  BY <1>12, <1>13

(* Everything else but evictions is hidden from the service. *)
LEMMA RestService ==
  ASSUME TypeOK, RingInv, MarkDone \/ AdvanceTail \/ Stall \/ BackgroundEvict \/ UNCHANGED vars
  PROVE  Service!Evict \/ UNCHANGED Service!vars
<1>1. /\ pc' = pc /\ seq' = seq /\ req' = req /\ log' = log /\ answer' = answer
      /\ head' = head
  BY DEF MarkDone, AdvanceTail, Stall, BackgroundEvict, vars, localVars, ringVars
<1>2. \A j \in 0 .. Capacity - 1 : entry'[j].req = entry[j].req
  <2>1. CASE MarkDone
    BY <2>1 DEF MarkDone, TypeOK, Entry
  <2>2. CASE ~ MarkDone
    BY <2>2 DEF AdvanceTail, Stall, BackgroundEvict, vars, ringVars
  <2>. QED
    BY <2>1, <2>2
<1>3. Strays' = Strays
  <2>1. StrayNumbers' = StrayNumbers
    BY <1>1 DEF StrayNumbers, Executed
  <2>2. \A n \in StrayNumbers : EntryOf(n).req' = EntryOf(n).req
    BY <1>2, StrayRange, IndexType DEF EntryOf
  <2>. QED
    BY <2>1, <2>2, StraysStay
<1>4. \A p \in Producers : CallOf(p)' = CallOf(p) /\ AnswerOf(p)' = AnswerOf(p)
  BY <1>1 DEF CallOf, AnswerOf, HasRun, Executed
<1>5. CASE BackgroundEvict
  <2>1. PICK gone \in SUBSET CacheSlots : slot' = Service!Evicted(slot, gone)
    BY <1>5, SameOps DEF BackgroundEvict
  <2>. QED
    BY <1>3, <1>4, <2>1 DEF Service!Evict
<1>6. CASE slot' = slot
  BY <1>3, <1>4, <1>6, Unseen
<1>. QED
  BY <1>5, <1>6 DEF MarkDone, AdvanceTail, Stall, vars

LEMMA StepService ==
  ASSUME TypeOK, RingInv, NumbersCounted, SeqsHeldOnce, [Next]_vars
  PROVE  [Service!Next]_(Service!vars)
<1>1. ASSUME NEW p \in Producers, Submit(p) \/ Producer(p) \/ Fault(p)
      PROVE  Service!Next \/ UNCHANGED Service!vars
  BY <1>1, SubmitService, QuietProducer, PollService, FaultService DEF Producer, Service!Next
<1>2. CASE Execute
  BY <1>2, ExecuteService DEF Service!Next
<1>3. CASE MarkDone \/ AdvanceTail \/ Stall \/ BackgroundEvict \/ UNCHANGED vars
  BY <1>3, RestService DEF Service!Next
<1>. QED
  BY <1>1, <1>2, <1>3 DEF Next, Consumer, Rest

(* The request ring, with its retries, timeouts, dead producers and reused *)
(* entries, implements the commit service: a call takes effect at one      *)
(* instant between its submission and its return, at most once, and        *)
(* returns what it did at that instant.                                    *)
THEOREM RingIsAService == Spec => ImplementsCommitService
<1>1. Init => NumbersCounted /\ SeqsHeldOnce
  BY InitNumbers
<1>2. TypeOK /\ RingInv /\ NumbersCounted /\ SeqsHeldOnce /\ [Next]_vars
        => NumbersCounted' /\ SeqsHeldOnce'
  BY NumbersStep
<1>3. Spec => [](NumbersCounted /\ SeqsHeldOnce)
  BY <1>1, <1>2, TypeCorrect, RingInvariant, PTL DEF Spec
<1>4. TypeOK /\ RingInv /\ NumbersCounted /\ SeqsHeldOnce /\ [Next]_vars
        => [Service!Next]_(Service!vars)
  BY StepService
<1>. QED
  BY <1>3, <1>4, InitService, TypeCorrect, RingInvariant, PTL
     DEF Spec, ImplementsCommitService, Service!Spec
=============================================================================
