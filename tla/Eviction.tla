------------------------------- MODULE Eviction -------------------------------
(***************************************************************************)
(* td_region_evict_if_needed (tdx-dist/src/layout.c): the pass that clears *)
(* a quarter of the CACHE region once its usage reaches a threshold.  It   *)
(* takes the region lock three times, to count, to clear and to count      *)
(* again.  A memory node runs it in its eviction thread and, at the same   *)
(* time, wherever an evict request is served: in the consumer of the       *)
(* request ring, in every TCP worker, in the RDMA host thread.             *)
(***************************************************************************)
EXTENDS Naturals, FiniteSets

CONSTANTS
  Evictors,    \* the threads that may run a pass
  Nobody,      \* no holder of the lock
  Slots,       \* cache_slot_count
  Threshold,   \* eviction_threshold_pct
  MaxFills     \* bound: cache commits

ASSUME EvictorsAssumption  == Nobody \notin Evictors
ASSUME SlotsAssumption     == Slots \in Nat \ {0}
ASSUME ThresholdAssumption == Threshold \in Nat /\ MaxFills \in Nat

VARIABLES
  state,    \* per cache slot: not VALID, VALID, or VALID with guard # visible
  usage,    \* header->cache_usage
  cursor,   \* header->eviction_cursor
  lock,     \* region->lock
  pc,       \* per evictor: where its pass is
  target,   \* per evictor: how many slots it still has to clear
  fills     \* cache commits so far

vars == <<state, usage, cursor, lock, pc, target, fills>>

Index == 0 .. Slots - 1

Init ==
  /\ state = [i \in Index |-> "empty"]
  /\ usage = 0
  /\ cursor = 0
  /\ lock = Nobody
  /\ pc = [e \in Evictors |-> "idle"]
  /\ target = [e \in Evictors |-> 0]
  /\ fills = 0

(* td_region_count_cache_usage *)
Used == Cardinality({i \in Index : state[i] = "valid"})

(* Faulty variant: the threshold is taken of the usage *)
NeededOfUsed == Used * 100 >= Threshold * Used

Needed == Used * 100 >= Threshold * Slots

(* Faulty variant: one slot more than are in use *)
TargetRoundedUp == Used + 1

TargetOf == IF Used \div 4 = 0 THEN 1 ELSE Used \div 4

Goto(e, from, to) == pc[e] = from /\ pc' = [pc EXCEPT ![e] = to]

Count(e) ==
  /\ lock = Nobody
  /\ usage' = Used
  /\ Goto(e, "idle", IF Needed THEN "lock" ELSE "idle")
  /\ target' = [target EXCEPT ![e] = IF Needed THEN TargetOf ELSE 0]
  /\ UNCHANGED <<state, cursor, lock, fills>>

Lock(e) ==
  /\ lock = Nobody
  /\ Goto(e, "lock", "sweep")
  /\ lock' = e
  /\ UNCHANGED <<state, usage, cursor, target, fills>>

(* Faulty variant: the cursor stays at a slot that is not VALID *)
SweepStuck(e) ==
  /\ pc[e] = "sweep" /\ target[e] > 0
  /\ IF state[cursor] # "empty"
     THEN /\ state' = [state EXCEPT ![cursor] = "empty"]
          /\ target' = [target EXCEPT ![e] = @ - 1]
          /\ cursor' = (cursor + 1) % Slots
     ELSE UNCHANGED <<state, target, cursor>>
  /\ UNCHANGED <<usage, lock, pc, fills>>

(* Faulty variant: the cursor does not wrap *)
SweepPastEnd(e) ==
  /\ pc[e] = "sweep" /\ target[e] > 0
  /\ LET i == cursor % Slots IN
       IF state[i] # "empty"
       THEN /\ state' = [state EXCEPT ![i] = "empty"]
            /\ target' = [target EXCEPT ![e] = @ - 1]
       ELSE UNCHANGED <<state, target>>
  /\ cursor' = IF cursor > Slots THEN cursor ELSE cursor + 1
  /\ UNCHANGED <<usage, lock, pc, fills>>

(* One iteration of the loop, under the lock *)
Sweep(e) ==
  /\ pc[e] = "sweep" /\ target[e] > 0
  /\ IF state[cursor] # "empty"
     THEN /\ state' = [state EXCEPT ![cursor] = "empty"]
          /\ target' = [target EXCEPT ![e] = @ - 1]
     ELSE UNCHANGED <<state, target>>
  /\ cursor' = (cursor + 1) % Slots
  /\ UNCHANGED <<usage, lock, pc, fills>>

Unlock(e) ==
  /\ target[e] = 0
  /\ Goto(e, "sweep", "recount")
  /\ lock' = Nobody
  /\ UNCHANGED <<state, usage, cursor, target, fills>>

Recount(e) ==
  /\ lock = Nobody
  /\ Goto(e, "recount", "idle")
  /\ usage' = Used
  /\ UNCHANGED <<state, cursor, lock, target, fills>>

(* A cache refresh writes the body of a slot and its guard epoch.  On the  *)
(* ring both happen under one lock; on the TCP path a pass may come        *)
(* between, and the guard may then be refused or land on a cleared slot.   *)
FillBody(i) ==
  /\ lock = Nobody /\ fills < MaxFills
  /\ state' = [state EXCEPT ![i] = "half"]
  /\ fills' = fills + 1
  /\ UNCHANGED <<usage, cursor, lock, pc, target>>

FillGuard(i) ==
  /\ lock = Nobody
  /\ state[i] = "half"
  /\ state' = [state EXCEPT ![i] = "valid"]
  /\ UNCHANGED <<usage, cursor, lock, pc, target, fills>>

Fill(i) ==
  /\ lock = Nobody /\ fills < MaxFills
  /\ state' = [state EXCEPT ![i] = "valid"]
  /\ fills' = fills + 1
  /\ UNCHANGED <<usage, cursor, lock, pc, target>>

Pass(e) == Count(e) \/ Lock(e) \/ Sweep(e) \/ Unlock(e) \/ Recount(e)

Next ==
  \/ \E e \in Evictors : Pass(e)
  \/ \E i \in Index : FillBody(i) \/ FillGuard(i) \/ Fill(i)

Spec == Init /\ [][Next]_vars

(* The eviction thread wakes up every 100 ms and its loop goes on. *)
FairSpec == Spec /\ \A e \in Evictors : WF_vars(Pass(e))

-----------------------------------------------------------------------------
(* Properties *)

(* Every variable has its type; the cursor is an index of the region. *)
TypeOK ==
  /\ state \in [Index -> {"empty", "half", "valid"}]
  /\ usage \in 0 .. Slots
  /\ cursor \in Index
  /\ lock \in Evictors \cup {Nobody}
  /\ pc \in [Evictors -> {"idle", "lock", "sweep", "recount"}]
  /\ target \in [Evictors -> 0 .. Slots]
  /\ fills \in 0 .. MaxFills

Occupied == {i \in Index : state[i] # "empty"}

(* What a pass has decided to clear is there to be cleared, though the     *)
(* count it decided on is from before it took the lock again: otherwise    *)
(* its loop would not end, and nobody else would get the lock.             *)
TargetReachable == \A e \in Evictors : target[e] <= Cardinality(Occupied)

(* A pass ends and gives the lock back. *)
PassEnds == \A e \in Evictors : pc[e] = "sweep" ~> pc[e] = "idle"

(* Once nothing is added any more, usage gets and stays below the          *)
(* threshold: the passes find nothing to do.                               *)
Relieved == <>[](\A e \in Evictors : pc[e] = "idle")
=============================================================================
