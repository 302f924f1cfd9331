------------------------------ MODULE CommitOps ------------------------------
(***************************************************************************)
(* The guarded commit of one slot: what td_local_commit_slot and the       *)
(* eviction pass do to a slot, and what they answer.                       *)
(*                                                                         *)
(* A slot is read by epoch: guard_epoch names the proposal that owns it,   *)
(* and the body (visible_epoch, key, flags, value, MAC) is abstracted to   *)
(* the visible epoch and the tie breaker, a hash of key, value and epoch   *)
(* that is different for different proposals.                              *)
(***************************************************************************)
EXTENDS Naturals

CONSTANTS
  Slots,       \* slot locations, a (region kind, index) pair each
  CacheSlots   \* the locations of kind TD_REGION_CACHE, which eviction clears

ASSUME SlotsAssumption == Slots # {} /\ CacheSlots \subseteq Slots

(* What a slot holds; a memset slot is all zeroes. *)
Slot      == [guard : Nat, visible : Nat, tie : Nat]
EmptySlot == [guard |-> 0, visible |-> 0, tie |-> 0]

(* td_request_entry_t without the fields of the ring protocol.  The        *)
(* operation is "NONE" in a zeroed entry only.                             *)
Request ==
  [op : {"NONE", "COMMIT_SLOT", "EVICT_CACHE"},
   slot : Slots, compare : Nat, visible : Nat, tie : Nat]

ZeroRequest ==
  [op |-> "NONE", slot |-> CHOOSE s \in Slots : TRUE,
   compare |-> 0, visible |-> 0, tie |-> 0]

(* The request td_remote_evict_request sends *)
EvictRequest == [ZeroRequest EXCEPT !.op = "EVICT_CACHE"]

(* The requests td_remote_commit_request sends: any proposal for any slot *)
CommitRequest(s, compare, visible, tie) ==
  [op |-> "COMMIT_SLOT", slot |-> s,
   compare |-> compare, visible |-> visible, tie |-> tie]

(* td_request_result_t *)
Result   == [status : {0, 1}, epoch : Nat, tie : Nat]
NoResult == [status |-> 0, epoch |-> 0, tie |-> 0]

(* The guard decides: a proposal is accepted iff the slot still has the    *)
(* epoch that the proposal was computed from.                              *)
Accepts(slot, r) == slot[r.slot].guard = r.compare

Committed(slot, r) ==
  IF Accepts(slot, r)
  THEN [slot EXCEPT ![r.slot] =
          [guard |-> r.visible, visible |-> r.visible, tie |-> r.tie]]
  ELSE slot

(* Faulty variant: reports the rejection with the code of an invalid slot *)
CommitResultInvalid(slot, r) ==
  IF Accepts(slot, r)
  THEN [status |-> 0, epoch |-> r.compare, tie |-> r.tie]
  ELSE [status |-> 2, epoch |-> slot[r.slot].guard, tie |-> slot[r.slot].tie]

CommitResult(slot, r) ==
  IF Accepts(slot, r)
  THEN [status |-> 0, epoch |-> r.compare, tie |-> r.tie]
  ELSE [status |-> 1, epoch |-> slot[r.slot].guard, tie |-> slot[r.slot].tie]

(* Eviction clears whole slots of the cache region; which ones depends on  *)
(* the cursor and on the usage, left open here.                            *)
Evicted(slot, gone) ==
  [s \in Slots |-> IF s \in gone THEN EmptySlot ELSE slot[s]]

(* The pairs <<slots afterwards, answer>> that executing r may lead to. *)
Outcomes(slot, r) ==
  IF r.op = "COMMIT_SLOT"
  THEN {<<Committed(slot, r), CommitResult(slot, r)>>}
  ELSE {<<Evicted(slot, gone), NoResult>> : gone \in SUBSET CacheSlots}
=============================================================================
