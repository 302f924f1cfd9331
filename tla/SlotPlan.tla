------------------------------- MODULE SlotPlan -------------------------------
(***************************************************************************)
(* How the memory of a memory node is divided (tdx-dist/src/config.c) and  *)
(* where the parts lie in it (tdx-dist/src/layout.c).  The slot counts of  *)
(* the three kinds are given in the configuration or left open; what is    *)
(* left open gets the remaining slots in the proportion 4:1:4, rounded to  *)
(* the largest remainders.                                                 *)
(***************************************************************************)
EXTENDS Naturals

CONSTANTS
  HeaderBytes,  \* sizeof(td_region_header_t)
  RingBytes,    \* sizeof(td_request_ring_t)
  EntryBytes,   \* sizeof(td_request_entry_t)
  SlotBytes,    \* sizeof(td_slot_t)
  Word          \* SIZE_MAX + 1

ASSUME BytesAssumption ==
  /\ HeaderBytes \in Nat /\ RingBytes \in Nat /\ EntryBytes \in Nat
  /\ SlotBytes \in Nat \ 0 .. 4   \* a number of slots times 4 is a size_t
  /\ Word \in Nat \ {0}

(* In the order of the region, which is the order of priority, too *)
PlanKinds == {"PRIME", "CACHE", "BACKUP"}

Priority == [PRIME |-> 0, CACHE |-> 1, BACKUP |-> 2]

Weight == [PRIME |-> 4, CACHE |-> 1, BACKUP |-> 4]

Total(count) == count["PRIME"] + count["CACHE"] + count["BACKUP"]

Bit(b) == IF b THEN 1 ELSE 0

(* What td_parse_size_literal can return *)
Size == 0 .. Word - 1

(* A configuration; slots is 0 for a kind that is not explicit. *)
Configuration ==
  {c \in [memory : Size, requests : Size, slots : [PlanKinds -> Size],
          explicit : SUBSET PlanKinds, replication : Nat \ {0}] :
     \A k \in PlanKinds \ c.explicit : c.slots[k] = 0}

(* What comes before the slots *)
Reserved(c) == (HeaderBytes + RingBytes + c.requests * EntryBytes) % Word

CapacitySlots(c) == (c.memory - Reserved(c)) \div SlotBytes

ManualSlots(c) == Total(c.slots) % Word

-----------------------------------------------------------------------------
(* td_allocate_weighted_slots *)

WeightSum(auto) == Total([k \in PlanKinds |-> IF k \in auto THEN Weight[k] ELSE 0])

Quotient(remaining, auto, k) ==
  IF k \in auto THEN (remaining * Weight[k]) \div WeightSum(auto) ELSE 0

Remainder(remaining, auto, k) ==
  IF k \in auto THEN (remaining * Weight[k]) % WeightSum(auto) ELSE 0

Allocated(remaining, auto) ==
  Total([k \in PlanKinds |-> Quotient(remaining, auto, k)])

(* j is preferred to k when single slots are handed out. *)
Before(remaining, auto, j, k) ==
  LET rj == Remainder(remaining, auto, j)
      rk == Remainder(remaining, auto, k)
  IN  j \in auto /\ (rj > rk \/ (rj = rk /\ Priority[j] < Priority[k]))

(* Slots are handed out one by one to the largest remainder, which is then *)
(* set to 0; fewer slots are left than there are remainders above 0, so    *)
(* nobody gets two of them.                                                *)
GetsOneMore(remaining, auto, k) ==
  /\ k \in auto
  /\ Total([j \in PlanKinds |-> Bit(Before(remaining, auto, j, k))])
       < remaining - Allocated(remaining, auto)

(* Faulty variant: every share is rounded up. *)
ShareRoundedUp(remaining, auto, k) ==
  Quotient(remaining, auto, k) + Bit(Remainder(remaining, auto, k) > 0)

Share(remaining, auto, k) ==
  Quotient(remaining, auto, k) + Bit(GetsOneMore(remaining, auto, k))

-----------------------------------------------------------------------------
(* td_resolve_mn_slots *)

(* The slot counts after the split; a kind that is left open starts at 0. *)
Slots(c) ==
  LET remaining == CapacitySlots(c) - ManualSlots(c)
      auto == PlanKinds \ c.explicit
  IN  [k \in PlanKinds |->
         IF k \in auto THEN Share(remaining, auto, k) ELSE c.slots[k]]

(* Faulty variant: given slot counts are taken without comparing them with *)
(* the memory.                                                             *)
ResolvesUnchecked(c) ==
  /\ c.requests > 0
  /\ c.memory > Reserved(c)
  /\ Slots(c)["PRIME"] > 0

Resolves(c) ==
  /\ c.requests > 0
  /\ c.memory > Reserved(c)
  /\ CapacitySlots(c) > 0
  /\ ManualSlots(c) <= CapacitySlots(c)
  /\ Slots(c)["PRIME"] > 0
  /\ c.replication > 1 => Slots(c)["BACKUP"] > 0

(* The stand-alone host exposer (tdx-dist-host/src/config.c) has a copy of *)
(* all this, but wants backup slots in any case.                           *)
ResolvesExposer(c) == Resolves(c) /\ Slots(c)["BACKUP"] > 0

-----------------------------------------------------------------------------
(* td_region_kind_base_offset, td_region_slot_offset_for_index *)

KindOffset(reserved, slots, kind) ==
  reserved + SlotBytes *
    (CASE kind = "PRIME"  -> 0
       [] kind = "CACHE"  -> slots["PRIME"]
       [] kind = "BACKUP" -> slots["PRIME"] + slots["CACHE"])

SlotOffset(reserved, slots, kind, i) ==
  KindOffset(reserved, slots, kind) + i * SlotBytes

-----------------------------------------------------------------------------
(* The sums of the configuration stay below SIZE_MAX: nothing checks that. *)
NoOverflow(c) ==
  /\ Total(c.slots) < Word
  /\ HeaderBytes + RingBytes + c.requests * EntryBytes < Word

(* Header, ring and slots of a configuration that is accepted fit into its *)
(* memory, unless one of the two sums wraps, and then they never fit; if a *)
(* count is left open less than a slot is left over (td_resolve_mn_slots;  *)
(* README: the rest is divided automatically).                             *)
PlanFits(c) ==
  Resolves(c) =>
    LET used == HeaderBytes + RingBytes + c.requests * EntryBytes
                + Total(Slots(c)) * SlotBytes
    IN  /\ used <= c.memory <=> NoOverflow(c)
        /\ c.explicit # PlanKinds => c.memory < used + SlotBytes

(* Two slots of an accepted configuration never share a byte, and none of  *)
(* them reaches beyond the memory (td_region_slot_ptr does not check),     *)
(* unless a sum wraps.                                                     *)
SlotsApart(c) ==
  Resolves(c) /\ NoOverflow(c) =>
    \A j, k \in PlanKinds :
      \A i \in 0 .. Slots(c)[j] - 1, l \in 0 .. Slots(c)[k] - 1 :
        LET a == SlotOffset(Reserved(c), Slots(c), j, i)
            b == SlotOffset(Reserved(c), Slots(c), k, l)
        IN  /\ Reserved(c) <= a /\ a + SlotBytes <= c.memory
            /\ <<j, i>> # <<k, l>> => a + SlotBytes <= b \/ b + SlotBytes <= a
=============================================================================
