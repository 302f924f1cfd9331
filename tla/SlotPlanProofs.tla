---------------------------- MODULE SlotPlanProofs ----------------------------
(***************************************************************************)
(* The division of the memory is exact, for every size and every choice of *)
(* the counts that are left open.                                          *)
(***************************************************************************)
EXTENDS SlotPlan, TLAPS

(* The bytes of the sizes are numbers, and a share of nothing open is 0. *)
LEMMA SharesAreNumbers ==
  ASSUME NEW remaining \in Nat, NEW auto \in SUBSET PlanKinds,
         NEW k \in PlanKinds
  PROVE  /\ Share(remaining, auto, k) \in Nat
         /\ k \notin auto => Share(remaining, auto, k) = 0
<1>1. CASE k \in auto
  <2>1. WeightSum(auto) \in {1, 4, 5, 8, 9}
    BY <1>1 DEF WeightSum, Total, Weight, PlanKinds
  <2>2. Weight[k] \in {1, 4}
    BY DEF Weight, PlanKinds
  <2>3. Quotient(remaining, auto, k) \in Nat
    BY <1>1, <2>1, <2>2 DEF Quotient
  <2> QED BY <1>1, <2>3 DEF Share, Bit
<1>2. CASE k \notin auto
  BY <1>2 DEF Share, Quotient, GetsOneMore, Bit
<1> QED BY <1>1, <1>2

(* td_allocate_weighted_slots hands out all remaining slots, no more and no *)
(* fewer, whenever a count is left open; the slots that the division leaves *)
(* over go to kinds that lost a fraction by it, one each, so that setting a *)
(* remainder to 0 in the loop never decides anything.                       *)
THEOREM SplitIsExact ==
  ASSUME NEW remaining \in Nat, NEW auto \in SUBSET PlanKinds, auto # {}
  PROVE  /\ Total([k \in PlanKinds |-> Share(remaining, auto, k)]) = remaining
         /\ \A k \in PlanKinds :
              GetsOneMore(remaining, auto, k) => Remainder(remaining, auto, k) > 0
<1> DEFINE P == "PRIME" \in auto
           C == "CACHE" \in auto
           B == "BACKUP" \in auto
<1> USE DEF Total, Share, Quotient, GetsOneMore, Before, Remainder, Allocated,
     WeightSum, Weight, Priority, PlanKinds, Bit
<1>1. CASE P /\ C /\ B
  <2>1. Total([k \in PlanKinds |-> Share(remaining, auto, k)]) = remaining
    BY <1>1
  <2>2. ASSUME NEW k \in PlanKinds, GetsOneMore(remaining, auto, k)
        PROVE  Remainder(remaining, auto, k) > 0
    <3>1. CASE k = "PRIME"
      BY <1>1, <2>2, <3>1
    <3>2. CASE k = "CACHE"
      BY <1>1, <2>2, <3>2
    <3>3. CASE k = "BACKUP"
      BY <1>1, <2>2, <3>3
    <3> QED BY <3>1, <3>2, <3>3
  <2> QED BY <2>1, <2>2
<1>2. CASE P /\ C /\ ~B
  BY <1>2
<1>3. CASE P /\ ~C /\ B
  <2>1. Total([k \in PlanKinds |-> Share(remaining, auto, k)]) = remaining
    BY <1>3
  <2>2. ASSUME NEW k \in PlanKinds, GetsOneMore(remaining, auto, k)
        PROVE  Remainder(remaining, auto, k) > 0
    <3>1. CASE k = "PRIME"
      BY <1>3, <2>2, <3>1
    <3>2. CASE k = "BACKUP"
      BY <1>3, <2>2, <3>2
    <3> QED BY <1>3, <2>2, <3>1, <3>2
  <2> QED BY <2>1, <2>2
<1>4. CASE P /\ ~C /\ ~B
  BY <1>4
<1>5. CASE ~P /\ C /\ B
  BY <1>5
<1>6. CASE ~P /\ C /\ ~B
  BY <1>6
<1>7. CASE ~P /\ ~C /\ B
  BY <1>7
<1>8. P \/ C \/ B
  OBVIOUS
<1> QED BY <1>1, <1>2, <1>3, <1>4, <1>5, <1>6, <1>7, <1>8

(* A division leaves a remainder smaller than the divisor. *)
LEMMA DivisionBounds ==
  ASSUME NEW x \in Nat, NEW d \in Nat \ {0}
  PROVE  /\ x \div d \in Nat
         /\ (x \div d) * d <= x
         /\ x < (x \div d) * d + d
  OBVIOUS

(* The sizes and sums of a configuration are numbers. *)
LEMMA PlanNumbers ==
  ASSUME NEW c \in Configuration
  PROVE  /\ c.slots \in [PlanKinds -> Nat] /\ c.memory \in Nat /\ c.memory < Word
         /\ c.explicit \in SUBSET PlanKinds
         /\ \A k \in PlanKinds \ c.explicit : c.slots[k] = 0
         /\ HeaderBytes + RingBytes + c.requests * EntryBytes \in Nat
         /\ Total(c.slots) \in Nat
         /\ Reserved(c) \in Nat
         /\ ManualSlots(c) \in Nat
<1>1. /\ c.slots \in [PlanKinds -> Nat] /\ c.memory \in Nat /\ c.memory < Word
      /\ c.requests \in Nat /\ c.explicit \in SUBSET PlanKinds
      /\ \A k \in PlanKinds \ c.explicit : c.slots[k] = 0
  BY BytesAssumption DEF Configuration, Size
<1>2. c.requests * EntryBytes \in Nat
  BY <1>1, BytesAssumption
<1>3. HeaderBytes + RingBytes + c.requests * EntryBytes \in Nat
  BY <1>2, BytesAssumption
<1>4. Total(c.slots) \in Nat
  BY <1>1 DEF Total, PlanKinds
<1>5. \A x \in Nat : x % Word \in Nat
  BY BytesAssumption
<1> QED BY <1>1, <1>3, <1>4, <1>5 DEF Reserved, ManualSlots

(* The reserved bytes and the given slots, if nothing wraps *)
LEMMA ReservedBytes ==
  ASSUME NEW c \in Configuration, NoOverflow(c)
  PROVE  /\ Reserved(c) = HeaderBytes + RingBytes + c.requests * EntryBytes
         /\ ManualSlots(c) = Total(c.slots)
<1>3. Total(c.slots) \in Nat
  BY PlanNumbers
<1>4. \A x \in Nat : x < Word => x % Word = x
  BY BytesAssumption
<1>5. HeaderBytes + RingBytes + c.requests * EntryBytes \in Nat
  BY PlanNumbers
<1>6. Reserved(c) = HeaderBytes + RingBytes + c.requests * EntryBytes
  BY <1>4, <1>5 DEF NoOverflow, Reserved
<1>7. Total(c.slots) % Word = Total(c.slots)
  BY <1>3, <1>4 DEF NoOverflow
<1> QED BY <1>3, <1>5, <1>6, <1>7 DEF ManualSlots

(* The slots of an accepted configuration are those that are given and the *)
(* shares of the kinds that are left open.                                 *)
LEMMA SlotCounts ==
  ASSUME NEW c \in Configuration, Resolves(c),
         NEW auto, auto = PlanKinds \ c.explicit,
         NEW remaining, remaining = CapacitySlots(c) - ManualSlots(c)
  PROVE  /\ remaining \in Nat /\ CapacitySlots(c) \in Nat
         /\ Slots(c) \in [PlanKinds -> Nat]
         /\ Total([k \in PlanKinds |-> Share(remaining, auto, k)]) \in Nat
         /\ Total(Slots(c)) = Total(c.slots)
                             + Total([k \in PlanKinds |-> Share(remaining, auto, k)])
         /\ auto = {} => Total([k \in PlanKinds |-> Share(remaining, auto, k)]) = 0
<1>1. /\ c.slots \in [PlanKinds -> Nat] /\ c.memory \in Nat
      /\ \A k \in auto : c.slots[k] = 0
      /\ Reserved(c) \in Nat /\ ManualSlots(c) \in Nat
  BY PlanNumbers
<1>2. CapacitySlots(c) \in Nat
  <2>1. c.memory - Reserved(c) \in Nat
    BY <1>1 DEF Resolves
  <2> QED BY <2>1, DivisionBounds, BytesAssumption DEF CapacitySlots
<1>3. remaining \in Nat
  BY <1>1, <1>2 DEF Resolves
<1>4. \A k \in PlanKinds :
         Share(remaining, auto, k) \in Nat /\ (k \notin auto => Share(remaining, auto, k) = 0)
  BY <1>3, SharesAreNumbers
<1>5. /\ Slots(c) \in [PlanKinds -> Nat]
      /\ \A k \in PlanKinds : Slots(c)[k] = c.slots[k] + Share(remaining, auto, k)
  <2>1. Slots(c) = [k \in PlanKinds |->
                      IF k \in auto THEN Share(remaining, auto, k) ELSE c.slots[k]]
    BY DEF Slots
  <2>2. ASSUME NEW k \in PlanKinds
        PROVE  Slots(c)[k] = c.slots[k] + Share(remaining, auto, k) /\ Slots(c)[k] \in Nat
    <3>1. CASE k \in auto
      <4>1. c.slots[k] = 0 /\ Slots(c)[k] = Share(remaining, auto, k)
        BY <1>1, <2>1, <3>1
      <4>2. Share(remaining, auto, k) \in Nat
        BY <1>4
      <4> QED BY <4>1, <4>2
    <3>2. CASE k \notin auto
      BY <1>1, <1>4, <2>1, <3>2
    <3> QED BY <3>1, <3>2
  <2> QED BY <2>1, <2>2
<1>6. Total(Slots(c)) = Total(c.slots)
                        + Total([k \in PlanKinds |-> Share(remaining, auto, k)])
  BY <1>1, <1>4, <1>5 DEF Total, PlanKinds
<1>7. /\ Total([k \in PlanKinds |-> Share(remaining, auto, k)]) \in Nat
      /\ auto = {} => Total([k \in PlanKinds |-> Share(remaining, auto, k)]) = 0
  BY <1>4 DEF Total, PlanKinds
<1> QED BY <1>2, <1>3, <1>5, <1>6, <1>7

(* No given slot gets lost. *)
LEMMA TotalsAreNumbers ==
  ASSUME NEW c \in Configuration, Resolves(c)
  PROVE  /\ Total(Slots(c)) \in Nat /\ Total(c.slots) \in Nat
         /\ Total(c.slots) <= Total(Slots(c))
<1> DEFINE auto == PlanKinds \ c.explicit
           remaining == CapacitySlots(c) - ManualSlots(c)
           shares == Total([k \in PlanKinds |-> Share(remaining, auto, k)])
<1>1. shares \in Nat /\ Total(Slots(c)) = Total(c.slots) + shares
  BY SlotCounts
<1>2. Total(c.slots) \in Nat
  BY PlanNumbers
<1> HIDE DEF shares
<1> QED BY <1>1, <1>2

(* If nothing wraps, they are no more than fit, and as many as fit if any  *)
(* count is left open.                                                     *)
LEMMA SlotsInAll ==
  ASSUME NEW c \in Configuration, NoOverflow(c), Resolves(c)
  PROVE  /\ Slots(c) \in [PlanKinds -> Nat]
         /\ CapacitySlots(c) \in Nat
         /\ Total(Slots(c)) <= CapacitySlots(c)
         /\ c.explicit # PlanKinds => Total(Slots(c)) = CapacitySlots(c)
<1> DEFINE auto == PlanKinds \ c.explicit
           remaining == CapacitySlots(c) - ManualSlots(c)
           shares == Total([k \in PlanKinds |-> Share(remaining, auto, k)])
<1>1. /\ remaining \in Nat /\ CapacitySlots(c) \in Nat
      /\ Slots(c) \in [PlanKinds -> Nat]
      /\ Total(Slots(c)) = Total(c.slots) + shares
      /\ auto = {} => shares = 0
  BY SlotCounts
<1>2. ManualSlots(c) = Total(c.slots) /\ ManualSlots(c) \in Nat
  BY ReservedBytes, PlanNumbers
<1>3. auto # {} => shares = remaining
  BY <1>1, SplitIsExact
<1>4. c.explicit = PlanKinds <=> auto = {}
  BY PlanNumbers
<1>5. ManualSlots(c) <= CapacitySlots(c)
  BY DEF Resolves
<1> HIDE DEF auto, shares
<1> QED BY <1>1, <1>2, <1>3, <1>4, <1>5

(* More than all memory is needed when a sum has wrapped. *)
LEMMA WrappedNeverFits ==
  ASSUME NEW c \in Configuration, ~ NoOverflow(c), Resolves(c)
  PROVE  c.memory < HeaderBytes + RingBytes + c.requests * EntryBytes
                    + Total(Slots(c)) * SlotBytes
<1> DEFINE reserved == HeaderBytes + RingBytes + c.requests * EntryBytes
           total == Total(Slots(c))
<1>1. /\ total \in Nat /\ Total(c.slots) \in Nat /\ Total(c.slots) <= total
      /\ reserved \in Nat /\ c.memory \in Nat /\ c.memory < Word
  BY TotalsAreNumbers, PlanNumbers
<1>2. SlotBytes \in Nat \ {0} /\ Word \in Nat
  BY BytesAssumption
<1>3. total * SlotBytes \in Nat /\ total <= total * SlotBytes
  <2> HIDE DEF total
  <2>1. PICK d \in Nat : SlotBytes = 1 + d
    BY <1>2
  <2>2. total * SlotBytes = total + total * d /\ total * d \in Nat
    BY <1>1, <2>1
  <2> QED BY <1>1, <2>2
<1>4. Word <= Total(c.slots) \/ Word <= reserved
  BY <1>1, <1>2 DEF NoOverflow
<1> HIDE DEF reserved, total
<1>5. c.memory < reserved + total * SlotBytes
  BY <1>1, <1>2, <1>3, <1>4
<1> QED BY <1>5 DEF reserved, total

(* If nothing wraps, header, ring and slots fit into the memory, and if a  *)
(* count is left open no further slot would.                               *)
LEMMA UnwrappedFits ==
  ASSUME NEW c \in Configuration, NoOverflow(c), Resolves(c)
  PROVE  LET used == HeaderBytes + RingBytes + c.requests * EntryBytes
                     + Total(Slots(c)) * SlotBytes
         IN  /\ used <= c.memory
             /\ c.explicit # PlanKinds => c.memory < used + SlotBytes
<1> DEFINE total == Total(Slots(c))
           cap == CapacitySlots(c)
<1>1. /\ Reserved(c) = HeaderBytes + RingBytes + c.requests * EntryBytes
      /\ Reserved(c) \in Nat
  BY ReservedBytes, PlanNumbers
<1>2. c.memory \in Nat /\ SlotBytes \in Nat \ {0}
  BY BytesAssumption, PlanNumbers
<1>3. /\ cap \in Nat
      /\ cap * SlotBytes <= c.memory - Reserved(c)
      /\ c.memory - Reserved(c) < cap * SlotBytes + SlotBytes
  <2>1. c.memory - Reserved(c) \in Nat
    BY <1>1, <1>2 DEF Resolves
  <2> QED BY <1>2, <2>1, DivisionBounds DEF CapacitySlots
<1>4. total \in Nat /\ total <= cap /\ (c.explicit # PlanKinds => total = cap)
  BY SlotsInAll DEF Total, PlanKinds
<1>5. total * SlotBytes \in Nat /\ cap * SlotBytes \in Nat /\ total * SlotBytes <= cap * SlotBytes
  <2> HIDE DEF total, cap
  <2>1. PICK d \in Nat : cap = total + d
    BY <1>3, <1>4
  <2>2. cap * SlotBytes = total * SlotBytes + d * SlotBytes /\ d * SlotBytes \in Nat
    BY <1>2, <1>4, <2>1
  <2> QED BY <1>2, <1>3, <1>4, <2>2
<1> HIDE DEF total, cap
<1>6. /\ Reserved(c) + total * SlotBytes <= c.memory
      /\ c.explicit # PlanKinds => c.memory < Reserved(c) + total * SlotBytes + SlotBytes
  BY <1>1, <1>2, <1>3, <1>4, <1>5
<1> QED BY <1>1, <1>6 DEF total

(* Header, ring and slots of an accepted configuration fit into the memory *)
(* if and only if no sum of its sizes wraps, and if a count is left open   *)
(* no further slot would fit (PlanFits).                                   *)
THEOREM PlanIsExact ==
  ASSUME NEW c \in Configuration
  PROVE  PlanFits(c)
<1> SUFFICES ASSUME Resolves(c)
             PROVE  LET used == HeaderBytes + RingBytes + c.requests * EntryBytes
                                + Total(Slots(c)) * SlotBytes
                    IN  /\ used <= c.memory <=> NoOverflow(c)
                        /\ c.explicit # PlanKinds => c.memory < used + SlotBytes
  BY DEF PlanFits
<1> DEFINE used == HeaderBytes + RingBytes + c.requests * EntryBytes
                   + Total(Slots(c)) * SlotBytes
<1>1. CASE NoOverflow(c)
  BY <1>1, UnwrappedFits
<1>2. CASE ~ NoOverflow(c)
  <2>1. c.memory < used
    BY <1>2, WrappedNeverFits
  <2>2. /\ c.memory \in Nat /\ SlotBytes \in Nat
        /\ HeaderBytes + RingBytes + c.requests * EntryBytes \in Nat
    BY PlanNumbers, BytesAssumption
  <2>3. Total(Slots(c)) \in Nat
    BY TotalsAreNumbers
  <2>4. used \in Nat
    BY <2>2, <2>3
  <2> HIDE DEF used
  <2>5. ~ (used <= c.memory) /\ c.memory < used + SlotBytes
    BY <2>1, <2>2, <2>4
  <2> QED BY <1>2, <2>5 DEF used
<1> QED BY <1>1, <1>2

(* Slots of different kinds or indices do not overlap, and all end within  *)
(* the memory, unless a sum of the sizes wraps (SlotsApart).               *)
THEOREM SlotsDisjoint ==
  ASSUME NEW c \in Configuration
  PROVE  SlotsApart(c)
<1> SUFFICES ASSUME Resolves(c), NoOverflow(c),
                    NEW j \in PlanKinds, NEW k \in PlanKinds,
                    NEW i \in 0 .. Slots(c)[j] - 1, NEW l \in 0 .. Slots(c)[k] - 1
             PROVE  LET a == SlotOffset(Reserved(c), Slots(c), j, i)
                        b == SlotOffset(Reserved(c), Slots(c), k, l)
                    IN  /\ Reserved(c) <= a /\ a + SlotBytes <= c.memory
                        /\ <<j, i>> # <<k, l>> => a + SlotBytes <= b \/ b + SlotBytes <= a
  BY DEF SlotsApart
<1> DEFINE s == Slots(c)
           r == Reserved(c)
           first(kind) == CASE kind = "PRIME"  -> 0
                            [] kind = "CACHE"  -> s["PRIME"]
                            [] kind = "BACKUP" -> s["PRIME"] + s["CACHE"]
           pos(kind, n) == first(kind) + n
<1>1. /\ s \in [PlanKinds -> Nat] /\ r \in Nat /\ SlotBytes \in Nat \ {0}
      /\ c.memory \in Nat
  BY SlotsInAll, PlanNumbers, BytesAssumption
<1>2. Total(s) \in Nat /\ r + Total(s) * SlotBytes <= c.memory
  <2>1. Total(s) \in Nat
    BY <1>1 DEF Total, PlanKinds
  <2>2. r = HeaderBytes + RingBytes + c.requests * EntryBytes
    BY ReservedBytes
  <2>3. HeaderBytes + RingBytes + c.requests * EntryBytes + Total(s) * SlotBytes <= c.memory
    BY UnwrappedFits
  <2> QED BY <2>1, <2>2, <2>3
<1>3. /\ first(j) \in Nat /\ first(k) \in Nat /\ i \in Nat /\ l \in Nat
      /\ pos(j, i) + 1 <= Total(s) /\ pos(k, l) + 1 <= Total(s)
      /\ <<j, i>> # <<k, l>> => pos(j, i) + 1 <= pos(k, l) \/ pos(k, l) + 1 <= pos(j, i)
  <2> HIDE DEF s
  <2>1. i \in 0 .. s[j] - 1 /\ l \in 0 .. s[k] - 1
    BY DEF s
  <2> QED BY <1>1, <2>1 DEF Total, PlanKinds
<1>4. ASSUME NEW m \in Nat, NEW n \in Nat, m + 1 <= n
      PROVE  m * SlotBytes + SlotBytes <= n * SlotBytes
  <2>1. PICK d \in Nat : n = m + 1 + d
    BY <1>4
  <2>2. n * SlotBytes = m * SlotBytes + SlotBytes + d * SlotBytes /\ d * SlotBytes \in Nat
    BY <1>1, <2>1
  <2> QED BY <1>1, <2>2
<1>5. /\ SlotOffset(r, s, j, i) = r + pos(j, i) * SlotBytes
      /\ SlotOffset(r, s, k, l) = r + pos(k, l) * SlotBytes
  <2> HIDE DEF s, r
  <2>1. /\ SlotOffset(r, s, j, i) = r + SlotBytes * first(j) + i * SlotBytes
        /\ SlotOffset(r, s, k, l) = r + SlotBytes * first(k) + l * SlotBytes
    BY DEF SlotOffset, KindOffset
  <2>2. \A m, n \in Nat : r + SlotBytes * m + n * SlotBytes = r + (m + n) * SlotBytes
    BY <1>1
  <2> HIDE DEF first
  <2> QED BY <1>3, <2>1, <2>2
<1>6. /\ pos(j, i) \in Nat /\ pos(k, l) \in Nat
      /\ pos(j, i) * SlotBytes \in Nat /\ pos(k, l) * SlotBytes \in Nat
      /\ Total(s) * SlotBytes \in Nat
  <2> HIDE DEF first, s
  <2> QED BY <1>1, <1>2, <1>3
<1>7. /\ pos(j, i) * SlotBytes + SlotBytes <= Total(s) * SlotBytes
      /\ <<j, i>> # <<k, l>> =>
           \/ pos(j, i) * SlotBytes + SlotBytes <= pos(k, l) * SlotBytes
           \/ pos(k, l) * SlotBytes + SlotBytes <= pos(j, i) * SlotBytes
  BY <1>2, <1>3, <1>4, <1>6
<1> HIDE DEF pos
<1> QED BY <1>1, <1>2, <1>5, <1>6, <1>7
=============================================================================
