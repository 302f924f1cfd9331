---------------------------- MODULE EvictionProofs ----------------------------
(***************************************************************************)
(* Proofs about the eviction pass, for a cache region of every size: its   *)
(* types with any number of threads, and, with one thread and a threshold  *)
(* above zero, that a pass finds as many slots to clear as it looks for.   *)
(***************************************************************************)
EXTENDS Eviction, Integers, FiniteSetTheorems, TLAPS

(* Where the property holds: nobody else runs a pass, and an empty cache   *)
(* is below the threshold (td_config_load takes any number for it).        *)
OneEvictor     == \A e, f \in Evictors : e = f
ThresholdAbove == Threshold > 0

LEMMA SubsetsOfIndex ==
  ASSUME NEW S \in SUBSET Index
  PROVE  IsFiniteSet(S) /\ Cardinality(S) \in 0 .. Slots
<1>1. IsFiniteSet(Index) /\ Cardinality(Index) = Slots
  <2>1. IsFiniteSet(0 .. Slots - 1)
        /\ Cardinality(0 .. Slots - 1) = IF 0 > Slots - 1 THEN 0 ELSE Slots - 1 - 0 + 1
    BY SlotsAssumption, FS_Interval
  <2>. QED
    BY <2>1, SlotsAssumption DEF Index
<1>2. IsFiniteSet(S) /\ Cardinality(S) <= Cardinality(Index) /\ Cardinality(S) \in Nat
  BY <1>1, FS_Subset, FS_CardinalityType
<1>. QED
  BY <1>1, <1>2, SlotsAssumption

LEMMA UsedType == Used \in 0 .. Slots
  BY SubsetsOfIndex DEF Used

LEMMA OccupiedType == IsFiniteSet(Occupied) /\ Cardinality(Occupied) \in 0 .. Slots
  BY SubsetsOfIndex DEF Occupied

(* What is counted is there. *)
LEMMA UsedIsOccupied == Used <= Cardinality(Occupied)
<1>1. {i \in Index : state[i] = "valid"} \subseteq Occupied
  BY DEF Occupied
<1>. QED
  BY <1>1, OccupiedType, FS_Subset DEF Used

(* A pass clears a quarter, at least one. *)
LEMMA TargetOfType == TargetOf \in 1 .. Slots /\ (Used > 0 => TargetOf <= Used)
<1>1. PICK u \in Nat : u = Used /\ u <= Slots
  BY UsedType, SlotsAssumption
<1>2. u \div 4 \in Nat /\ u \div 4 <= u
  BY <1>1
<1>3. TargetOf = IF u \div 4 = 0 THEN 1 ELSE u \div 4
  BY <1>1 DEF TargetOf
<1>. QED
  BY <1>1, <1>2, <1>3, SlotsAssumption

(* An empty cache needs no pass, when the threshold is above zero. *)
LEMMA NeededNotEmpty ==
  ASSUME ThresholdAbove, Needed
  PROVE  Used > 0
<1>1. PICK u \in Nat : u = Used
  BY UsedType, SlotsAssumption
<1>2. Threshold \in Nat \ {0} /\ Slots \in Nat \ {0}
  BY ThresholdAssumption, SlotsAssumption DEF ThresholdAbove
<1>3. PICK limit \in Nat : limit = Threshold * Slots /\ limit > 0
  BY <1>2
<1>4. u * 100 >= limit
  BY <1>1, <1>3 DEF Needed
<1>. QED
  BY <1>1, <1>3, <1>4

-----------------------------------------------------------------------------
(* Type correctness *)

LEMMA InitType == Init => TypeOK
  BY SlotsAssumption, ThresholdAssumption DEF Init, TypeOK, Index

LEMMA StepType == TypeOK /\ [Next]_vars => TypeOK'
<1> SUFFICES ASSUME TypeOK, [Next]_vars PROVE TypeOK'
  OBVIOUS
<1> USE DEF TypeOK
<1>1. ASSUME NEW e \in Evictors, Count(e) PROVE TypeOK'
  <2>1. Used \in 0 .. Slots /\ TargetOf \in 0 .. Slots /\ 0 \in 0 .. Slots
    BY UsedType, TargetOfType, SlotsAssumption
  <2>2. target' \in [Evictors -> 0 .. Slots]
    BY <1>1, <2>1 DEF Count
  <2>. QED
    BY <1>1, <2>1, <2>2 DEF Count, Goto
<1>2. ASSUME NEW e \in Evictors, Lock(e) PROVE TypeOK'
  BY <1>2 DEF Lock, Goto
<1>3. ASSUME NEW e \in Evictors, Sweep(e) PROVE TypeOK'
  <2>1. cursor' \in Index
    BY <1>3, SlotsAssumption DEF Sweep, Index
  <2>2. target' \in [Evictors -> 0 .. Slots]
    BY <1>3, SlotsAssumption DEF Sweep
  <2>. QED
    BY <1>3, <2>1, <2>2 DEF Sweep
<1>4. ASSUME NEW e \in Evictors, Unlock(e) PROVE TypeOK'
  BY <1>4 DEF Unlock, Goto
<1>5. ASSUME NEW e \in Evictors, Recount(e) PROVE TypeOK'
  BY <1>5, UsedType DEF Recount, Goto
<1>6. ASSUME NEW i \in Index, FillBody(i) \/ FillGuard(i) \/ Fill(i) PROVE TypeOK'
  <2>1. fills' \in 0 .. MaxFills
    BY <1>6, ThresholdAssumption DEF FillBody, FillGuard, Fill
  <2>. QED
    BY <1>6, <2>1 DEF FillBody, FillGuard, Fill
<1>7. CASE UNCHANGED vars
  BY <1>7 DEF vars, Index
<1>. QED
  BY <1>1, <1>2, <1>3, <1>4, <1>5, <1>6, <1>7 DEF Next, Pass

(* Every variable keeps its type: the cursor stays in the region, and no   *)
(* pass looks for more slots than there are, whoever else runs one.        *)
THEOREM TypeCorrect == Spec => []TypeOK
  BY InitType, StepType, PTL DEF Spec

-----------------------------------------------------------------------------
(* Exclusion: the thread that sweeps has the lock. *)
SweepsLocked == \A e \in Evictors : pc[e] = "sweep" => lock = e

LEMMA StepLocked == TypeOK /\ SweepsLocked /\ [Next]_vars => SweepsLocked'
<1> SUFFICES ASSUME TypeOK, SweepsLocked, [Next]_vars PROVE SweepsLocked'
  OBVIOUS
<1> USE DEF TypeOK, SweepsLocked
<1>1. ASSUME NEW e \in Evictors, Pass(e) PROVE SweepsLocked'
  <2>1. CASE Count(e) \/ Recount(e) \/ Sweep(e)
    BY <2>1 DEF Count, Recount, Sweep, Goto
  <2>2. CASE Lock(e)
    BY <2>2, EvictorsAssumption DEF Lock, Goto
  <2>3. CASE Unlock(e)
    BY <2>3 DEF Unlock, Goto
  <2>. QED
    BY <1>1, <2>1, <2>2, <2>3 DEF Pass
<1>2. CASE (\E i \in Index : FillBody(i) \/ FillGuard(i) \/ Fill(i)) \/ UNCHANGED vars
  BY <1>2 DEF FillBody, FillGuard, Fill, vars
<1>. QED
  BY <1>1, <1>2 DEF Next

(* However many threads run passes, no two of them sweep at a time, and    *)
(* nobody fills a slot under the sweep (fills wait for the lock).          *)
THEOREM OneSweeps == Spec => []SweepsLocked
<1>1. Init => SweepsLocked
  BY DEF Init, SweepsLocked
<1>. QED
  BY <1>1, StepLocked, TypeCorrect, PTL DEF Spec

-----------------------------------------------------------------------------
(* Steps that clear nothing leave what is occupied. *)
LEMMA OccupiedGrows ==
  ASSUME Occupied \subseteq Occupied'
  PROVE  Cardinality(Occupied) <= Cardinality(Occupied')
<1>1. IsFiniteSet(Occupied')
  BY SubsetsOfIndex DEF Occupied, Index
<1>. QED
  BY <1>1, FS_Subset

LEMMA StepTarget ==
  ASSUME OneEvictor, ThresholdAbove, TypeOK, TargetReachable, [Next]_vars
  PROVE  TargetReachable'
<1>1. ASSUME NEW e \in Evictors, Count(e) PROVE TargetReachable'
  <2>1. Cardinality(Occupied) = Cardinality(Occupied') /\ Cardinality(Occupied) \in Nat
    BY <1>1, OccupiedType, SlotsAssumption DEF Count, Occupied
  <2>2. Needed => TargetOf <= Used
    BY NeededNotEmpty, TargetOfType
  <2>3. target'[e] <= Cardinality(Occupied)
    <3>1. CASE Needed
      <4>1. target'[e] = TargetOf
        BY <1>1, <3>1 DEF Count, TypeOK
      <4>2. TargetOf \in Nat /\ Used \in Nat
        BY TargetOfType, UsedType, SlotsAssumption
      <4>. QED
        BY <2>1, <2>2, <3>1, <4>1, <4>2, UsedIsOccupied
    <3>2. CASE ~ Needed
      BY <1>1, <2>1, <3>2 DEF Count, TypeOK
    <3>. QED
      BY <3>1, <3>2
  <2>. QED
    BY <2>1, <2>3 DEF OneEvictor, TargetReachable
<1>2. ASSUME NEW e \in Evictors, Sweep(e) PROVE TargetReachable'
  <2>1. CASE state[cursor] # "empty"
    <3>1. cursor \in Index /\ state' = [state EXCEPT ![cursor] = "empty"]
          /\ target'[e] = target[e] - 1 /\ target[e] \in Nat
      BY <1>2, <2>1, SlotsAssumption DEF Sweep, TypeOK
    <3>2. Occupied' = Occupied \ {cursor} /\ cursor \in Occupied
      BY <2>1, <3>1 DEF Occupied, TypeOK
    <3>3. Cardinality(Occupied') = Cardinality(Occupied) - 1
      BY <3>2, OccupiedType, FS_RemoveElement
    <3>4. target[e] <= Cardinality(Occupied) /\ Cardinality(Occupied) \in Nat
      BY OccupiedType, SlotsAssumption DEF TargetReachable
    <3>5. target'[e] <= Cardinality(Occupied')
      BY <3>1, <3>3, <3>4
    <3>. QED
      BY <3>5 DEF OneEvictor, TargetReachable
  <2>2. CASE state[cursor] = "empty"
    BY <1>2, <2>2 DEF Sweep, TargetReachable, Occupied
  <2>. QED
    BY <2>1, <2>2
<1>3. ASSUME NEW e \in Evictors, Lock(e) \/ Unlock(e) \/ Recount(e) PROVE TargetReachable'
  BY <1>3 DEF Lock, Unlock, Recount, TargetReachable, Occupied
<1>4. ASSUME NEW i \in Index, FillBody(i) \/ FillGuard(i) \/ Fill(i) PROVE TargetReachable'
  <2>1. target' = target /\ Occupied \subseteq Occupied'
    BY <1>4 DEF FillBody, FillGuard, Fill, Occupied, TypeOK
  <2>2. Cardinality(Occupied) <= Cardinality(Occupied')
    BY <2>1, OccupiedGrows
  <2>3. Cardinality(Occupied) \in Nat /\ Cardinality(Occupied') \in Nat
    <3>1. Occupied' \in SUBSET Index
      BY DEF Occupied, Index
    <3>. QED
      BY <3>1, SubsetsOfIndex, OccupiedType, SlotsAssumption
  <2>4. \A e \in Evictors : target[e] \in Nat
    BY SlotsAssumption DEF TypeOK
  <2>. QED
    BY <2>1, <2>2, <2>3, <2>4 DEF TargetReachable
<1>5. CASE UNCHANGED vars
  BY <1>5 DEF vars, TargetReachable, Occupied
<1>. QED
  BY <1>1, <1>2, <1>3, <1>4, <1>5 DEF Next, Pass

(* With one thread the pass finds what it decided to clear, although the   *)
(* slots were counted before it took the lock again: its loop under the    *)
(* lock ends.                                                              *)
THEOREM PassFindsItsTarget ==
  ASSUME OneEvictor, ThresholdAbove
  PROVE  Spec => []TargetReachable
<1>1. Init => TargetReachable
  BY OccupiedType, SlotsAssumption DEF Init, TargetReachable
<1>2. TypeOK /\ TargetReachable /\ [Next]_vars => TargetReachable'
  BY StepTarget
<1>. QED
  BY <1>1, <1>2, TypeCorrect, PTL DEF Spec
=============================================================================
