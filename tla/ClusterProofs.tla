---------------------------- MODULE ClusterProofs ----------------------------
(***************************************************************************)
(* Proofs about the key-value protocol, for every number of nodes, slots,  *)
(* copies, keys and compute nodes, every hash and tie breaker, every       *)
(* workload, and any number of faults and evictions.                       *)
(***************************************************************************)
EXTENDS Cluster, TLAPS, WellFoundedInduction

-----------------------------------------------------------------------------
(* The inductive invariant                                                 *)

(* The slot of the primary of k with index i, and the i-th one that a probe *)
(* for k looks at *)
Home(k, i)    == <<Node(k, 0), "PRIME", i>>
PrimeAt(k, i) == Home(k, IndexOf("PRIME", k, i))

(* A probe for k that looks at l meets no empty slot on its way. *)
Walked(k, j) ==
  \A i \in 0 .. Count["PRIME"] - 1 : i < j => ~ IsEmpty(slot[PrimeAt(k, i)])

Placed(k, l) ==
  \E j \in 0 .. Count["PRIME"] - 1 : l = PrimeAt(k, j) /\ Walked(k, j)

(* Proposal prop was committed to a PRIME slot. *)
Committed(prop) == \E e \in installed : e.prop = prop

(* What a probe for k of region kind holds true of its candidate *)
Chosen(pr, kind, k) ==
  /\ pr.valid => pr.at \in 0 .. Count[kind] - 1
  /\ pr.found =>
       pr.valid /\ Whole(pr.slot) /\ pr.slot.key = k /\ pr.slot.flag # "none"

(* ... and, when the region is the PRIME one, of its slot as it is now *)
ChosenPrime(pr, k) ==
  /\ Chosen(pr, "PRIME", k)
  /\ pr.valid =>
       /\ Placed(k, Home(k, pr.at))
       /\ pr.slot.guard <= slot[Home(k, pr.at)].guard
       /\ pr.found \/ pr.slot.flag # "valid"
       /\ ~ Direct =>
            pr.slot = ZeroSlot \/ [at |-> Home(k, pr.at), prop |-> pr.slot] \in installed

(* Where a call is, and what it is about *)
ControlOK(l) ==
  /\ l.pc \in {"vote", "repair"} => l.turn \in Backups
  /\ l.pc \in {"readPrime", "readCache"} => l.op.op = "read"
  /\ l.pc \in {"writePrime", "vote", "evaluate", "commit", "repair"} => l.op.op # "read"
  /\ l.pc = "refresh" => l.prop.key = l.op.key
  /\ l.half => Committing(l)

ProbeOK(l) ==
  l.pc \in Probing =>
    /\ l.probe.examined <= Count[KindOf(l)]
    /\ Chosen(l.probe, KindOf(l), l.op.key)
    /\ KindOf(l) = "PRIME" =>
         /\ ChosenPrime(l.probe, l.op.key)
         /\ ~ l.probe.over => Walked(l.op.key, l.probe.examined)

PrimeOK(l) == ChosenPrime(l.prime, l.op.key)

(* The proposal of a write was computed from the candidate. *)
ProposalOK(l) ==
  l.pc \in {"vote", "evaluate", "commit", "repair"} =>
    /\ l.prime.valid
    /\ l.prop = Proposal(l.op, l.prime.slot.guard)
    /\ l.op.op = "update" => l.prime.found /\ Present(l.prime.slot, l.op.key)

(* What is written to the cache, and what is acknowledged, is committed. *)
CommittedOK(l) ==
  l.pc \in {"repair", "refresh"} /\ (l.op.op # "read" \/ ~ Direct) => Committed(l.prop)

AnswerOK(l) ==
  l.answer.kind = "ok" /\ l.op.op # "read" => Committed(l.answer.slot)

CallInv(l) ==
  /\ ControlOK(l) /\ ProbeOK(l) /\ PrimeOK(l) /\ ProposalOK(l)
  /\ CommittedOK(l) /\ AnswerOK(l)

(* What makes it right to commit prop at location "to" when the guard there *)
(* is epoch compare *)
Justified(to, compare, prop) ==
  /\ to \in Locations
  /\ prop.key \in Keys
  /\ to[2] = "PRIME" =>
       /\ prop.flag # "none"
       /\ prop.guard = compare + 1 /\ prop.visible = compare + 1
       /\ compare <= slot[to].guard
       /\ Placed(prop.key, to)
       /\ ~ Direct => \A e \in installed :
            e.at = to /\ e.prop.visible = compare /\ e.prop.flag = "valid"
            => e.prop.key = prop.key
  /\ to[2] = "CACHE" /\ ~ Direct => Committed(prop)
  /\ to[2] = "BACKUP" =>
       \E i \in 0 .. Count["PRIME"] - 1 :
         prop.visible <= slot[Home(prop.key, i)].guard + 1

StrayInv ==
  /\ stray # {} => ~ Direct
  /\ \A r \in stray : Justified(r.to, r.compare, r.prop)

(* An epoch of a PRIME slot is given to one proposal, at its commit. *)
InstalledInv ==
  /\ \A e \in installed :
       /\ e.at \in PrimeSlots
       /\ e.prop.guard = e.prop.visible
       /\ e.prop.key \in Keys /\ e.prop.flag # "none"
       /\ 0 < e.prop.visible /\ e.prop.visible <= slot[e.at].guard
  /\ OneWinner

(* A call that wrote a body holds the lock, and nobody else has touched the *)
(* slot since.                                                             *)
LockInv ==
  /\ \A c \in Clients :
       cn[c].half =>
         slot[CommitTo(cn[c])] = [cn[c].prop EXCEPT !.guard = CompareTo(cn[c])]
  /\ \A c, d \in Clients :
       cn[c].half /\ cn[d].half /\ NodeOf(cn[c]) = NodeOf(cn[d]) => c = d

(* The same for a request whose caller has given up *)
StrayLockInv ==
  /\ \A r \in stray : r.half => slot[r.to] = [r.prop EXCEPT !.guard = r.compare]
  /\ \A r, q \in stray : r.half /\ q.half /\ r.to[1] = q.to[1] => r = q
  /\ \A r \in stray : \A c \in Clients :
       r.half /\ cn[c].half => NodeOf(cn[c]) # r.to[1]

(* Between commits a PRIME slot is whole, and what it holds was committed. *)
PrimeInv ==
  /\ \A l \in PrimeSlots :
       \/ Whole(slot[l])
       \/ \E c \in Clients : cn[c].half /\ CommitTo(cn[c]) = l
       \/ \E r \in stray : r.half /\ r.to = l
  /\ \A l \in PrimeSlots :
       Whole(slot[l]) => slot[l] = ZeroSlot \/ [at |-> l, prop |-> slot[l]] \in installed
  /\ \A e \in installed :
       slot[e.at] = e.prop \/ slot[e.at].visible > e.prop.visible

CacheInv ==
  \A l \in CacheSlots :
    slot[l].flag # "none" =>
      \E e \in installed : slot[l] = [e.prop EXCEPT !.guard = slot[l].guard]

(* A slot without a key is an empty one. *)
KeyedInv ==
  \A l \in Locations :
    slot[l].key \in Keys \/ (slot[l].flag = "none" /\ slot[l].visible = 0)

(* The body in a PRIME slot can be reached by the probe for its key. *)
PlacedInv ==
  \A l \in PrimeSlots : slot[l].flag # "none" => Placed(slot[l].key, l)

RingInv == ~ Direct => LockInv /\ StrayLockInv /\ PrimeInv /\ CacheInv

Inv ==
  /\ \A c \in Clients : CallInv(cn[c])
  /\ StrayInv
  /\ InstalledInv
  /\ KeyedInv
  /\ PlacedInv
  /\ BackupAtMostOneAhead
  /\ RingInv

IInv == TypeOK /\ Inv

-----------------------------------------------------------------------------
(* The deployment *)

(* The numbers of a deployment *)
LEMMA ConfigType ==
  ASSUME config \in Configs
  PROVE  /\ NodeCount \in Nat \ {0}
         /\ Count \in [Kinds -> Nat \ {0}]
         /\ BackupCount \in Nat
         /\ Direct => MaxFaults = 0
         /\ Direct \in BOOLEAN /\ CacheOn \in BOOLEAN
         /\ Workload \in [Clients -> Seq(SUBSET Ops)]
         /\ MaxFaults \in Nat /\ MaxEvictions \in Nat
<1>1. config \in Config /\ (config.direct => config.maxFaults = 0)
  BY ConfigsAssumption
<1>2. config.nodes \in Nat \ {0} /\ config.replication \in Nat \ {0}
  BY <1>1 DEF Config
<1>3. BackupCount \in Nat
  BY <1>2 DEF BackupCount, NodeCount, Replication
<1>. QED
  BY <1>1, <1>2, <1>3
     DEF Config, NodeCount, Count, Direct, CacheOn, MaxFaults, MaxEvictions, Workload

(* A key lives on a node. *)
LEMMA NodeType ==
  ASSUME config \in Configs, NEW k \in Keys, NEW n \in Nat
  PROVE  Node(k, n) \in Nodes
<1>1. NodeCount \in Nat /\ NodeCount > 0 /\ Hash[k] + n \in Nat
  BY ConfigType, HashAssumption
<1>2. \A a, b \in Nat : b > 0 => a % b \in 0 .. b - 1
  BY SMT
<1>. QED
  BY <1>1, <1>2 DEF Node, Nodes, NodeCount

(* A probe looks at slots of the region. *)
LEMMA IndexType ==
  ASSUME config \in Configs, NEW kind \in Kinds, NEW k \in Keys, NEW i \in Nat
  PROVE  IndexOf(kind, k, i) \in 0 .. Count[kind] - 1
<1>1. Count[kind] \in Nat /\ Count[kind] > 0 /\ Hash[k] + i \in Nat
  BY ConfigType, HashAssumption
<1>2. \A a, b \in Nat : b > 0 => a % b \in 0 .. b - 1
  BY SMT
<1>. QED
  BY <1>1, <1>2 DEF IndexOf

(* A location is a node, a region kind and an index. *)
LEMMA LocationType ==
  ASSUME NEW l
  PROVE  l \in Locations <=>
           \E n \in Nodes, kind \in Kinds : \E i \in 0 .. Count[kind] - 1 :
             l = <<n, kind, i>>
<1> DEFINE Region(n, kind) == {<<n, kind, i>> : i \in 0 .. Count[kind] - 1}
<1>1. \A R : R \in {Region(n, kind) : n \in Nodes, kind \in Kinds} <=>
               \E n \in Nodes, kind \in Kinds : R = Region(n, kind)
  BY SMT
<1>2. Locations = UNION {Region(n, kind) : n \in Nodes, kind \in Kinds}
  BY DEF Locations
<1>3. \A n, kind : l \in Region(n, kind) <=>
                     \E i \in 0 .. Count[kind] - 1 : l = <<n, kind, i>>
  OBVIOUS
<1> HIDE DEF Region
<1>. QED
  BY <1>1, <1>2, <1>3, SMT

(* What only depends on the deployment stays. *)
LEMMA ConfigStays ==
  ASSUME config' = config
  PROVE  /\ Nodes' = Nodes /\ Count' = Count /\ Locations' = Locations
         /\ Backups' = Backups /\ Direct' = Direct /\ Call' = Call
         /\ Request' = Request /\ BackupCount' = BackupCount
  BY DEF Nodes, Count, Locations, NodeCount, Replication, Backups, BackupCount,
         Direct, Call, Request

(* A set of numbers has a least element. *)
LEMMA Least ==
  ASSUME NEW T, T \subseteq Nat, T # {}
  PROVE  \E x \in T : \A y \in T : x <= y
<1>1. PICK x \in T : \A y \in T : ~ (<<y, x>> \in OpToRel(<, Nat))
  BY NatLessThanWellFounded, WFMin, Zenon
<1>2. ASSUME NEW y \in T PROVE ~ (y < x)
  BY <1>1 DEF OpToRel
<1>. QED
  BY <1>2

-----------------------------------------------------------------------------
(* The parts of a call *)

(* The values that calls start from *)
LEMMA BasicTypes ==
  /\ ZeroSlot \in Slot /\ NewProbe \in Probe /\ NoVote \in Vote
  /\ NoOp \in Ops /\ NoAnswer \in Answer
<1>1. ZeroSlot \in Slot
  BY DEF ZeroSlot, Slot
<1>2. Ops # {}
  <2>1. PICK k \in Keys : TRUE
    BY KeysAssumption
  <2>2. [op |-> "read", key |-> k, value |-> NoValue] \in Ops
    BY DEF Ops
  <2>. QED
    BY <2>2
<1>. QED
  BY <1>1, <1>2 DEF NewProbe, Probe, NoVote, Vote, NoOp, NoAnswer, Answer

(* A call that has returned *)
LEMMA IdleType ==
  ASSUME config \in Configs, NEW calls \in Nat, NEW op \in Ops, NEW answer \in Answer
  PROVE  Idle(calls, op, answer) \in Call
  BY BasicTypes, ConfigType DEF Idle, Call, Backups

(* ... with an answer *)
LEMMA ReturnType ==
  ASSUME config \in Configs, NEW l \in Call, NEW s \in Slot,
         NEW kind \in {"none", "ok", "value", "notFound", "error", "lost"}
  PROVE  Return(l, kind, s) \in Call
<1>1. [kind |-> kind, slot |-> s] \in Answer
  BY DEF Answer
<1>. QED
  BY <1>1, IdleType DEF Return, Call

(* A call that begins its next loop *)
LEMMA GoType ==
  ASSUME NEW l \in Call, NEW pc \in Probing \cup {"idle", "evaluate", "commit", "down"}
  PROVE  Go(l, pc) \in Call
  BY BasicTypes DEF Go, Call

(* Proposals *)
LEMMA ProposalType ==
  ASSUME NEW o \in Ops, NEW e \in Nat
  PROVE  /\ Proposal(o, e) \in Slot
         /\ Proposal(o, e).guard = e + 1 /\ Proposal(o, e).visible = e + 1
         /\ Proposal(o, e).key = o.key /\ Proposal(o, e).flag # "none"
<1>1. Tie[o.key][o.value] \in Nat
  BY TieAssumption DEF Ops
<1>. QED
  BY <1>1 DEF Proposal, Slot, Ops

(* A probe that has read one more slot *)
LEMMA ExaminedType ==
  ASSUME NEW pr \in Probe, NEW s \in Slot, NEW i \in Nat, NEW k \in Keys
  PROVE  Examined(pr, s, i, k) \in Probe
<1>1. Take(pr, s, i) \in Probe /\ Candidate(pr, s, i) \in Probe
  BY DEF Take, Candidate, Probe
<1>2. Seen(pr, s, i, k) \in Probe
  BY <1>1 DEF Seen, Probe
<1>. QED
  BY <1>2 DEF Examined, Probe

-----------------------------------------------------------------------------
(* What no step undoes                                                     *)

(* No step takes an epoch of a PRIME slot back, empties such a slot, or     *)
(* forgets a commit; a new commit has a new epoch.                         *)
Grows ==
  /\ config' = config
  /\ slot' \in [Locations -> Slot]
  /\ \A l \in PrimeSlots :
       slot[l].guard <= slot'[l].guard /\ (IsEmpty(slot'[l]) => IsEmpty(slot[l]))
  /\ installed \subseteq installed'
  /\ \A e \in installed' \ installed : slot[e.at].guard < e.prop.visible

(* The slots of the primary of a key *)
LEMMA HomeType ==
  ASSUME TypeOK, NEW k \in Keys
  PROVE  /\ \A i \in 0 .. Count["PRIME"] - 1 : Home(k, i) \in PrimeSlots
         /\ \A i \in Nat : PrimeAt(k, i) \in PrimeSlots
<1>1. ASSUME NEW i \in 0 .. Count["PRIME"] - 1 PROVE Home(k, i) \in PrimeSlots
  <2>1. Node(k, 0) \in Nodes
    BY NodeType DEF TypeOK
  <2>2. Home(k, i) \in Locations
    BY <2>1, LocationType DEF Home, Kinds
  <2>. QED
    BY <2>2 DEF TypeOK, PrimeSlots, Home
<1>2. ASSUME NEW i \in Nat PROVE IndexOf("PRIME", k, i) \in 0 .. Count["PRIME"] - 1
  BY IndexType DEF TypeOK, Kinds
<1>. QED
  BY <1>1, <1>2 DEF PrimeAt

(* An unsuccessful part of a probe stays unsuccessful. *)
LEMMA WalkedStays ==
  ASSUME TypeOK, Grows, NEW k \in Keys, NEW j, Walked(k, j)
  PROVE  Walked(k, j)'
<1>1. \A i \in 0 .. Count["PRIME"] - 1 : PrimeAt(k, i) \in PrimeSlots
  BY HomeType, ConfigType DEF TypeOK, Kinds
<1>2. Count' = Count /\ \A i : PrimeAt(k, i)' = PrimeAt(k, i)
  BY DEF Grows, Count, PrimeAt, Home, Node, NodeCount, IndexOf
<1>. QED
  BY <1>1, <1>2 DEF Walked, Grows

(* A slot stays within reach of the probe for a key. *)
LEMMA PlacedStays ==
  ASSUME TypeOK, Grows, NEW k \in Keys, NEW l, Placed(k, l)
  PROVE  Placed(k, l)'
<1>1. Count' = Count /\ \A i : PrimeAt(k, i)' = PrimeAt(k, i)
  BY DEF Grows, Count, PrimeAt, Home, Node, NodeCount, IndexOf
<1>. QED
  BY <1>1, WalkedStays DEF Placed

(* A commit stays on record. *)
LEMMA CommittedStays ==
  ASSUME Grows, NEW prop, Committed(prop)
  PROVE  Committed(prop)'
  BY DEF Grows, Committed

(* A candidate stays what it was. *)
LEMMA ChosenStays ==
  ASSUME TypeOK, Grows, NEW pr \in Probe, NEW k \in Keys, ChosenPrime(pr, k)
  PROVE  ChosenPrime(pr, k)'
<1>1. Count' = Count /\ Direct' = Direct /\ \A i : Home(k, i)' = Home(k, i)
  BY DEF Grows, Count, Home, Node, NodeCount, Direct
<1>2. Chosen(pr, "PRIME", k)'
  BY <1>1 DEF ChosenPrime, Chosen
<1>3. SUFFICES ASSUME pr.valid
               PROVE  /\ Placed(k, Home(k, pr.at))'
                      /\ pr.slot.guard <= slot'[Home(k, pr.at)].guard
                      /\ pr.found \/ pr.slot.flag # "valid"
                      /\ ~ Direct =>
                           \/ pr.slot = ZeroSlot
                           \/ [at |-> Home(k, pr.at), prop |-> pr.slot] \in installed'
  BY <1>1, <1>2, Zenon DEF ChosenPrime
<1>4. Home(k, pr.at) \in PrimeSlots
  BY <1>3, HomeType DEF ChosenPrime, Chosen
<1>5. Placed(k, Home(k, pr.at))'
  BY <1>1, <1>3, PlacedStays DEF ChosenPrime
<1>6. slot[Home(k, pr.at)].guard <= slot'[Home(k, pr.at)].guard
  BY <1>4 DEF Grows
<1>7. /\ slot[Home(k, pr.at)] \in Slot /\ slot'[Home(k, pr.at)] \in Slot
      /\ pr.slot \in Slot
  BY <1>4 DEF TypeOK, Grows, PrimeSlots, Probe
<1>. QED
  BY <1>3, <1>5, <1>6, <1>7 DEF ChosenPrime, Grows, Slot

(* What justifies a commit stays. *)
LEMMA JustifiedStays ==
  ASSUME TypeOK, Grows, NEW to, NEW compare \in Nat, NEW prop \in Slot,
         InstalledInv, Justified(to, compare, prop)
  PROVE  Justified(to, compare, prop)'
<1>1. /\ Count' = Count /\ Direct' = Direct /\ \A k, i : Home(k, i)' = Home(k, i)
      /\ Locations' = Locations
  BY ConfigStays DEF Grows, Count, Home, Node, NodeCount, Direct
<1>2. to \in Locations /\ prop.key \in Keys
  BY DEF Justified
<1>3. ASSUME to[2] = "PRIME"
      PROVE  /\ compare <= slot'[to].guard
             /\ Placed(prop.key, to)'
             /\ ~ Direct => \A e \in installed' :
                  e.at = to /\ e.prop.visible = compare /\ e.prop.flag = "valid"
                  => e.prop.key = prop.key
  <2>1. to \in PrimeSlots
    BY <1>2, <1>3 DEF PrimeSlots, TypeOK
  <2>2. slot[to] \in Slot /\ slot'[to] \in Slot /\ slot[to].guard <= slot'[to].guard
    BY <1>2, <2>1 DEF TypeOK, Grows
  <2>3. compare <= slot[to].guard
    BY <1>3 DEF Justified
  <2>4. compare <= slot'[to].guard
    BY <2>2, <2>3 DEF Slot
  <2>5. Placed(prop.key, to)'
    BY <1>2, <1>3, PlacedStays DEF Justified
  <2>6. ASSUME ~ Direct, NEW e \in installed',
               e.at = to, e.prop.visible = compare, e.prop.flag = "valid"
        PROVE  e.prop.key = prop.key
    <3>1. CASE e \in installed
      BY <1>3, <2>6, <3>1 DEF Justified
    <3>2. CASE e \notin installed
      BY <2>2, <2>3, <2>6, <3>2 DEF Grows, Slot
    <3>. QED
      BY <3>1, <3>2
  <2>. QED
    BY <2>4, <2>5, <2>6
<1>4. ASSUME to[2] = "BACKUP"
      PROVE  \E i \in 0 .. Count["PRIME"] - 1 :
               prop.visible <= slot'[Home(prop.key, i)].guard + 1
  <2>1. PICK i \in 0 .. Count["PRIME"] - 1 :
          prop.visible <= slot[Home(prop.key, i)].guard + 1
    BY <1>4 DEF Justified
  <2>2. Home(prop.key, i) \in PrimeSlots
    BY <1>2, HomeType
  <2>3. /\ slot[Home(prop.key, i)] \in Slot /\ slot'[Home(prop.key, i)] \in Slot
        /\ slot[Home(prop.key, i)].guard <= slot'[Home(prop.key, i)].guard
    BY <2>2 DEF TypeOK, Grows, PrimeSlots
  <2>4. prop.visible <= slot'[Home(prop.key, i)].guard + 1
    BY <2>1, <2>3 DEF Slot
  <2>. QED
    BY <2>4
<1>5. ASSUME to[2] = "CACHE", ~ Direct PROVE Committed(prop)'
  BY <1>5, CommittedStays DEF Justified
<1>. QED
  BY <1>1, <1>3, <1>4, <1>5 DEF Justified

(* What holds of a call keeps holding while others take steps. *)
LEMMA CallStays ==
  ASSUME TypeOK, Grows, NEW l \in Call, CallInv(l)
  PROVE  CallInv(l)'
<1>1. /\ Count' = Count /\ Direct' = Direct /\ Backups' = Backups
      /\ KindOf(l)' = KindOf(l) /\ Over(l)' = Over(l) /\ Committing(l)' = Committing(l)
  BY ConfigStays DEF Grows, Count, KindOf, Over, Committing
<1>2. l.op.key \in Keys /\ l.probe \in Probe /\ l.prime \in Probe
  BY DEF Call, Ops
<1>3. ControlOK(l)'
  BY <1>1 DEF CallInv, ControlOK
<1>4. ProbeOK(l)'
  <2>1. SUFFICES ASSUME l.pc \in Probing PROVE ProbeOK(l)'
    BY DEF ProbeOK
  <2>2. l.probe.examined <= Count'[KindOf(l)'] /\ Chosen(l.probe, KindOf(l), l.op.key)'
    BY <1>1, <2>1 DEF CallInv, ProbeOK, Chosen
  <2>3. ASSUME KindOf(l) = "PRIME"
        PROVE  /\ ChosenPrime(l.probe, l.op.key)'
               /\ ~ l.probe.over => Walked(l.op.key, l.probe.examined)'
    BY <1>2, <2>1, <2>3, ChosenStays, WalkedStays DEF CallInv, ProbeOK
  <2>. QED
    BY <1>1, <2>2, <2>3 DEF ProbeOK
<1>5. PrimeOK(l)'
  BY <1>2, ChosenStays DEF CallInv, PrimeOK
<1>6. ProposalOK(l)'
  BY DEF CallInv, ProposalOK
<1>7. CommittedOK(l)'
  BY <1>1, CommittedStays DEF CallInv, CommittedOK
<1>8. AnswerOK(l)'
  BY CommittedStays DEF CallInv, AnswerOK
<1>. QED
  BY <1>3, <1>4, <1>5, <1>6, <1>7, <1>8 DEF CallInv

-----------------------------------------------------------------------------
(* Calls that go on                                                        *)

(* A call that has returned; what it acknowledges is committed. *)
LEMMA IdleInv ==
  ASSUME config \in Configs, config' = config,
         NEW calls \in Nat, NEW op \in Ops, NEW answer \in Answer,
         answer.kind = "ok" /\ op.op # "read" => Committed(answer.slot)',
         NEW l, l = Idle(calls, op, answer)
  PROVE  l \in Call /\ CallInv(l)' /\ ~ l.half
<1>1. l \in Call
  BY IdleType
<1>2. /\ l.pc = "idle" /\ l.half = FALSE /\ l.prime = NewProbe
      /\ l.op = op /\ l.answer = answer
  BY DEF Idle
<1>3. NewProbe.valid = FALSE /\ NewProbe.found = FALSE
  BY DEF NewProbe
<1>4. ControlOK(l)' /\ ProbeOK(l)' /\ ProposalOK(l)'
  BY <1>2 DEF ControlOK, ProbeOK, Probing, ProposalOK
<1>5. PrimeOK(l)'
  BY <1>2, <1>3 DEF PrimeOK, ChosenPrime, Chosen
<1>6. CommittedOK(l)' /\ AnswerOK(l)'
  BY <1>2 DEF CommittedOK, AnswerOK
<1>. QED
  BY <1>1, <1>2, <1>4, <1>5, <1>6 DEF CallInv

(* A call that begins its next loop *)
LEMMA GoInv ==
  ASSUME TypeOK, Grows, NEW l \in Call, NEW pc \in Probing \cup {"evaluate", "commit", "down"},
         PrimeOK(l), AnswerOK(l)', NEW m, m = Go(l, pc),
         ControlOK(m), ProposalOK(m), CommittedOK(m)'
  PROVE  m \in Call /\ CallInv(m)' /\ ~ m.half
<1>1. m \in Call
  BY GoType
<1>2. /\ m.pc = pc /\ m.half = FALSE /\ m.probe = NewProbe
      /\ m.op = l.op /\ m.prime = l.prime /\ m.answer = l.answer
  BY DEF Go, Call
<1>3. NewProbe.valid = FALSE /\ NewProbe.found = FALSE /\ NewProbe.examined = 0
  BY DEF NewProbe
<1>4. PrimeOK(m)' /\ AnswerOK(m)'
  <2>1. l.prime \in Probe /\ l.op.key \in Keys
    BY DEF Call, Ops
  <2>. QED
    BY <1>2, <2>1, ChosenStays DEF PrimeOK, AnswerOK
<1>5. ProposalOK(m)'
  BY DEF ProposalOK
<1>6. ControlOK(m)'
  BY <1>2, ConfigStays DEF ControlOK, Grows
<1>7. ProbeOK(m)'
  <2>1. SUFFICES ASSUME pc \in Probing PROVE ProbeOK(m)'
    BY <1>2 DEF ProbeOK
  <2>2. KindOf(m) \in Kinds /\ KindOf(m)' = KindOf(m)
    BY <1>2, <2>1 DEF KindOf, Kinds, Probing
  <2>3. Count'[KindOf(m)'] \in Nat
    BY <2>2, ConfigStays, ConfigType DEF TypeOK, Grows
  <2>. QED
    BY <1>2, <1>3, <2>2, <2>3 DEF ProbeOK, Chosen, ChosenPrime, Walked
<1>. QED
  BY <1>1, <1>2, <1>4, <1>5, <1>6, <1>7 DEF CallInv

(* A call that returns *)
LEMMA ReturnInv ==
  ASSUME TypeOK, Grows, NEW l \in Call, NEW s \in Slot,
         NEW kind \in {"none", "ok", "value", "notFound", "error", "lost"},
         kind = "ok" /\ l.op.op # "read" => Committed(s)',
         NEW m, m = Return(l, kind, s)
  PROVE  m \in Call /\ CallInv(m)' /\ ~ m.half
<1> DEFINE answer == [kind |-> kind, slot |-> s]
<1>1. answer \in Answer /\ answer.kind = kind /\ answer.slot = s
  BY DEF Answer
<1>2. l.calls \in Nat /\ l.op \in Ops
  BY DEF Call
<1>. QED
  BY <1>1, <1>2, IdleInv DEF TypeOK, Grows, Return

(* ... with an error *)
LEMMA FailInv ==
  ASSUME TypeOK, Grows, NEW l \in Call, NEW m, m = Fail(l)
  PROVE  m \in Call /\ CallInv(m)' /\ ~ m.half
<1>1. ZeroSlot \in Slot /\ l.prop \in Slot
  BY BasicTypes DEF Call
<1>. QED
  BY <1>1, ReturnInv DEF Fail

(* ... with its result *)
LEMMA FinishInv ==
  ASSUME TypeOK, Grows, NEW l \in Call, l.op.op # "read" => Committed(l.prop)',
         NEW m, m = Finish(l)
  PROVE  m \in Call /\ CallInv(m)' /\ ~ m.half
<1>1. l.prop \in Slot
  BY DEF Call
<1>. QED
  BY <1>1, ReturnInv DEF Finish

(* A call that fills the cache if there is one *)
LEMMA RefreshInv ==
  ASSUME TypeOK, Grows, NEW l \in Call, PrimeOK(l), AnswerOK(l)',
         l.prop.key = l.op.key, l.op.op # "read" \/ ~ Direct => Committed(l.prop)',
         NEW m, m = Refresh(l)
  PROVE  m \in Call /\ CallInv(m)' /\ ~ m.half
<1>1. ASSUME m = Go(l, "refresh") PROVE m \in Call /\ CallInv(m)' /\ ~ m.half
  <2>1. /\ m.pc = "refresh" /\ m.half = FALSE /\ m.op = l.op /\ m.prop = l.prop
    BY <1>1 DEF Go, Call
  <2>2. ControlOK(m) /\ ProposalOK(m)
    BY <2>1 DEF ControlOK, ProposalOK
  <2>3. CommittedOK(m)'
    BY <2>1, ConfigStays DEF CommittedOK, Grows
  <2>. QED
    BY <1>1, <2>2, <2>3, GoInv DEF Probing
<1>. QED
  BY <1>1, FinishInv DEF Refresh

(* A read that answers from the PRIME region *)
LEMMA FromPrimeInv ==
  ASSUME TypeOK, Grows, NEW l \in Call, PrimeOK(l), AnswerOK(l)', l.op.op = "read",
         NEW m, m = FromPrime(l)
  PROVE  m \in Call /\ CallInv(m)' /\ ~ m.half
<1>1. CASE l.prime.found /\ Present(l.prime.slot, l.op.key)
  <2>1. PICK n : n = [l EXCEPT !.prop = l.prime.slot]
    OBVIOUS
  <2>2. n \in Call /\ n.op = l.op /\ n.prime = l.prime /\ n.answer = l.answer
        /\ n.prop = l.prime.slot
    BY <2>1 DEF Call, Probe
  <2>3. PrimeOK(n) /\ AnswerOK(n)'
    BY <2>2 DEF PrimeOK, AnswerOK
  <2>4. ASSUME ~ Direct PROVE Committed(n.prop)'
    <3>1. l.prime.valid /\ l.prime.slot # ZeroSlot
      BY <1>1 DEF PrimeOK, ChosenPrime, Chosen, Present, ZeroSlot
    <3>2. [at |-> Home(l.op.key, l.prime.at), prop |-> l.prime.slot] \in installed
      BY <3>1, <2>4 DEF PrimeOK, ChosenPrime
    <3>3. Committed(l.prime.slot)
      BY <3>2 DEF Committed
    <3>. QED
      BY <2>2, <3>3, CommittedStays
  <2>5. m = Refresh(n) /\ n.prop.key = n.op.key
    BY <1>1, <2>1, <2>2 DEF FromPrime, Present
  <2>. QED
    BY <2>2, <2>3, <2>4, <2>5, RefreshInv
<1>2. CASE ~ (l.prime.found /\ Present(l.prime.slot, l.op.key))
  BY <1>2, BasicTypes, ReturnInv DEF FromPrime
<1>. QED
  BY <1>1, <1>2

(* A write that repairs its backups *)
LEMMA RepairInv ==
  ASSUME TypeOK, Grows, NEW l \in Call, NEW b \in Nat, PrimeOK(l), AnswerOK(l)',
         l.op.op # "read", l.prime.valid, l.prop = Proposal(l.op, l.prime.slot.guard),
         l.op.op = "update" => l.prime.found /\ Present(l.prime.slot, l.op.key),
         Committed(l.prop)',
         NEW m, m = RepairFrom(l, b)
  PROVE  m \in Call /\ CallInv(m)' /\ ~ m.half
<1> DEFINE lost == {i \in Backups : i >= b /\ ~ l.votes[i].ok}
           next == CHOOSE i \in lost : \A j \in lost : i <= j
<1>1. CASE lost = {}
  <2>1. m = Refresh(l)
    BY <1>1 DEF RepairFrom
  <2>2. l.prop.key = l.op.key
    BY DEF Proposal
  <2>. QED
    BY <2>1, <2>2, RefreshInv
<1>2. CASE lost # {}
  <2>1. next \in Backups
    <3>1. lost \subseteq Nat
      BY ConfigType DEF Backups, TypeOK
    <3>2. \E i \in lost : \A j \in lost : i <= j
      BY <1>2, <3>1, Least
    <3>. QED
      BY <3>2
  <2>2. PICK n : n = [l EXCEPT !.turn = next]
    OBVIOUS
  <2>3. m = Go(n, "repair")
    BY <1>2, <2>2 DEF RepairFrom
  <2>4. next \in 0 .. BackupCount + 1
    BY <2>1, ConfigType DEF Backups, TypeOK
  <2> HIDE DEF lost, next
  <2>5. /\ n \in Call /\ n.op = l.op /\ n.prime = l.prime /\ n.answer = l.answer
        /\ n.prop = l.prop /\ n.turn = next
    BY <2>2, <2>4 DEF Call
  <2>6. /\ m.pc = "repair" /\ m.half = FALSE /\ m.op = l.op /\ m.prop = l.prop
        /\ m.prime = l.prime /\ m.turn = next
    BY <2>3, <2>5 DEF Go, Call
  <2>7. ControlOK(m) /\ ProposalOK(m)
    BY <2>1, <2>6 DEF ControlOK, ProposalOK
  <2>8. CommittedOK(m)'
    BY <2>6 DEF CommittedOK
  <2>9. PrimeOK(n) /\ AnswerOK(n)'
    BY <2>5 DEF PrimeOK, AnswerOK
  <2>. QED
    BY <2>3, <2>5, <2>7, <2>8, <2>9, GoInv DEF Probing
<1>. QED
  BY <1>1, <1>2

-----------------------------------------------------------------------------
(* Commits are justified                                                   *)

(* What a call may commit, and where *)
LEMMA CommitJustified ==
  ASSUME TypeOK, InstalledInv, NEW l \in Call, CallInv(l), Committing(l)
  PROVE  /\ Justified(CommitTo(l), CompareTo(l), l.prop)
         /\ CompareTo(l) \in Nat
         /\ CommitTo(l)[1] = NodeOf(l) /\ CommitTo(l)[2] = KindOf(l)
<1> DEFINE k == l.op.key
<1>1. /\ k \in Keys /\ l.op \in Ops /\ l.turn \in Nat /\ l.prop \in Slot
      /\ l.probe \in Probe /\ l.prime \in Probe
      /\ l.probe.slot \in Slot /\ l.prime.slot \in Slot /\ l.prime.slot.guard \in Nat
  BY ConfigType, SMTT(30) DEF TypeOK, Call, Ops, Probe, Slot
<1>2. CompareTo(l) \in Nat
  BY <1>1 DEF CompareTo, Target, Slot
<1>3. CommitTo(l)[1] = NodeOf(l) /\ CommitTo(l)[2] = KindOf(l)
  BY DEF CommitTo
<1>4. NodeOf(l) \in Nodes
  BY <1>1, NodeType DEF NodeOf, TypeOK
<1>5. ASSUME l.pc \in {"vote", "evaluate", "commit", "repair"}
      PROVE  /\ l.prop.guard = l.prime.slot.guard + 1
             /\ l.prop.visible = l.prime.slot.guard + 1
             /\ l.prop.key = k /\ l.prop.flag # "none" /\ l.prime.valid
  BY <1>1, <1>5, ProposalType DEF CallInv, ProposalOK
<1>6. CASE l.pc = "commit"
  <2>1. KindOf(l) = "PRIME" /\ CommitTo(l) = Home(k, l.prime.at)
        /\ CompareTo(l) = l.prime.slot.guard
    BY <1>6 DEF KindOf, CommitTo, NodeOf, Target, Home, CompareTo
  <2>2. /\ Placed(k, Home(k, l.prime.at))
        /\ l.prime.slot.guard <= slot[Home(k, l.prime.at)].guard
        /\ Home(k, l.prime.at) \in PrimeSlots
    BY <1>1, <1>5, <1>6, HomeType DEF CallInv, PrimeOK, ChosenPrime, Chosen
  <2>3. ASSUME ~ Direct, NEW e \in installed, e.at = Home(k, l.prime.at),
               e.prop.visible = l.prime.slot.guard, e.prop.flag = "valid"
        PROVE  e.prop.key = k
    <3>1. e.prop.visible > 0
      BY DEF InstalledInv
    <3>2. l.prime.slot # ZeroSlot
      BY <2>3, <3>1 DEF ZeroSlot
    <3>3. [at |-> Home(k, l.prime.at), prop |-> l.prime.slot] \in installed
      BY <1>5, <1>6, <2>3, <3>2 DEF CallInv, PrimeOK, ChosenPrime
    <3>4. l.prime.slot.guard = l.prime.slot.visible
      BY <3>3 DEF InstalledInv
    <3>5. e.prop = l.prime.slot
      BY <2>3, <3>3, <3>4 DEF InstalledInv, OneWinner
    <3>. QED
      BY <1>5, <1>6, <2>3, <3>5 DEF CallInv, PrimeOK, ChosenPrime, Chosen
  <2>4. CommitTo(l) \in Locations /\ CommitTo(l)[2] = "PRIME"
    BY <1>3, <2>1, <2>2 DEF PrimeSlots, TypeOK
  <2>5. Justified(CommitTo(l), CompareTo(l), l.prop)
    BY <1>1, <1>5, <1>6, <2>1, <2>2, <2>3, <2>4 DEF Justified
  <2>. QED
    BY <1>2, <1>3, <2>5
<1>7. CASE l.pc # "commit"
  <2>1. /\ l.pc \in {"vote", "repair", "refresh"} /\ l.probe.valid
        /\ Target(l) = l.probe /\ l.pc \in Probing
        /\ KindOf(l) \in {"BACKUP", "CACHE"}
        /\ KindOf(l) = "BACKUP" <=> l.pc \in {"vote", "repair"}
    BY <1>7 DEF Committing, Target, Probing, KindOf
  <2>2. l.probe.at \in 0 .. Count[KindOf(l)] - 1
    BY <2>1 DEF CallInv, ProbeOK, Chosen
  <2>3. CommitTo(l) \in Locations
    BY <1>4, <2>1, <2>2, LocationType DEF CommitTo, Kinds
  <2>4. l.prop.key \in Keys
    BY <1>1, <1>5, <2>1 DEF CallInv, ControlOK
  <2>5. ASSUME KindOf(l) = "CACHE", ~ Direct PROVE Committed(l.prop)
    BY <2>1, <2>5 DEF CallInv, CommittedOK
  <2>6. ASSUME KindOf(l) = "BACKUP"
        PROVE  \E i \in 0 .. Count["PRIME"] - 1 :
                 l.prop.visible <= slot[Home(l.prop.key, i)].guard + 1
    <3>1. /\ l.prime.at \in 0 .. Count["PRIME"] - 1
          /\ l.prime.slot.guard <= slot[Home(k, l.prime.at)].guard
          /\ Home(k, l.prime.at) \in PrimeSlots
      BY <1>1, <1>5, <2>1, <2>6, HomeType DEF CallInv, PrimeOK, ChosenPrime, Chosen
    <3>2. slot[Home(k, l.prime.at)].guard \in Nat
      BY <3>1 DEF TypeOK, PrimeSlots, Slot
    <3>3. l.prop.visible <= slot[Home(k, l.prime.at)].guard + 1
      BY <1>1, <1>5, <2>1, <2>6, <3>1, <3>2
    <3>. QED
      BY <1>5, <2>1, <2>6, <3>1, <3>3
  <2>7. Justified(CommitTo(l), CompareTo(l), l.prop)
    BY <1>3, <2>1, <2>3, <2>4, <2>5, <2>6 DEF Justified
  <2>. QED
    BY <1>2, <1>3, <2>7
<1>. QED
  BY <1>6, <1>7

-----------------------------------------------------------------------------
(* Writes to slots                                                         *)

(* The step of a commit of prop at location "to", which expects epoch       *)
(* compare there: the body, or the guard, or both at once *)
Write(to, compare, prop) ==
  /\ config' = config
  /\ \/ /\ slot' = [slot EXCEPT ![to] = WithBody(@, prop)]
        /\ installed' = installed
     \/ /\ slot[to].guard = compare
        /\ \/ slot' = [slot EXCEPT ![to].guard = prop.visible]
           \/ slot' = [slot EXCEPT ![to] = prop]
        /\ installed' = IF to[2] = "PRIME"
                        THEN installed \cup {[at |-> to, prop |-> prop]}
                        ELSE installed

(* What a slot is after it was written to *)
LEMMA WriteSlot ==
  ASSUME TypeOK, NEW to, NEW compare \in Nat, NEW prop \in Slot,
         Justified(to, compare, prop), Write(to, compare, prop)
  PROVE  /\ to \in Locations /\ slot' \in [Locations -> Slot]
         /\ \A l \in Locations \ {to} : slot'[l] = slot[l]
         /\ slot'[to].guard = slot[to].guard \/ slot[to].guard = compare
         /\ \/ /\ slot'[to].key = prop.key /\ slot'[to].visible = prop.visible
               /\ slot'[to].flag = prop.flag
            \/ /\ slot'[to].key = slot[to].key /\ slot'[to].visible = slot[to].visible
               /\ slot'[to].flag = slot[to].flag
         /\ to[2] = "PRIME" /\ slot'[to].guard # slot[to].guard =>
              slot'[to].guard = prop.visible
<1>1. to \in Locations
  BY DEF Justified
<1>2. slot \in [Locations -> Slot] /\ slot[to] \in Slot
  BY <1>1 DEF TypeOK
<1>3. WithBody(slot[to], prop) \in Slot /\ [slot[to] EXCEPT !.guard = prop.visible] \in Slot
  BY <1>2 DEF Slot, WithBody
<1>4. CASE slot' = [slot EXCEPT ![to] = WithBody(@, prop)]
  <2>1. slot' = [slot EXCEPT ![to] = WithBody(slot[to], prop)]
    BY <1>1, <1>2, <1>4
  <2>2. WithBody(slot[to], prop) = [prop EXCEPT !.guard = slot[to].guard]
    BY DEF WithBody
  <2>. QED
    BY <1>1, <1>2, <1>3, <2>1, <2>2 DEF Slot
<1>5. CASE slot[to].guard = compare /\ slot' = [slot EXCEPT ![to].guard = prop.visible]
  <2>1. slot' = [slot EXCEPT ![to] = [slot[to] EXCEPT !.guard = prop.visible]]
    BY <1>1, <1>2, <1>5
  <2>. QED
    BY <1>1, <1>2, <1>3, <1>5, <2>1 DEF Slot
<1>6. CASE slot[to].guard = compare /\ slot' = [slot EXCEPT ![to] = prop]
  <2>1. to[2] = "PRIME" => prop.guard = prop.visible
    BY DEF Justified
  <2>. QED
    BY <1>1, <1>2, <1>6, <2>1 DEF Slot
<1>. QED
  BY <1>4, <1>5, <1>6 DEF Write

(* A write takes nothing back. *)
LEMMA WriteGrows ==
  ASSUME TypeOK, NEW to, NEW compare \in Nat, NEW prop \in Slot,
         Justified(to, compare, prop), Write(to, compare, prop)
  PROVE  Grows
<1>0. \A l \in Locations \ {to} : slot'[l] = slot[l]
  BY WriteSlot
<1>1. /\ to \in Locations /\ slot' \in [Locations -> Slot] /\ slot \in [Locations -> Slot]
  BY WriteSlot DEF TypeOK
<1>2. ASSUME NEW l \in PrimeSlots
      PROVE  slot[l].guard <= slot'[l].guard /\ (IsEmpty(slot'[l]) => IsEmpty(slot[l]))
  <2>1. l \in Locations /\ slot[l] \in Slot /\ slot'[l] \in Slot /\ l[2] = "PRIME"
    BY <1>1 DEF PrimeSlots
  <2>2. CASE l # to
    <3>1. slot'[l] = slot[l]
      BY <1>0, <2>1, <2>2
    <3>. QED
      BY <2>1, <3>1 DEF Slot
  <2>3. CASE l = to
    <3>1. prop.visible = compare + 1 /\ prop.flag # "none"
      BY <2>1, <2>3 DEF Justified
    <3>2. slot[l].guard = slot'[l].guard \/ (slot[l].guard = compare /\ slot'[l].guard = prop.visible)
      BY <2>1, <2>3, WriteSlot
    <3>. QED
      BY <2>1, <2>3, <3>1, <3>2, WriteSlot DEF Slot, IsEmpty
  <2>. QED
    BY <2>2, <2>3
<1>3. ASSUME NEW e \in installed' \ installed PROVE slot[e.at].guard < e.prop.visible
  <2>1. to[2] = "PRIME" /\ e = [at |-> to, prop |-> prop] /\ slot[to].guard = compare
    BY <1>3 DEF Write
  <2>. QED
    BY <2>1 DEF Justified
<1>4. installed \subseteq installed'
  BY DEF Write
<1>. QED
  BY <1>1, <1>2, <1>3, <1>4 DEF Grows, Write

(* Slots keep their invariants when one of them is written to. *)
LEMMA WriteInv ==
  ASSUME TypeOK, InstalledInv, KeyedInv, PlacedInv, BackupAtMostOneAhead,
         NEW to, NEW compare \in Nat, NEW prop \in Slot,
         Justified(to, compare, prop), Write(to, compare, prop)
  PROVE  InstalledInv' /\ KeyedInv' /\ PlacedInv' /\ BackupAtMostOneAhead'
<1>0. /\ \A l \in Locations \ {to} : slot'[l] = slot[l]
      /\ \/ /\ slot'[to].key = prop.key /\ slot'[to].visible = prop.visible
            /\ slot'[to].flag = prop.flag
         \/ /\ slot'[to].key = slot[to].key /\ slot'[to].visible = slot[to].visible
            /\ slot'[to].flag = slot[to].flag
  BY WriteSlot
<1>1. Grows /\ Justified(to, compare, prop)'
  BY WriteGrows, JustifiedStays
<1>2. /\ Locations' = Locations /\ DOMAIN slot = Locations /\ DOMAIN slot' = Locations
      /\ slot \in [Locations -> Slot] /\ slot' \in [Locations -> Slot]
      /\ to \in Locations /\ prop.key \in Keys
      /\ PrimeSlots' = PrimeSlots /\ BackupSlots' = BackupSlots
      /\ Count' = Count /\ \A k, i : Home(k, i)' = Home(k, i)
  BY <1>1, ConfigStays
     DEF Grows, TypeOK, Justified, PrimeSlots, BackupSlots, Count, Home, Node, NodeCount
<1>3. InstalledInv'
  <2>1. \A e \in installed :
           /\ e.at \in PrimeSlots /\ e.prop.guard = e.prop.visible
           /\ e.prop.key \in Keys /\ e.prop.flag # "none"
           /\ 0 < e.prop.visible /\ e.prop.visible <= slot'[e.at].guard
    <3>1. SUFFICES ASSUME NEW e \in installed
                   PROVE  e.prop.visible <= slot'[e.at].guard
      BY DEF InstalledInv
    <3>2. e.at \in PrimeSlots /\ e.prop.visible <= slot[e.at].guard
      BY DEF InstalledInv
    <3>3. slot[e.at] \in Slot /\ slot'[e.at] \in Slot /\ e.prop \in Slot
      BY <1>2, <3>2 DEF PrimeSlots, TypeOK
    <3>4. slot[e.at].guard <= slot'[e.at].guard
      BY <1>1, <3>2 DEF Grows
    <3>. QED
      BY <3>2, <3>3, <3>4 DEF Slot
  <2>2. CASE installed' = installed
    BY <1>2, <2>1, <2>2 DEF InstalledInv, OneWinner
  <2>3. CASE installed' # installed
    <3> DEFINE n == [at |-> to, prop |-> prop]
    <3>1. to[2] = "PRIME" /\ installed' = installed \cup {n} /\ slot[to].guard = compare
      BY <2>3 DEF Write
    <3>2. /\ to \in PrimeSlots /\ prop.guard = prop.visible /\ prop.flag # "none"
          /\ prop.visible = compare + 1
      BY <1>2, <3>1 DEF Justified, PrimeSlots
    <3>3. slot'[to].guard = prop.visible
      BY <1>2, <2>3, <3>1, <3>2 DEF Write, Slot
    <3>4. \A e \in installed : e.at = to => e.prop.visible < prop.visible
      BY <1>2, <3>1, <3>2 DEF InstalledInv, Slot, TypeOK
    <3>5. \A e \in installed' :
            /\ e.at \in PrimeSlots /\ e.prop.guard = e.prop.visible
            /\ e.prop.key \in Keys /\ e.prop.flag # "none"
            /\ 0 < e.prop.visible /\ e.prop.visible <= slot'[e.at].guard
      BY <1>2, <2>1, <3>1, <3>2, <3>3
    <3>6. \A d, e \in installed' :
            d.at = e.at /\ d.prop.visible = e.prop.visible => d.prop = e.prop
      <4>1. SUFFICES ASSUME NEW d \in installed', NEW e \in installed', d.at = e.at,
                            d.prop.visible = e.prop.visible
                     PROVE  d.prop = e.prop
        OBVIOUS
      <4>2. CASE d \in installed /\ e \in installed
        BY <4>1, <4>2 DEF InstalledInv, OneWinner
      <4>3. CASE d = n /\ e \in installed
        BY <3>2, <3>4, <4>1, <4>3
      <4>4. CASE e = n /\ d \in installed
        BY <3>2, <3>4, <4>1, <4>4
      <4>5. CASE d = n /\ e = n
        BY <4>5
      <4>. QED
        BY <3>1, <4>2, <4>3, <4>4, <4>5
    <3>. QED
      BY <1>2, <3>5, <3>6 DEF InstalledInv, OneWinner
  <2>. QED
    BY <2>2, <2>3
<1>4. KeyedInv'
  BY <1>2, WriteSlot DEF KeyedInv
<1>5. PlacedInv'
  <2>1. SUFFICES ASSUME NEW l \in PrimeSlots, NEW k, k = slot'[l].key, slot'[l].flag # "none"
                 PROVE  Placed(k, l)'
    BY <1>2 DEF PlacedInv
  <2>2. l \in Locations /\ l[2] = "PRIME"
    BY <1>2 DEF PrimeSlots
  <2>3. ASSUME slot'[l].flag = slot[l].flag, slot'[l].key = slot[l].key
        PROVE  Placed(k, l)'
    <3>1. k \in Keys /\ Placed(k, l)
      BY <2>1, <2>2, <2>3 DEF PlacedInv, KeyedInv
    <3>. QED
      BY <1>1, <3>1, PlacedStays
  <2>4. ASSUME l = to, slot'[l].key = prop.key PROVE Placed(k, l)'
    BY <1>1, <2>1, <2>2, <2>4 DEF Justified
  <2>. QED
    BY <1>0, <2>2, <2>3, <2>4
<1>6. BackupAtMostOneAhead'
  <2>1. SUFFICES ASSUME NEW l \in BackupSlots, slot'[l].visible > 0
                 PROVE  \E i \in 0 .. Count["PRIME"] - 1 :
                          slot'[l].visible <= slot'[Home(slot'[l].key, i)].guard + 1
    BY <1>2 DEF BackupAtMostOneAhead, Home
  <2>2. l \in Locations /\ l[2] = "BACKUP"
    BY <1>2 DEF BackupSlots
  <2>3. ASSUME slot'[l].visible = slot[l].visible, slot'[l].key = slot[l].key
        PROVE  \E i \in 0 .. Count["PRIME"] - 1 :
                          slot'[l].visible <= slot'[Home(slot'[l].key, i)].guard + 1
    <3>1. PICK i \in 0 .. Count["PRIME"] - 1 :
                          slot[l].visible <= slot[Home(slot[l].key, i)].guard + 1
      BY <2>1, <2>3 DEF BackupAtMostOneAhead, Home
    <3>2. slot[l].key \in Keys /\ slot[l].visible \in Nat
      BY <1>2, <2>1, <2>2, <2>3 DEF KeyedInv, Slot
    <3>3. Home(slot[l].key, i) \in PrimeSlots
      BY <3>2, HomeType
    <3>4. /\ slot[Home(slot[l].key, i)] \in Slot /\ slot'[Home(slot[l].key, i)] \in Slot
          /\ slot[Home(slot[l].key, i)].guard <= slot'[Home(slot[l].key, i)].guard
      BY <1>1, <1>2, <3>3 DEF Grows, PrimeSlots
    <3>5. slot[l].visible <= slot'[Home(slot[l].key, i)].guard + 1
      BY <3>1, <3>2, <3>4 DEF Slot
    <3>. QED
      BY <2>3, <3>5
  <2>4. ASSUME l = to, slot'[l].visible = prop.visible, slot'[l].key = prop.key
        PROVE  \E i \in 0 .. Count["PRIME"] - 1 :
                          slot'[l].visible <= slot'[Home(slot'[l].key, i)].guard + 1
    BY <1>1, <1>2, <2>2, <2>4 DEF Justified
  <2>. QED
    BY <1>0, <2>2, <2>3, <2>4
<1>. QED
  BY <1>3, <1>4, <1>5, <1>6

-----------------------------------------------------------------------------
(* The steps of a call                                                     *)

(* What one more slot does to a probe: it keeps its candidate or takes the  *)
(* slot, and goes on only if the slot is not empty.                        *)
LEMMA SeenCases ==
  ASSUME NEW pr \in Probe, NEW s \in Slot, NEW i \in Nat, NEW k \in Keys,
         NEW n, n = Examined(pr, s, i, k)
  PROVE  /\ n.examined = pr.examined + 1
         /\ ~ n.over => ~ IsEmpty(s)
         /\ \/ n.valid = pr.valid /\ n.at = pr.at /\ n.slot = pr.slot /\ n.found = pr.found
            \/ /\ n.valid /\ n.at = i /\ n.slot = s /\ Whole(s)
               /\ \/ n.found = pr.found /\ s.flag # "valid" /\ ~ pr.valid
                  \/ n.found /\ s.flag # "none" /\ s.key = k
<1>1. /\ Take(pr, s, i) \in Probe /\ Take(pr, s, i).valid /\ Take(pr, s, i).at = i
      /\ Take(pr, s, i).slot = s /\ Take(pr, s, i).found = pr.found
      /\ Take(pr, s, i).examined = pr.examined
  BY DEF Take, Probe
<1>2. PICK t \in Probe : t = Take(pr, s, i)
  BY <1>1
<1>3. n = [Seen(pr, s, i, k) EXCEPT !.examined = @ + 1]
  BY DEF Examined
<1>4. CASE ~ Whole(s)
  <2>1. Seen(pr, s, i, k) = pr /\ ~ IsEmpty(s)
    BY <1>4 DEF Seen, Whole, IsEmpty
  <2>. QED
    BY <1>3, <2>1 DEF Probe
<1>5. CASE Whole(s) /\ s.flag # "none" /\ s.key = k
  <2>1. Seen(pr, s, i, k) = [t EXCEPT !.found = TRUE, !.over = TRUE]
    BY <1>2, <1>5 DEF Seen, Whole, IsEmpty
  <2>2. n = [t EXCEPT !.found = TRUE, !.over = TRUE, !.examined = @ + 1]
    BY <1>3, <2>1
  <2>3. /\ n.over /\ n.found /\ n.valid = t.valid /\ n.at = t.at /\ n.slot = t.slot
        /\ n.examined = t.examined + 1
    BY <2>2 DEF Probe
  <2>. QED
    BY <1>1, <1>2, <1>5, <2>3
<1>6. CASE Whole(s) /\ s.flag = "tombstone" /\ s.key # k
  <2>1. Seen(pr, s, i, k) = (IF pr.valid THEN pr ELSE t) /\ ~ IsEmpty(s)
    BY <1>2, <1>6 DEF Seen, Whole, IsEmpty, Candidate
  <2>. QED
    BY <1>1, <1>2, <1>3, <1>6, <2>1 DEF Probe
<1>7. CASE IsEmpty(s)
  <2>1. /\ Seen(pr, s, i, k) = [IF pr.valid THEN pr ELSE t EXCEPT !.over = TRUE]
        /\ Whole(s) /\ s.flag = "none"
    BY <1>2, <1>7 DEF Seen, Whole, IsEmpty, Candidate
  <2>. QED
    BY <1>1, <1>2, <1>3, <1>7, <2>1 DEF Probe
<1>8. CASE /\ Whole(s) /\ ~ (s.flag # "none" /\ s.key = k)
           /\ ~ (s.flag = "tombstone" /\ s.key # k) /\ ~ IsEmpty(s)
  <2>1. Seen(pr, s, i, k) = pr
    BY <1>8 DEF Seen
  <2>. QED
    BY <1>3, <1>8, <2>1 DEF Probe
<1>. QED
  BY <1>4, <1>5, <1>6, <1>7, <1>8

(* A read of a slot *)
LEMMA ReadSlotInv ==
  ASSUME TypeOK, Grows, RingInv, NEW l \in Call, CallInv(l), l.pc \in Probing, ~ Over(l),
         NEW m, m = [l EXCEPT !.probe =
                       Examined(@, slot[<<NodeOf(l), KindOf(l), ReadIndex(l)>>],
                                ReadIndex(l), l.op.key)]
  PROVE  m \in Call /\ CallInv(m)' /\ ~ m.half
<1> DEFINE k  == l.op.key
           i  == ReadIndex(l)
           at == <<NodeOf(l), KindOf(l), i>>
           s  == slot[at]
           n  == Examined(l.probe, s, i, k)
<1>1. k \in Keys /\ l.probe \in Probe /\ l.turn \in Nat /\ KindOf(l) \in Kinds
  BY ConfigType DEF Call, Ops, TypeOK, Probing, KindOf, Kinds
<1>2. /\ Count[KindOf(l)] \in Nat /\ l.probe.examined \in 0 .. Count[KindOf(l)] - 1
      /\ ~ l.probe.over
  <2>1. Count[KindOf(l)] \in Nat /\ l.probe.examined \in Nat
    BY <1>1, ConfigType DEF TypeOK, Probe
  <2>2. l.probe.examined <= Count[KindOf(l)]
    BY DEF CallInv, ProbeOK
  <2>. QED
    BY <2>1, <2>2 DEF Over
<1>3. i \in 0 .. Count[KindOf(l)] - 1
  BY <1>1, <1>2, IndexType DEF ReadIndex, TypeOK
<1>4. at \in Locations /\ s \in Slot /\ i \in Nat
  <2>1. NodeOf(l) \in Nodes
    BY <1>1, NodeType DEF NodeOf, TypeOK
  <2>2. at \in Locations
    BY <1>1, <1>3, <2>1, LocationType
  <2>. QED
    BY <1>2, <1>3, <2>2 DEF TypeOK
<1>5. PICK new \in Probe : new = n
  BY <1>1, <1>4, ExaminedType
<1>6. /\ new.examined = l.probe.examined + 1
      /\ ~ new.over => ~ IsEmpty(s)
      /\ \/ /\ new.valid = l.probe.valid /\ new.at = l.probe.at /\ new.slot = l.probe.slot
            /\ new.found = l.probe.found
         \/ /\ new.valid /\ new.at = i /\ new.slot = s /\ Whole(s)
            /\ \/ new.found = l.probe.found /\ s.flag # "valid" /\ ~ l.probe.valid
               \/ new.found /\ s.flag # "none" /\ s.key = k
  BY <1>1, <1>4, <1>5, SeenCases
<1>7. /\ m \in Call /\ m.pc = l.pc /\ m.probe = new /\ m.prime = l.prime /\ m.op = l.op
      /\ m.half = l.half /\ m.turn = l.turn /\ m.prop = l.prop /\ m.answer = l.answer
  BY <1>5 DEF Call
<1>8. KindOf(m) = KindOf(l)
  BY <1>7 DEF KindOf
<1>9. Chosen(new, KindOf(l), k)
  <2>1. Chosen(l.probe, KindOf(l), k)
    BY DEF CallInv, ProbeOK
  <2>. QED
    BY <1>3, <1>6, <2>1 DEF Chosen
<1>10. ASSUME KindOf(l) = "PRIME"
       PROVE  ChosenPrime(new, k) /\ (~ new.over => Walked(k, new.examined))
  <2>1. at = PrimeAt(k, l.probe.examined) /\ at = Home(k, i)
    BY <1>10 DEF PrimeAt, Home, NodeOf, ReadIndex
  <2>2. ChosenPrime(l.probe, k) /\ Walked(k, l.probe.examined)
    BY <1>2, <1>10 DEF CallInv, ProbeOK
  <2>3. ASSUME ~ new.over PROVE Walked(k, new.examined)
    BY <1>2, <1>6, <2>1, <2>2, <2>3 DEF Walked
  <2>4. Placed(k, at)
    BY <1>2, <1>10, <2>1, <2>2 DEF Placed
  <2>5. ASSUME ~ Direct, Whole(s)
        PROVE  s = ZeroSlot \/ [at |-> at, prop |-> s] \in installed
    <3>1. at \in PrimeSlots
      BY <1>4, <1>10 DEF PrimeSlots, TypeOK
    <3>. QED
      BY <2>5, <3>1 DEF RingInv, PrimeInv
  <2>6. s.guard <= s.guard
    BY <1>4 DEF Slot
  <2>7. ChosenPrime(new, k)
    BY <1>6, <1>9, <1>10, <2>1, <2>2, <2>4, <2>5, <2>6 DEF ChosenPrime, Chosen
  <2>. QED
    BY <2>3, <2>7
<1>11. ProbeOK(m)
  BY <1>2, <1>6, <1>7, <1>8, <1>9, <1>10 DEF ProbeOK
<1>12. ControlOK(m) /\ ~ m.half
  <2>1. ~ l.half
    BY <1>7 DEF CallInv, ControlOK, Committing, Probing
  <2>. QED
    BY <1>7, <2>1 DEF CallInv, ControlOK
<1>13. PrimeOK(m) /\ ProposalOK(m) /\ CommittedOK(m) /\ AnswerOK(m)
  BY <1>7 DEF CallInv, PrimeOK, ProposalOK, CommittedOK, AnswerOK
<1>. QED
  BY <1>7, <1>11, <1>12, <1>13, CallStays DEF CallInv

(* A call asks its next backup, or counts the votes. *)
LEMMA NextVoteInv ==
  ASSUME TypeOK, Grows, NEW l \in Call, CallInv(l), l.pc = "vote", NEW vote \in Vote,
         NEW m, m = NextVote(l, vote)
  PROVE  m \in Call /\ CallInv(m)' /\ ~ m.half
<1>1. /\ l.turn \in 1 .. BackupCount /\ BackupCount \in Nat
      /\ l.op.op # "read" /\ l.prime.valid
      /\ l.prop = Proposal(l.op, l.prime.slot.guard)
      /\ l.op.op = "update" => l.prime.found /\ Present(l.prime.slot, l.op.key)
  BY ConfigType DEF CallInv, ControlOK, ProposalOK, Backups, TypeOK
<1>2. PICK n : n = [l EXCEPT !.votes[l.turn] = vote, !.turn = @ + 1]
  OBVIOUS
<1>3. PICK pc \in {"vote", "evaluate"} : pc = IF l.turn < BackupCount THEN "vote" ELSE "evaluate"
  OBVIOUS
<1>4. m = Go(n, pc)
  BY <1>2, <1>3 DEF NextVote
<1>5. /\ n \in Call /\ n.op = l.op /\ n.prime = l.prime /\ n.answer = l.answer
      /\ n.prop = l.prop /\ n.turn = l.turn + 1
  <2>1. l.turn + 1 \in 0 .. BackupCount + 1
    BY <1>1
  <2>2. [l.votes EXCEPT ![l.turn] = vote] \in [Backups -> Vote]
    BY DEF Call
  <2>. QED
    BY <1>2, <2>1, <2>2 DEF Call
<1>6. /\ m.pc = pc /\ m.half = FALSE /\ m.op = l.op /\ m.prop = l.prop
      /\ m.prime = l.prime /\ m.turn = l.turn + 1
  BY <1>4, <1>5 DEF Go, Call
<1>7. ControlOK(m) /\ ProposalOK(m)
  BY <1>1, <1>3, <1>6 DEF ControlOK, ProposalOK, Backups
<1>8. CommittedOK(m)'
  BY <1>3, <1>6 DEF CommittedOK
<1>9. PrimeOK(n) /\ AnswerOK(n)'
  BY <1>5, CommittedStays DEF CallInv, PrimeOK, AnswerOK
<1>. QED
  BY <1>3, <1>4, <1>5, <1>7, <1>8, <1>9, GoInv DEF Probing

(* A write goes on with its next repair. *)
LEMMA NextRepairInv ==
  ASSUME TypeOK, Grows, NEW l \in Call, CallInv(l), l.pc = "repair",
         NEW m, m = RepairFrom(l, l.turn + 1)
  PROVE  m \in Call /\ CallInv(m)' /\ ~ m.half
<1>1. l.turn + 1 \in Nat
  BY ConfigType DEF Call, TypeOK
<1>2. /\ l.op.op # "read" /\ l.prime.valid /\ PrimeOK(l)
      /\ l.prop = Proposal(l.op, l.prime.slot.guard)
      /\ l.op.op = "update" => l.prime.found /\ Present(l.prime.slot, l.op.key)
  BY DEF CallInv, ControlOK, ProposalOK
<1>3. Committed(l.prop)' /\ AnswerOK(l)'
  BY <1>2, CommittedStays DEF CallInv, CommittedOK, AnswerOK
<1>. QED
  BY <1>1, <1>2, <1>3, RepairInv

(* A call is done with the cache. *)
LEMMA RefreshedInv ==
  ASSUME TypeOK, Grows, NEW l \in Call, CallInv(l), l.pc = "refresh", NEW m, m = Finish(l)
  PROVE  m \in Call /\ CallInv(m)' /\ ~ m.half
<1>1. l.op.op # "read" => Committed(l.prop)'
  BY CommittedStays DEF CallInv, CommittedOK
<1>. QED
  BY <1>1, FinishInv

(* A read is done with the cache region without a hit. *)
LEMMA MissInv ==
  ASSUME TypeOK, Grows, NEW l \in Call, CallInv(l), l.pc = "readCache",
         NEW m, m = FromPrime(l)
  PROVE  m \in Call /\ CallInv(m)' /\ ~ m.half
<1>1. PrimeOK(l) /\ AnswerOK(l)' /\ l.op.op = "read"
  BY CommittedStays DEF CallInv, AnswerOK, ControlOK
<1>. QED
  BY <1>1, FromPrimeInv

(* A call whose operation failed *)
LEMMA FailedInv ==
  ASSUME TypeOK, Grows, NEW l \in Call, CallInv(l), NEW m, m = Failed(l)
  PROVE  m \in Call /\ CallInv(m)' /\ ~ m.half
<1>1. CASE l.pc = "readCache"
  BY <1>1, MissInv DEF Failed
<1>2. CASE l.pc = "repair"
  BY <1>2, NextRepairInv DEF Failed
<1>3. CASE l.pc = "refresh"
  BY <1>3, RefreshedInv DEF Failed
<1>4. CASE l.pc = "vote" /\ Committing(l)
  <2>1. PICK vote \in Vote : vote = [ok |-> FALSE, tie |-> l.probe.slot.tie]
    BY DEF Call, Probe, Slot, Vote
  <2>2. m = NextVote(l, vote)
    BY <1>4, <2>1 DEF Failed
  <2>. QED
    BY <1>4, <2>2, NextVoteInv
<1>5. CASE l.pc \notin {"readCache", "repair", "refresh"} /\ ~ (l.pc = "vote" /\ Committing(l))
  <2>1. m = Fail(l)
    BY <1>5 DEF Failed
  <2>. QED
    BY <2>1, FailInv
<1>. QED
  BY <1>1, <1>2, <1>3, <1>4, <1>5

(* A call begins. *)
LEMMA BeginInv ==
  ASSUME TypeOK, Grows, NEW calls \in Nat, NEW o \in Ops,
         NEW m, m = [Idle(calls, o, NoAnswer) EXCEPT
                       !.pc = IF o.op = "read" THEN "readPrime" ELSE "writePrime"]
  PROVE  m \in Call /\ CallInv(m)' /\ ~ m.half
<1>1. PICK l : l = Idle(calls, o, NoAnswer)
  OBVIOUS
<1>2. PICK pc \in {"readPrime", "writePrime"} :
        pc = IF o.op = "read" THEN "readPrime" ELSE "writePrime"
  OBVIOUS
<1>3. l \in Call
  BY <1>1, IdleType, BasicTypes DEF TypeOK
<1>4. /\ l.probe = NewProbe /\ l.prime = NewProbe /\ l.half = FALSE /\ l.op = o
      /\ l.answer = NoAnswer
  BY <1>1 DEF Idle
<1>5. m = Go(l, pc)
  <2>1. m = [l EXCEPT !.pc = pc]
    BY <1>1, <1>2
  <2>. QED
    BY <1>3, <1>4, <2>1 DEF Go, Call
<1>6. m.pc = pc /\ m.half = FALSE /\ m.op = o
  BY <1>3, <1>4, <1>5 DEF Go, Call
<1>7. ControlOK(m) /\ ProposalOK(m)
  BY <1>2, <1>6 DEF ControlOK, ProposalOK
<1>8. CommittedOK(m)'
  BY <1>2, <1>6 DEF CommittedOK
<1>9. PrimeOK(l) /\ AnswerOK(l)'
  BY <1>4 DEF PrimeOK, ChosenPrime, Chosen, NewProbe, AnswerOK, NoAnswer
<1>. QED
  BY <1>2, <1>3, <1>5, <1>7, <1>8, <1>9, GoInv DEF Probing

(* A read is done with the PRIME region. *)
LEMMA ReadPrimeInv ==
  ASSUME TypeOK, Grows, NEW l \in Call, CallInv(l), l.pc = "readPrime", Over(l),
         NEW m, m = IF Full(l) THEN Fail(l)
                    ELSE LET n == [l EXCEPT !.prime = l.probe]
                         IN IF CacheOn THEN Go(n, "readCache") ELSE FromPrime(n)
  PROVE  m \in Call /\ CallInv(m)' /\ ~ m.half
<1>1. CASE Full(l)
  BY <1>1, FailInv
<1>2. CASE ~ Full(l)
  <2>1. PICK n : n = [l EXCEPT !.prime = l.probe]
    OBVIOUS
  <2>2. n \in Call /\ n.op = l.op /\ n.prime = l.probe /\ n.answer = l.answer
    BY <2>1 DEF Call
  <2>3. PrimeOK(n) /\ AnswerOK(n)' /\ n.op.op = "read"
    <3>1. ChosenPrime(l.probe, l.op.key)
      BY DEF CallInv, ProbeOK, Probing, KindOf
    <3>. QED
      BY <2>2, <3>1, CommittedStays DEF CallInv, ControlOK, PrimeOK, AnswerOK
  <2>4. CASE m = Go(n, "readCache")
    <3>1. m.pc = "readCache" /\ m.half = FALSE /\ m.op = l.op
      BY <2>2, <2>4 DEF Go, Call
    <3>2. ControlOK(m) /\ ProposalOK(m)
      BY <2>2, <2>3, <3>1 DEF ControlOK, ProposalOK
    <3>3. CommittedOK(m)'
      BY <3>1 DEF CommittedOK
    <3>. QED
      BY <2>2, <2>3, <2>4, <3>2, <3>3, GoInv DEF Probing
  <2>5. CASE m = FromPrime(n)
    BY <2>2, <2>3, <2>5, FromPrimeInv
  <2>. QED
    BY <1>2, <2>1, <2>4, <2>5
<1>. QED
  BY <1>1, <1>2

(* A read is done with the cache region. *)
LEMMA ReadCacheInv ==
  ASSUME TypeOK, Grows, NEW l \in Call, CallInv(l), l.pc = "readCache",
         NEW m, m = IF ~ Full(l) /\ CacheConsistent(l)
                    THEN Return(l, "value", l.probe.slot) ELSE FromPrime(l)
  PROVE  m \in Call /\ CallInv(m)' /\ ~ m.half
<1>1. l.probe.slot \in Slot
  BY DEF Call, Probe
<1>. QED
  BY <1>1, ReturnInv, MissInv

(* What a write goes on with after the probe of the PRIME region *)
Prepared(l) ==
  IF Full(l) \/ NotUpdatable(l) THEN Fail(l)
  ELSE Go([l EXCEPT !.prime = l.probe, !.turn = 1,
                    !.prop = Proposal(l.op, l.probe.slot.guard)],
          IF BackupCount = 0 THEN "evaluate" ELSE "vote")

(* A write makes its proposal. *)
LEMMA PrepareInv ==
  ASSUME TypeOK, Grows, NEW l \in Call, CallInv(l), l.pc = "writePrime", Over(l),
         NEW m, m = Prepared(l)
  PROVE  m \in Call /\ CallInv(m)' /\ ~ m.half
<1>1. CASE Full(l) \/ NotUpdatable(l)
  BY <1>1, FailInv DEF Prepared
<1>2. CASE ~ Full(l) /\ ~ NotUpdatable(l)
  <2>1. PICK n : n = [l EXCEPT !.prime = l.probe, !.turn = 1,
                               !.prop = Proposal(l.op, l.probe.slot.guard)]
    OBVIOUS
  <2>2. PICK pc \in {"evaluate", "vote"} : pc = IF BackupCount = 0 THEN "evaluate" ELSE "vote"
    OBVIOUS
  <2>3. m = Go(n, pc)
    BY <1>2, <2>1, <2>2 DEF Prepared
  <2>4. /\ Proposal(l.op, l.probe.slot.guard) \in Slot /\ BackupCount \in Nat
        /\ 1 \in 0 .. BackupCount + 1
    <3>1. l.op \in Ops /\ l.probe.slot.guard \in Nat /\ config \in Configs
      BY DEF Call, Probe, Slot, TypeOK
    <3>2. Proposal(l.op, l.probe.slot.guard) \in Slot
      BY <3>1, ProposalType
    <3>3. BackupCount \in Nat
      BY <3>1, ConfigType
    <3>. QED
      BY <3>2, <3>3
  <2>5. /\ n \in Call /\ n.op = l.op /\ n.prime = l.probe /\ n.answer = l.answer
        /\ n.turn = 1 /\ n.prop = Proposal(l.op, l.probe.slot.guard)
    BY <2>1, <2>4 DEF Call
  <2>6. PrimeOK(n) /\ AnswerOK(n)' /\ l.op.op # "read" /\ l.probe.valid
    <3>1. ChosenPrime(l.probe, l.op.key)
      BY DEF CallInv, ProbeOK, Probing, KindOf
    <3>2. l.probe.valid
      BY <1>2 DEF Full
    <3>. QED
      BY <2>5, <3>1, <3>2, CommittedStays DEF CallInv, ControlOK, PrimeOK, AnswerOK
  <2>7. /\ m.pc = pc /\ m.half = FALSE /\ m.op = l.op /\ m.turn = 1 /\ m.prime = l.probe
        /\ m.prop = Proposal(l.op, l.probe.slot.guard)
    BY <2>3, <2>5 DEF Go, Call
  <2>8. ControlOK(m)
    BY <2>2, <2>4, <2>6, <2>7 DEF ControlOK, Backups
  <2>9. ProposalOK(m)
    BY <1>2, <2>6, <2>7 DEF ProposalOK, NotUpdatable
  <2>10. CommittedOK(m)'
    BY <2>2, <2>7 DEF CommittedOK
  <2>. QED
    BY <2>2, <2>3, <2>5, <2>6, <2>8, <2>9, <2>10, GoInv DEF Probing
<1>. QED
  BY <1>1, <1>2

(* A write decides. *)
LEMMA EvaluateInv ==
  ASSUME TypeOK, Grows, NEW l \in Call, CallInv(l), l.pc = "evaluate",
         NEW m, m \in {Return(l, "lost", l.prop), Go(l, "commit")}
  PROVE  m \in Call /\ CallInv(m)' /\ ~ m.half
<1>1. CASE m = Return(l, "lost", l.prop)
  <2>1. l.prop \in Slot
    BY DEF Call
  <2>. QED
    BY <1>1, <2>1, ReturnInv
<1>2. CASE m = Go(l, "commit")
  <2>1. m.pc = "commit" /\ m.half = FALSE /\ m.op = l.op /\ m.prime = l.prime /\ m.prop = l.prop
    BY <1>2 DEF Go, Call
  <2>2. ControlOK(m) /\ ProposalOK(m) /\ PrimeOK(l)
    BY <2>1 DEF CallInv, ControlOK, ProposalOK
  <2>3. CommittedOK(m)' /\ AnswerOK(l)'
    BY <2>1, CommittedStays DEF CallInv, CommittedOK, AnswerOK
  <2>. QED
    BY <1>2, <2>2, <2>3, GoInv
<1>. QED
  BY <1>1, <1>2

(* A call writes the body of a slot. *)
LEMMA HalfInv ==
  ASSUME TypeOK, Grows, NEW l \in Call, CallInv(l), Committing(l),
         NEW m, m = [l EXCEPT !.half = TRUE]
  PROVE  m \in Call /\ CallInv(m)'
<1>1. /\ m \in Call /\ m.pc = l.pc /\ m.probe = l.probe /\ m.prime = l.prime /\ m.op = l.op
      /\ m.half = TRUE /\ m.turn = l.turn /\ m.prop = l.prop /\ m.answer = l.answer
  BY DEF Call
<1>2. KindOf(m) = KindOf(l) /\ Over(m) = Over(l) /\ Committing(m)
  BY <1>1 DEF KindOf, Over, Committing
<1>3. CallInv(m)
  BY <1>1, <1>2 DEF CallInv, ControlOK, ProbeOK, PrimeOK, ProposalOK, CommittedOK, AnswerOK
<1>. QED
  BY <1>1, <1>3, CallStays

(* A compute node dies. *)
LEMMA CrashInv ==
  ASSUME TypeOK, Grows, NEW l \in Call, CallInv(l), NEW m, m = Go(l, "down")
  PROVE  m \in Call /\ CallInv(m)' /\ ~ m.half
<1>1. m.pc = "down" /\ m.half = FALSE
  BY DEF Go, Call
<1>2. ControlOK(m) /\ ProposalOK(m) /\ PrimeOK(l)
  BY <1>1 DEF CallInv, ControlOK, ProposalOK
<1>3. CommittedOK(m)' /\ AnswerOK(l)'
  BY <1>1, CommittedStays DEF CallInv, CommittedOK, AnswerOK
<1>. QED
  BY <1>2, <1>3, GoInv

-----------------------------------------------------------------------------
(* Steps that commit nothing                                               *)

(* Slots of the cache are cleared, or nothing happens to the slots. *)
Clears ==
  /\ config' = config /\ installed' = installed
  /\ slot' \in [Locations -> Slot]
  /\ \A l \in Locations :
       slot'[l] = slot[l] \/ (l[2] = "CACHE" /\ slot'[l] = ZeroSlot)

(* Neither takes anything back. *)
LEMMA ClearsGrows == ASSUME TypeOK, Clears PROVE Grows
<1>1. ASSUME NEW l \in PrimeSlots PROVE slot'[l] = slot[l] /\ slot[l] \in Slot
  BY DEF Clears, PrimeSlots, TypeOK
<1>2. \A l \in PrimeSlots : slot[l].guard <= slot'[l].guard
  BY <1>1 DEF Slot
<1>. QED
  BY <1>1, <1>2 DEF Clears, Grows

(* Slots keep their invariants when slots of the cache are cleared. *)
LEMMA ClearsInv ==
  ASSUME TypeOK, InstalledInv, KeyedInv, PlacedInv, BackupAtMostOneAhead, Clears
  PROVE  InstalledInv' /\ KeyedInv' /\ PlacedInv' /\ BackupAtMostOneAhead'
<1>1. /\ Locations' = Locations /\ DOMAIN slot = Locations /\ DOMAIN slot' = Locations
      /\ PrimeSlots' = PrimeSlots /\ BackupSlots' = BackupSlots
      /\ Count' = Count /\ \A k, i : Home(k, i)' = Home(k, i)
  BY ConfigStays
     DEF Clears, TypeOK, PrimeSlots, BackupSlots, Count, Home, Node, NodeCount
<1>2. ASSUME NEW l \in PrimeSlots \cup BackupSlots PROVE slot'[l] = slot[l]
  BY <1>1 DEF Clears, PrimeSlots, BackupSlots
<1>3. InstalledInv'
  BY <1>1, <1>2 DEF InstalledInv, OneWinner, Clears
<1>4. KeyedInv'
  BY <1>1 DEF KeyedInv, Clears, ZeroSlot
<1>5. PlacedInv'
  <2>1. SUFFICES ASSUME NEW l \in PrimeSlots, NEW k, k = slot'[l].key, slot'[l].flag # "none"
                 PROVE  Placed(k, l)'
    BY <1>1 DEF PlacedInv
  <2>2. k \in Keys /\ Placed(k, l)
    BY <1>1, <1>2, <2>1 DEF PlacedInv, KeyedInv, PrimeSlots
  <2>. QED
    BY <2>2, ClearsGrows, PlacedStays
<1>6. BackupAtMostOneAhead'
  <2>1. SUFFICES ASSUME NEW l \in BackupSlots, slot'[l].visible > 0
                 PROVE  \E i \in 0 .. Count["PRIME"] - 1 :
                          slot'[l].visible <= slot'[Home(slot'[l].key, i)].guard + 1
    BY <1>1 DEF BackupAtMostOneAhead, Home
  <2>2. slot'[l] = slot[l] /\ l \in Locations
    BY <1>1, <1>2 DEF BackupSlots
  <2>3. PICK i \in 0 .. Count["PRIME"] - 1 :
          slot[l].visible <= slot[Home(slot[l].key, i)].guard + 1
    BY <2>1, <2>2 DEF BackupAtMostOneAhead, Home
  <2>4. slot[l].key \in Keys
    BY <2>1, <2>2 DEF KeyedInv, TypeOK, Slot
  <2>5. slot'[Home(slot[l].key, i)] = slot[Home(slot[l].key, i)]
    BY <1>2, <2>4, HomeType
  <2>. QED
    BY <2>2, <2>3, <2>5
<1>. QED
  BY <1>3, <1>4, <1>5, <1>6

(* What only depends on a call and on the deployment *)
LEMMA CallPartsStay ==
  ASSUME config' = config, NEW l
  PROVE  /\ NodeOf(l)' = NodeOf(l) /\ CommitTo(l)' = CommitTo(l)
         /\ CompareTo(l)' = CompareTo(l) /\ KindOf(l)' = KindOf(l)
         /\ Committing(l)' = Committing(l)
  BY DEF NodeOf, CommitTo, CompareTo, KindOf, Target, Node, NodeCount, Committing, Over, Count

(* A call that wrote a body wrote it to a slot of its region. *)
LEMMA HalfLocation ==
  ASSUME TypeOK, InstalledInv, NEW c \in Clients, CallInv(cn[c]), cn[c].half
  PROVE  CommitTo(cn[c]) \in Locations
<1>1. cn[c] \in Call /\ Committing(cn[c])
  BY DEF TypeOK, CallInv, ControlOK
<1>2. Justified(CommitTo(cn[c]), CompareTo(cn[c]), cn[c].prop)
  BY <1>1, CommitJustified
<1>. QED
  BY <1>2 DEF Justified

(* Locks and commits stay as they are when slots of the cache are cleared    *)
(* on nodes without a commit, and calls do not begin or end a commit.      *)
LEMMA ClearsRing ==
  ASSUME TypeOK, InstalledInv, RingInv, Clears, \A d \in Clients : CallInv(cn[d]),
         \A d \in Clients :
           cn'[d] = cn[d] \/ (~ Direct => ~ cn[d].half /\ ~ cn'[d].half),
         \A l \in Locations :
           slot'[l] = slot[l] \/ (~ Direct => ~ Locked(l[1])),
         stray \subseteq Request, stray' \subseteq Request,
         \A r \in stray : r.half => r \in stray',
         \A r \in stray' : r.half => r \in stray
  PROVE  RingInv'
<1>1. SUFFICES ASSUME ~ Direct PROVE LockInv' /\ StrayLockInv' /\ PrimeInv' /\ CacheInv'
  BY ConfigStays DEF RingInv, Clears
<1>2. LockInv /\ StrayLockInv /\ PrimeInv /\ CacheInv
  BY <1>1 DEF RingInv
<1>3. /\ DOMAIN slot = Locations /\ DOMAIN slot' = Locations
      /\ PrimeSlots' = PrimeSlots /\ CacheSlots' = CacheSlots
      /\ installed' = installed
  BY ConfigStays DEF Clears, TypeOK, PrimeSlots, CacheSlots
<1>4. ASSUME NEW l \in PrimeSlots PROVE slot'[l] = slot[l]
  BY <1>3 DEF Clears, PrimeSlots
<1>5. \A l : NodeOf(l)' = NodeOf(l) /\ CommitTo(l)' = CommitTo(l) /\ CompareTo(l)' = CompareTo(l)
  BY CallPartsStay DEF Clears
<1>6. LockInv'
  <2>1. ASSUME NEW c \in Clients, cn'[c].half
        PROVE  slot'[CommitTo(cn'[c])] = [cn'[c].prop EXCEPT !.guard = CompareTo(cn'[c])]
    <3>1. cn'[c] = cn[c] /\ cn[c].half
      BY <1>1, <2>1
    <3>2. slot[CommitTo(cn[c])] = [cn[c].prop EXCEPT !.guard = CompareTo(cn[c])]
      BY <1>2, <3>1 DEF LockInv
    <3>3. CommitTo(cn[c])[1] = NodeOf(cn[c])
      BY DEF CommitTo
    <3>4. CommitTo(cn[c]) \in Locations
      BY <3>1, HalfLocation
    <3>5. slot'[CommitTo(cn[c])] = slot[CommitTo(cn[c])]
      BY <1>1, <3>1, <3>3, <3>4 DEF Locked
    <3>. QED
      BY <3>1, <3>2, <3>5
  <2>2. ASSUME NEW c \in Clients, NEW d \in Clients, cn'[c].half, cn'[d].half,
               NodeOf(cn'[c]) = NodeOf(cn'[d])
        PROVE  c = d
    <3>1. cn'[c] = cn[c] /\ cn'[d] = cn[d]
      BY <1>1, <2>2
    <3>. QED
      BY <1>2, <2>2, <3>1 DEF LockInv
  <2>. QED
    BY <1>5, <2>1, <2>2 DEF LockInv
<1>9. StrayLockInv'
  <2>1. ASSUME NEW r \in stray', r.half
        PROVE  slot'[r.to] = [r.prop EXCEPT !.guard = r.compare]
    <3>1. r \in stray /\ r.to \in Locations
      BY <2>1 DEF Request
    <3>2. Locked(r.to[1])
      BY <1>1, <2>1, <3>1 DEF Locked
    <3>. QED
      BY <1>1, <1>2, <2>1, <3>1, <3>2 DEF StrayLockInv
  <2>2. ASSUME NEW r \in stray', NEW q \in stray', r.half, q.half, r.to[1] = q.to[1]
        PROVE  r = q
    BY <1>2, <2>2 DEF StrayLockInv
  <2>3. ASSUME NEW r \in stray', NEW c \in Clients, r.half, cn'[c].half
        PROVE  NodeOf(cn'[c]) # r.to[1]
    BY <1>1, <1>2, <2>3 DEF StrayLockInv
  <2>. QED
    BY <1>5, <2>1, <2>2, <2>3 DEF StrayLockInv
<1>7. PrimeInv'
  <2>1. ASSUME NEW l \in PrimeSlots, ~ Whole(slot'[l])
        PROVE  \/ \E c \in Clients : cn'[c].half /\ CommitTo(cn'[c]) = l
               \/ \E r \in stray' : r.half /\ r.to = l
    <3>1. CASE \E c \in Clients : cn[c].half /\ CommitTo(cn[c]) = l
      <4>1. PICK c \in Clients : cn[c].half /\ CommitTo(cn[c]) = l
        BY <3>1
      <4>2. cn'[c] = cn[c]
        BY <1>1, <4>1
      <4>. QED
        BY <4>1, <4>2
    <3>. QED
      BY <1>2, <1>4, <2>1, <3>1 DEF PrimeInv
  <2>2. \A e \in installed : e.at \in PrimeSlots
    BY DEF TypeOK
  <2>. QED
    BY <1>2, <1>3, <1>4, <1>5, <2>1, <2>2 DEF PrimeInv
<1>8. CacheInv'
  <2>1. \A l \in CacheSlots : slot'[l] = slot[l] \/ slot'[l].flag = "none"
    BY <1>3 DEF Clears, CacheSlots, ZeroSlot
  <2>. QED
    BY <1>2, <1>3, <2>1 DEF CacheInv
<1>. QED
  BY <1>6, <1>7, <1>8, <1>9

-----------------------------------------------------------------------------
(* Steps of commits, on the request ring                                   *)

(* What a body in a slot leaves true of the others and of the cache *)
BodyWritten(to, compare, prop) ==
  /\ slot'[to] = [prop EXCEPT !.guard = compare]
  /\ \A p \in Locations \ {to} : slot'[p] = slot[p]
  /\ PrimeSlots' = PrimeSlots
  /\ \A p \in PrimeSlots :
       Whole(slot'[p]) => slot'[p] = ZeroSlot \/ [at |-> p, prop |-> slot'[p]] \in installed
  /\ \A e \in installed :
       slot'[e.at] = e.prop \/ slot'[e.at].visible > e.prop.visible
  /\ CacheInv'

(* A body is written where the guard is what the commit expects: what PRIME *)
(* slots and the cache hold stays as it was, but for a slot that is not     *)
(* whole.                                                                  *)
LEMMA BodyKeeps ==
  ASSUME TypeOK, InstalledInv, RingInv, ~ Direct,
         NEW to, NEW compare \in Nat, NEW prop \in Slot,
         Justified(to, compare, prop), slot[to].guard = compare,
         slot' = [slot EXCEPT ![to] = WithBody(@, prop)],
         config' = config, installed' = installed
  PROVE  BodyWritten(to, compare, prop)
<1>1. to \in Locations /\ slot[to] \in Slot
  BY DEF Justified, TypeOK
<1>2. /\ DOMAIN slot = Locations /\ DOMAIN slot' = Locations
      /\ slot'[to] = [prop EXCEPT !.guard = compare]
      /\ \A p \in Locations \ {to} : slot'[p] = slot[p]
  BY <1>1 DEF TypeOK, WithBody
<1>3. /\ PrimeInv /\ CacheInv
      /\ PrimeSlots' = PrimeSlots /\ CacheSlots' = CacheSlots
  BY <1>2 DEF RingInv, PrimeSlots, CacheSlots
<1>4. to[2] = "PRIME" => prop.visible = compare + 1
  BY DEF Justified
<1>5. ASSUME NEW p \in PrimeSlots, Whole(slot'[p])
      PROVE  slot'[p] = ZeroSlot \/ [at |-> p, prop |-> slot'[p]] \in installed
  <2>1. p # to
    BY <1>1, <1>2, <1>4, <1>5 DEF Whole, PrimeSlots, Slot
  <2>2. slot'[p] = slot[p]
    BY <1>2, <2>1 DEF PrimeSlots
  <2>. QED
    BY <1>3, <1>5, <2>2 DEF PrimeInv
<1>6. ASSUME NEW e \in installed
      PROVE  slot'[e.at] = e.prop \/ slot'[e.at].visible > e.prop.visible
  <2>1. e.at \in PrimeSlots /\ e.prop.visible <= slot[e.at].guard /\ e.prop \in Slot
    BY DEF InstalledInv, TypeOK
  <2>2. CASE e.at = to
    <3>1. e.prop.visible <= compare /\ e.prop.visible \in Nat
      BY <2>1, <2>2 DEF Slot
    <3>2. slot'[to].visible = compare + 1
      BY <1>2, <1>4, <2>1, <2>2 DEF PrimeSlots, Slot
    <3>. QED
      BY <2>2, <3>1, <3>2
  <2>3. CASE e.at # to
    BY <1>2, <1>3, <2>1, <2>3 DEF PrimeInv, PrimeSlots
  <2>. QED
    BY <2>2, <2>3
<1>7. CacheInv'
  <2>1. SUFFICES ASSUME NEW p \in CacheSlots, slot'[p].flag # "none"
                 PROVE  \E e \in installed : slot'[p] = [e.prop EXCEPT !.guard = slot'[p].guard]
    BY <1>3 DEF CacheInv
  <2>2. CASE p = to
    <3>1. PICK e \in installed : e.prop = prop
      BY <2>2 DEF CacheSlots, Justified, Committed
    <3>2. slot'[p] = [e.prop EXCEPT !.guard = compare] /\ slot'[p].guard = compare
      BY <1>2, <2>2, <3>1 DEF Slot
    <3>. QED
      BY <3>2
  <2>3. CASE p # to
    BY <1>2, <1>3, <2>1, <2>3 DEF CacheInv, CacheSlots
  <2>. QED
    BY <2>2, <2>3
<1>. QED
  BY <1>2, <1>3, <1>5, <1>6, <1>7 DEF BodyWritten

(* The body of a call's commit, which holds the lock from now on *)
LEMMA BodyRing ==
  ASSUME TypeOK, InstalledInv, RingInv, ~ Direct, \A d \in Clients : CallInv(cn[d]),
         NEW c \in Clients, Committing(cn[c]), ~ Locked(NodeOf(cn[c])), Matches(cn[c]),
         slot' = [slot EXCEPT ![CommitTo(cn[c])] = WithBody(@, cn[c].prop)],
         cn' = [cn EXCEPT ![c] = [@ EXCEPT !.half = TRUE]],
         config' = config, installed' = installed, stray' = stray, stray \subseteq Request
  PROVE  RingInv'
<1> DEFINE l  == cn[c]
           to == CommitTo(l)
<1>1. l \in Call /\ l.prop \in Slot
  BY DEF TypeOK, Call
<1>2. /\ Justified(to, CompareTo(l), l.prop) /\ CompareTo(l) \in Nat /\ to \in Locations
      /\ to[1] = NodeOf(l) /\ slot[to].guard = CompareTo(l)
  <2>1. Justified(to, CompareTo(l), l.prop) /\ CompareTo(l) \in Nat /\ to[1] = NodeOf(l)
    BY <1>1, CommitJustified
  <2>. QED
    BY <2>1 DEF Justified, Matches
<1>3. PICK m : m = [l EXCEPT !.half = TRUE]
  OBVIOUS
<1>4. /\ m.half /\ m.prop = l.prop /\ cn'[c] = m /\ \A d \in Clients \ {c} : cn'[d] = cn[d]
      /\ CommitTo(m) = to /\ CompareTo(m) = CompareTo(l) /\ NodeOf(m) = NodeOf(l)
  BY <1>1, <1>3 DEF TypeOK, Call, CommitTo, CompareTo, NodeOf, KindOf, Target
<1>5. PICK at, compare, prop : at = to /\ compare = CompareTo(l) /\ prop = l.prop
  OBVIOUS
<1>6. BodyWritten(at, compare, prop)
  <2>1. /\ compare \in Nat /\ prop \in Slot /\ Justified(at, compare, prop)
        /\ slot[at].guard = compare /\ slot' = [slot EXCEPT ![at] = WithBody(@, prop)]
    BY <1>1, <1>2, <1>5
  <2>. QED
    BY <2>1, BodyKeeps
<1>7. /\ \A d \in Clients \ {c} :
           cn[d].half => NodeOf(cn[d]) # NodeOf(l) /\ CommitTo(cn[d]) # to
      /\ \A r \in stray : r.half => r.to[1] # NodeOf(l) /\ r.to # to
  BY <1>2 DEF Locked, CommitTo
<1>8. LockInv /\ StrayLockInv /\ PrimeInv
  BY DEF RingInv
<1>9. \A q : NodeOf(q)' = NodeOf(q) /\ CommitTo(q)' = CommitTo(q) /\ CompareTo(q)' = CompareTo(q)
  BY CallPartsStay
<1> HIDE DEF l, to
<1>10. LockInv'
  <2>1. ASSUME NEW d \in Clients, cn'[d].half
        PROVE  slot'[CommitTo(cn'[d])] = [cn'[d].prop EXCEPT !.guard = CompareTo(cn'[d])]
    <3>1. CASE d = c
      BY <1>4, <1>5, <1>6, <3>1 DEF BodyWritten
    <3>2. CASE d # c
      <4>1. cn'[d] = cn[d] /\ cn[d].half
        BY <1>4, <2>1, <3>2
      <4>2. CommitTo(cn[d]) \in Locations \ {to}
        BY <1>7, <3>2, <4>1, HalfLocation
      <4>3. slot'[CommitTo(cn[d])] = slot[CommitTo(cn[d])]
        BY <1>5, <1>6, <4>2 DEF BodyWritten
      <4>. QED
        BY <1>8, <4>1, <4>3 DEF LockInv
    <3>. QED
      BY <3>1, <3>2
  <2>2. ASSUME NEW d \in Clients, NEW e \in Clients, cn'[d].half, cn'[e].half,
               NodeOf(cn'[d]) = NodeOf(cn'[e])
        PROVE  d = e
    <3>1. ASSUME NEW f \in Clients \ {c}, cn'[f].half
          PROVE  NodeOf(cn'[f]) # NodeOf(cn'[c]) /\ cn'[f] = cn[f]
      BY <1>4, <1>7, <3>1
    <3>2. CASE d # c /\ e # c
      BY <1>8, <2>2, <3>1, <3>2 DEF LockInv
    <3>3. CASE d = c \/ e = c
      BY <2>2, <3>1, <3>3
    <3>. QED
      BY <3>2, <3>3
  <2>. QED
    BY <1>9, <2>1, <2>2 DEF LockInv
<1>11. StrayLockInv'
  <2>1. ASSUME NEW r \in stray', r.half
        PROVE  slot'[r.to] = [r.prop EXCEPT !.guard = r.compare]
    <3>1. r \in stray /\ r.to \in Locations \ {to}
      BY <1>7, <2>1 DEF Request
    <3>. QED
      BY <1>5, <1>6, <1>8, <2>1, <3>1 DEF StrayLockInv, BodyWritten
  <2>2. ASSUME NEW r \in stray', NEW q \in stray', r.half, q.half, r.to[1] = q.to[1]
        PROVE  r = q
    BY <1>8, <2>2 DEF StrayLockInv
  <2>3. ASSUME NEW r \in stray', NEW d \in Clients, r.half, cn'[d].half
        PROVE  NodeOf(cn'[d]) # r.to[1]
    <3>1. CASE d = c
      BY <1>4, <1>7, <2>3, <3>1
    <3>2. CASE d # c
      BY <1>4, <1>8, <2>3, <3>2 DEF StrayLockInv
    <3>. QED
      BY <3>1, <3>2
  <2>. QED
    BY <1>9, <2>1, <2>2, <2>3 DEF StrayLockInv
<1>12. ASSUME NEW p \in PrimeSlots
       PROVE  \/ Whole(slot'[p])
              \/ \E d \in Clients : cn'[d].half /\ CommitTo(cn'[d]) = p
              \/ \E r \in stray' : r.half /\ r.to = p
  <2>1. CASE p = to
    BY <1>4, <2>1
  <2>2. CASE p # to
    <3>1. slot'[p] = slot[p]
      BY <1>5, <1>6, <2>2 DEF PrimeSlots, TypeOK, BodyWritten
    <3>2. ASSUME NEW d \in Clients, cn[d].half, CommitTo(cn[d]) = p
          PROVE  cn'[d] = cn[d]
      <4>1. d # c \/ (cn[d] = l /\ to = p)
        BY <3>2 DEF l, to
      <4>. QED
        BY <1>4, <2>2, <4>1
    <3>. QED
      BY <1>8, <3>1, <3>2 DEF PrimeInv
  <2>. QED
    BY <2>1, <2>2
<1>13. PrimeInv'
  BY <1>6, <1>9, <1>12 DEF PrimeInv, BodyWritten
<1>. QED
  BY <1>6, <1>10, <1>11, <1>13 DEF RingInv, BodyWritten

(* The body of a request whose caller has given up *)
LEMMA StrayBodyRing ==
  ASSUME TypeOK, InstalledInv, StrayInv, RingInv, ~ Direct,
         \A d \in Clients : CallInv(cn[d]),
         NEW r \in stray, NEW m, m = [r EXCEPT !.half = TRUE], ~ Locked(r.to[1]),
         slot[r.to].guard = r.compare,
         slot' = [slot EXCEPT ![r.to] = WithBody(@, r.prop)],
         stray' = (stray \ {r}) \cup {m}, ~ r.half, cn' = cn,
         config' = config, installed' = installed, stray \subseteq Request
  PROVE  RingInv'
<1>1. /\ r \in Request /\ Justified(r.to, r.compare, r.prop)
      /\ m.half /\ m.to = r.to /\ m.compare = r.compare /\ m.prop = r.prop
  BY DEF StrayInv, Request
<1>2. PICK to, compare, prop : to = r.to /\ compare = r.compare /\ prop = r.prop
  OBVIOUS
<1>3. BodyWritten(to, compare, prop)
  <2>1. /\ compare \in Nat /\ prop \in Slot /\ Justified(to, compare, prop)
        /\ slot[to].guard = compare /\ slot' = [slot EXCEPT ![to] = WithBody(@, prop)]
    BY <1>1, <1>2 DEF Request
  <2>. QED
    BY <2>1, BodyKeeps
<1>4. /\ \A d \in Clients : cn[d].half => NodeOf(cn[d]) # to[1] /\ CommitTo(cn[d]) # to
      /\ \A q \in stray : q.half => q.to[1] # to[1] /\ q.to # to
  BY <1>2 DEF Locked, CommitTo
<1>5. LockInv /\ StrayLockInv /\ PrimeInv
  BY DEF RingInv
<1>6. \A q : NodeOf(q)' = NodeOf(q) /\ CommitTo(q)' = CommitTo(q) /\ CompareTo(q)' = CompareTo(q)
  BY CallPartsStay
<1>7. \A q \in stray' : q.half => q = m \/ q \in stray
  OBVIOUS
<1>8. LockInv'
  <2>1. ASSUME NEW d \in Clients, cn[d].half
        PROVE  slot'[CommitTo(cn[d])] = [cn[d].prop EXCEPT !.guard = CompareTo(cn[d])]
    <3>1. CommitTo(cn[d]) \in Locations \ {to}
      BY <1>4, <2>1, HalfLocation
    <3>2. slot'[CommitTo(cn[d])] = slot[CommitTo(cn[d])]
      BY <1>3, <3>1 DEF BodyWritten
    <3>. QED
      BY <1>5, <2>1, <3>2 DEF LockInv
  <2>. QED
    BY <1>5, <1>6, <2>1 DEF LockInv
<1>9. StrayLockInv'
  <2>1. ASSUME NEW q \in stray', q.half
        PROVE  slot'[q.to] = [q.prop EXCEPT !.guard = q.compare]
    <3>1. CASE q = m
      BY <1>1, <1>2, <1>3, <3>1 DEF BodyWritten
    <3>2. CASE q \in stray
      <4>1. q.to \in Locations \ {to}
        BY <1>4, <2>1, <3>2 DEF Request
      <4>. QED
        BY <1>3, <1>5, <2>1, <3>2, <4>1 DEF StrayLockInv, BodyWritten
    <3>. QED
      BY <1>7, <2>1, <3>1, <3>2
  <2>2. ASSUME NEW p \in stray', NEW q \in stray', p.half, q.half, p.to[1] = q.to[1]
        PROVE  p = q
    <3>1. \A s \in stray : s.half => s.to[1] # m.to[1]
      BY <1>1, <1>2, <1>4
    <3>2. CASE p \in stray /\ q \in stray
      BY <1>5, <2>2, <3>2 DEF StrayLockInv
    <3>. QED
      BY <1>7, <2>2, <3>1, <3>2
  <2>3. ASSUME NEW q \in stray', NEW d \in Clients, q.half, cn[d].half
        PROVE  NodeOf(cn[d]) # q.to[1]
    <3>1. CASE q = m
      BY <1>1, <1>2, <1>4, <2>3, <3>1
    <3>2. CASE q \in stray
      BY <1>5, <2>3, <3>2 DEF StrayLockInv
    <3>. QED
      BY <1>7, <2>3, <3>1, <3>2
  <2>. QED
    BY <1>6, <2>1, <2>2, <2>3 DEF StrayLockInv
<1>10. ASSUME NEW p \in PrimeSlots
       PROVE  \/ Whole(slot'[p])
              \/ \E d \in Clients : cn'[d].half /\ CommitTo(cn'[d]) = p
              \/ \E q \in stray' : q.half /\ q.to = p
  <2>1. CASE p = to
    BY <1>1, <1>2, <2>1
  <2>2. CASE p # to
    <3>1. slot'[p] = slot[p]
      BY <1>3, <2>2 DEF PrimeSlots, TypeOK, BodyWritten
    <3>2. \A q \in stray : q.half => q \in stray'
      OBVIOUS
    <3>. QED
      BY <1>5, <3>1, <3>2 DEF PrimeInv
  <2>. QED
    BY <2>1, <2>2
<1>11. PrimeInv'
  BY <1>3, <1>6, <1>10 DEF PrimeInv, BodyWritten
<1>. QED
  BY <1>3, <1>8, <1>9, <1>11 DEF RingInv, BodyWritten

(* Proposal prop is committed at "to", where the guard is epoch compare; it *)
(* becomes epoch guard.  The call that does it, if any, is over.           *)
Commits(to, compare, prop, guard) ==
  /\ Write(to, compare, prop) /\ slot[to].guard = compare
  /\ slot' = [slot EXCEPT ![to] = [prop EXCEPT !.guard = guard]]
  /\ to[2] = "PRIME" =>
       guard = prop.guard /\ installed' = installed \cup {[at |-> to, prop |-> prop]}
  /\ to[2] # "PRIME" => installed' = installed
  /\ \A d \in Clients : cn'[d].half => cn'[d] = cn[d] /\ NodeOf(cn[d]) # to[1]
  /\ \A d \in Clients : cn[d].half /\ CommitTo(cn[d]) # to => cn'[d] = cn[d]
  /\ \A r \in stray' : r.half => r \in stray /\ r.to[1] # to[1]
  /\ \A r \in stray : r.half /\ r.to # to => r \in stray'

(* The guard, or a whole slot: nobody else holds the lock, and the slot is  *)
(* the proposal afterwards. *)
LEMMA CommitRing ==
  ASSUME TypeOK, InstalledInv, RingInv, ~ Direct, \A d \in Clients : CallInv(cn[d]),
         NEW to, NEW compare \in Nat, NEW prop \in Slot, NEW guard \in Nat,
         Justified(to, compare, prop), Commits(to, compare, prop, guard),
         stray \subseteq Request
  PROVE  RingInv'
<1> USE DEF Commits
<1>1. config' = config /\ to \in Locations /\ slot[to] \in Slot
  BY DEF Write, Justified, TypeOK
<1>2. /\ DOMAIN slot = Locations /\ DOMAIN slot' = Locations
      /\ slot'[to] = [prop EXCEPT !.guard = guard]
      /\ \A p \in Locations \ {to} : slot'[p] = slot[p]
  BY <1>1 DEF TypeOK
<1>3. /\ LockInv /\ StrayLockInv /\ PrimeInv /\ CacheInv
      /\ PrimeSlots' = PrimeSlots /\ CacheSlots' = CacheSlots
  BY <1>2 DEF RingInv, PrimeSlots, CacheSlots
<1>4. \A q : NodeOf(q)' = NodeOf(q) /\ CommitTo(q)' = CommitTo(q) /\ CompareTo(q)' = CompareTo(q)
  BY <1>1, CallPartsStay
<1>5. ASSUME to[2] = "PRIME"
      PROVE  /\ slot'[to] = prop /\ Whole(prop) /\ prop.visible = compare + 1
             /\ [at |-> to, prop |-> prop] \in installed'
  BY <1>2, <1>5 DEF Justified, Slot, Whole
<1>6. LockInv'
  <2>1. ASSUME NEW d \in Clients, cn'[d].half
        PROVE  slot'[CommitTo(cn'[d])] = [cn'[d].prop EXCEPT !.guard = CompareTo(cn'[d])]
    <3>1. cn'[d] = cn[d] /\ cn[d].half /\ NodeOf(cn[d]) # to[1]
      BY <2>1
    <3>2. CommitTo(cn[d]) # to /\ CommitTo(cn[d]) \in Locations
      BY <3>1, HalfLocation DEF CommitTo
    <3>. QED
      BY <1>2, <1>3, <3>1, <3>2 DEF LockInv
  <2>2. ASSUME NEW d \in Clients, NEW e \in Clients, cn'[d].half, cn'[e].half,
               NodeOf(cn'[d]) = NodeOf(cn'[e])
        PROVE  d = e
    BY <1>3, <2>2 DEF LockInv
  <2>. QED
    BY <1>4, <2>1, <2>2 DEF LockInv
<1>9. StrayLockInv'
  <2>1. ASSUME NEW r \in stray', r.half
        PROVE  slot'[r.to] = [r.prop EXCEPT !.guard = r.compare]
    <3>1. r \in stray /\ r.to \in Locations \ {to}
      BY <2>1 DEF Request
    <3>. QED
      BY <1>2, <1>3, <2>1, <3>1 DEF StrayLockInv
  <2>2. ASSUME NEW r \in stray', NEW q \in stray', r.half, q.half, r.to[1] = q.to[1]
        PROVE  r = q
    BY <1>3, <2>2 DEF StrayLockInv
  <2>3. ASSUME NEW r \in stray', NEW c \in Clients, r.half, cn'[c].half
        PROVE  NodeOf(cn'[c]) # r.to[1]
    BY <1>3, <2>3 DEF StrayLockInv
  <2>. QED
    BY <1>4, <2>1, <2>2, <2>3 DEF StrayLockInv
<1>7. PrimeInv'
  <2>1. ASSUME NEW p \in PrimeSlots, ~ Whole(slot'[p])
        PROVE  \/ \E d \in Clients : cn'[d].half /\ CommitTo(cn'[d]) = p
               \/ \E r \in stray' : r.half /\ r.to = p
    <3>1. p # to /\ slot'[p] = slot[p]
      BY <1>2, <1>5, <2>1 DEF PrimeSlots
    <3>2. CASE \E d \in Clients : cn[d].half /\ CommitTo(cn[d]) = p
      BY <3>1, <3>2
    <3>3. CASE \E r \in stray : r.half /\ r.to = p
      BY <3>1, <3>3
    <3>. QED
      BY <1>3, <2>1, <3>1, <3>2, <3>3 DEF PrimeInv
  <2>2. ASSUME NEW p \in PrimeSlots, Whole(slot'[p])
        PROVE  slot'[p] = ZeroSlot \/ [at |-> p, prop |-> slot'[p]] \in installed'
    <3>1. CASE p = to
      BY <1>5, <3>1 DEF PrimeSlots
    <3>2. CASE p # to
      BY <1>2, <1>3, <2>2, <3>2 DEF PrimeInv, PrimeSlots, Write
    <3>. QED
      BY <3>1, <3>2
  <2>3. ASSUME NEW e \in installed'
        PROVE  slot'[e.at] = e.prop \/ slot'[e.at].visible > e.prop.visible
    <3>1. CASE e \in installed
      <4>1. e.at \in PrimeSlots /\ e.prop.visible <= slot[e.at].guard /\ e.prop \in Slot
        BY <3>1 DEF InstalledInv, TypeOK
      <4>2. CASE e.at = to
        <5>1. e.prop.visible <= compare /\ e.prop.visible \in Nat
          BY <4>1, <4>2 DEF Slot
        <5>. QED
          BY <1>5, <4>1, <4>2, <5>1 DEF PrimeSlots
      <4>3. CASE e.at # to
        BY <1>2, <1>3, <3>1, <4>1, <4>3 DEF PrimeInv, PrimeSlots
      <4>. QED
        BY <4>2, <4>3
    <3>2. CASE e \notin installed
      BY <1>5, <3>2
    <3>. QED
      BY <3>1, <3>2
  <2>. QED
    BY <1>3, <1>4, <2>1, <2>2, <2>3 DEF PrimeInv
<1>8. CacheInv'
  <2>1. SUFFICES ASSUME NEW p \in CacheSlots, slot'[p].flag # "none"
                 PROVE  \E e \in installed : slot'[p] = [e.prop EXCEPT !.guard = slot'[p].guard]
    BY <1>3 DEF CacheInv, Write
  <2>2. CASE p = to
    <3>1. PICK e \in installed : e.prop = prop
      BY <2>2 DEF CacheSlots, Justified, Committed
    <3>2. slot'[p] = [e.prop EXCEPT !.guard = guard] /\ slot'[p].guard = guard
      BY <1>2, <2>2, <3>1 DEF Slot
    <3>. QED
      BY <3>2
  <2>3. CASE p # to
    BY <1>2, <1>3, <2>1, <2>3 DEF CacheInv, CacheSlots
  <2>. QED
    BY <2>2, <2>3
<1>. QED
  BY <1>6, <1>7, <1>8, <1>9 DEF RingInv

-----------------------------------------------------------------------------
(* The invariant is inductive                                              *)

(* One call is another one afterwards. *)
LEMMA CallsStay ==
  ASSUME TypeOK, Grows, \A d \in Clients : CallInv(cn[d]),
         NEW c \in Clients, NEW m \in Call, CallInv(m)', cn' = [cn EXCEPT ![c] = m]
  PROVE  /\ cn' \in [Clients -> Call]
         /\ (\A d \in Clients : CallInv(cn[d]))'
         /\ cn'[c] = m /\ \A d \in Clients \ {c} : cn'[d] = cn[d]
<1>1. cn \in [Clients -> Call]
  BY DEF TypeOK
<1>2. /\ cn' \in [Clients -> Call]
      /\ cn'[c] = m /\ \A d \in Clients \ {c} : cn'[d] = cn[d]
  BY <1>1
<1>3. ASSUME NEW d \in Clients PROVE CallInv(cn[d])'
  <2>1. CASE d = c
    BY <1>2, <2>1
  <2>2. CASE d # c
    <3>1. cn[d] \in Call /\ CallInv(cn[d])
      BY <1>1
    <3>2. PICK l \in Call : l = cn[d] /\ CallInv(l)
      BY <3>1
    <3>3. CallInv(l)'
      BY <3>2, CallStays
    <3>. QED
      BY <1>2, <2>2, <3>2, <3>3
  <2>. QED
    BY <2>1, <2>2
<1>. QED
  BY <1>2, <1>3

(* Requests whose caller gave up stay justified. *)
LEMMA StraysStay ==
  ASSUME TypeOK, InstalledInv, StrayInv, Grows, stray' \subseteq Request,
         \A r \in stray' \ stray : ~ Direct /\ Justified(r.to, r.compare, r.prop)
  PROVE  StrayInv'
<1>1. ASSUME NEW r \in stray' PROVE Justified(r.to, r.compare, r.prop)' /\ ~ Direct
  <2>1. r \in Request /\ Justified(r.to, r.compare, r.prop) /\ ~ Direct
    BY DEF StrayInv
  <2>2. PICK to \in Locations, compare \in Nat, prop \in Slot :
          /\ to = r.to /\ compare = r.compare /\ prop = r.prop
          /\ Justified(to, compare, prop)
    BY <2>1, ConfigStays DEF Request, Grows
  <2>3. Justified(to, compare, prop)'
    BY <2>2, JustifiedStays
  <2>. QED
    BY <2>1, <2>2, <2>3
<1>2. Direct' = Direct
  BY ConfigStays DEF Grows
<1>. QED
  BY <1>1, <1>2 DEF StrayInv

(* What the types of the other variables come down to *)
LEMMA TypesStay ==
  ASSUME TypeOK, config' = config, slot' \in [Locations -> Slot], cn' \in [Clients -> Call],
         stray' \subseteq Request, faults' \in Nat, evictions' \in Nat,
         installed' \subseteq [at : PrimeSlots, prop : Slot],
         cur' \in [Keys -> Slot], fresh' \in [Clients -> SUBSET Slot]
  PROVE  TypeOK'
<1>1. PrimeSlots' = PrimeSlots
  BY DEF PrimeSlots, TypeOK
<1>. QED
  BY <1>1, ConfigStays DEF TypeOK

(* A step of a call that leaves the slots alone *)
LEMMA QuietInv ==
  ASSUME IInv, config' = config, slot' = slot, installed' = installed,
         NEW c \in Clients, NEW m \in Call, CallInv(m)', ~ m.half,
         ~ Direct => ~ cn[c].half, cn' = [cn EXCEPT ![c] = m],
         stray' \subseteq Request,
         \A r \in stray' \ stray :
           ~ r.half /\ ~ Direct /\ Justified(r.to, r.compare, r.prop),
         stray \subseteq stray',
         faults' \in Nat, evictions' = evictions, cur' = cur,
         fresh' \in [Clients -> SUBSET Slot]
  PROVE  IInv'
<1>1. TypeOK /\ Clears /\ Grows
  BY ClearsGrows DEF IInv, TypeOK, Clears
<1>2. /\ cn' \in [Clients -> Call] /\ (\A d \in Clients : CallInv(cn[d]))'
      /\ cn'[c] = m /\ \A d \in Clients \ {c} : cn'[d] = cn[d]
  BY <1>1, CallsStay DEF IInv, Inv
<1>3. TypeOK'
  BY <1>1, <1>2, TypesStay DEF TypeOK
<1>4. InstalledInv' /\ KeyedInv' /\ PlacedInv' /\ BackupAtMostOneAhead'
  BY <1>1, ClearsInv DEF IInv, Inv
<1>5. StrayInv'
  BY <1>1, StraysStay DEF IInv, Inv
<1>6. RingInv'
  <2>1. \A d \in Clients :
          cn'[d] = cn[d] \/ (~ Direct => ~ cn[d].half /\ ~ cn'[d].half)
    BY <1>2
  <2>2. /\ stray \subseteq Request
        /\ \A r \in stray : r.half => r \in stray'
        /\ \A r \in stray' : r.half => r \in stray
    BY <1>1 DEF TypeOK
  <2>. QED
    BY <1>1, <2>1, <2>2, ClearsRing DEF IInv, Inv
<1>. QED
  BY <1>2, <1>3, <1>4, <1>5, <1>6 DEF IInv, Inv

(* What a call may be *)
LEMMA WorkloadType ==
  ASSUME TypeOK, NEW c \in Clients, NEW n \in Nat, n < Len(Workload[c])
  PROVE  Workload[c][n + 1] \subseteq Ops
<1>1. Workload[c] \in Seq(SUBSET Ops)
  BY ConfigType DEF TypeOK
<1>2. n + 1 \in 1 .. Len(Workload[c])
  BY <1>1
<1>. QED
  BY <1>1, <1>2

(* The steps that neither commit nor fail *)
LEMMA LocalStep ==
  ASSUME IInv, NEW c \in Clients,
         \/ Begin(c) \/ ReadSlot(c) \/ NoCandidate(c) \/ ReadPrime(c) \/ ReadCache(c)
         \/ Prepare(c) \/ EvaluateVotes(c)
  PROVE  IInv'
<1>1. PICK l \in Call : l = cn[c] /\ CallInv(l)
  BY DEF IInv, TypeOK, Inv
<1>2. TypeOK /\ RingInv /\ faults \in Nat /\ fresh \in [Clients -> SUBSET Slot]
      /\ stray \subseteq Request /\ cn \in [Clients -> Call]
  BY DEF IInv, Inv, TypeOK
<1>3. /\ config' = config /\ slot' = slot /\ installed' = installed /\ stray' = stray
      /\ faults' = faults /\ evictions' = evictions /\ cur' = cur
  BY DEF Begin, ReadSlot, NoCandidate, ReadPrime, ReadCache, Prepare, EvaluateVotes,
         others, history
<1>4. Grows
  BY <1>2, <1>3, ClearsGrows DEF TypeOK, Clears
<1>5. fresh' \in [Clients -> SUBSET Slot]
  <2>1. CASE Begin(c)
    <3>1. PICK o \in Workload[c][cn[c].calls + 1] : fresh' = [fresh EXCEPT ![c] = {cur[o.key]}]
      BY <2>1 DEF Begin
    <3>2. o.key \in Keys
      BY <1>1, <1>2, <2>1, <3>1, WorkloadType DEF Begin, Call, Ops
    <3>. QED
      BY <1>2, <3>1, <3>2 DEF TypeOK
  <2>2. CASE ~ Begin(c)
    BY <1>2, <2>2 DEF ReadSlot, NoCandidate, ReadPrime, ReadCache, Prepare,
                      EvaluateVotes, history
  <2>. QED
    BY <2>1, <2>2
<1>6. ~ l.half
  BY <1>1 DEF Begin, ReadSlot, NoCandidate, ReadPrime, ReadCache, Prepare, EvaluateVotes,
              CallInv, ControlOK, Committing, Probing, Full
<1>7. ASSUME NEW m \in Call, CallInv(m)', ~ m.half, Becomes(c, m)
      PROVE  IInv'
  BY <1>1, <1>2, <1>3, <1>5, <1>6, <1>7, QuietInv DEF Becomes
<1>8. CASE Begin(c)
  <2>1. PICK o \in Workload[c][l.calls + 1] :
          Becomes(c, [Idle(l.calls + 1, o, NoAnswer) EXCEPT
                        !.pc = IF o.op = "read" THEN "readPrime" ELSE "writePrime"])
    BY <1>1, <1>8 DEF Begin
  <2>2. o \in Ops /\ l.calls + 1 \in Nat
    BY <1>1, <1>2, <1>8, <2>1, WorkloadType DEF Begin, Call
  <2>. QED
    BY <1>2, <1>4, <1>7, <2>1, <2>2, BeginInv
<1>9. CASE ReadSlot(c)
  <2>1. PICK m : m = [l EXCEPT !.probe =
                       Examined(@, slot[<<NodeOf(l), KindOf(l), ReadIndex(l)>>],
                                ReadIndex(l), l.op.key)]
    OBVIOUS
  <2>2. l.pc \in Probing /\ ~ Over(l) /\ Becomes(c, m)
    BY <1>1, <1>9, <2>1 DEF ReadSlot
  <2>. QED
    BY <1>1, <1>2, <1>4, <1>7, <2>1, <2>2, ReadSlotInv
<1>10. CASE NoCandidate(c)
  <2>1. CASE l.pc = "vote"
    BY <1>1, <1>2, <1>4, <1>7, <1>10, <2>1, FailInv DEF NoCandidate
  <2>2. CASE l.pc = "repair"
    BY <1>1, <1>2, <1>4, <1>7, <1>10, <2>2, NextRepairInv DEF NoCandidate
  <2>3. CASE l.pc = "refresh"
    BY <1>1, <1>2, <1>4, <1>7, <1>10, <2>3, RefreshedInv DEF NoCandidate
  <2>. QED
    BY <1>1, <1>10, <2>1, <2>2, <2>3 DEF NoCandidate
<1>11. CASE ReadPrime(c)
  <2>1. PICK m : m = IF Full(l) THEN Fail(l)
                     ELSE LET n == [l EXCEPT !.prime = l.probe]
                          IN IF CacheOn THEN Go(n, "readCache") ELSE FromPrime(n)
    OBVIOUS
  <2>2. l.pc = "readPrime" /\ Over(l) /\ Becomes(c, m)
    BY <1>1, <1>11, <2>1 DEF ReadPrime
  <2>. QED
    BY <1>1, <1>2, <1>4, <1>7, <2>1, <2>2, ReadPrimeInv
<1>12. CASE ReadCache(c)
  <2>1. PICK m : m = IF ~ Full(l) /\ CacheConsistent(l)
                     THEN Return(l, "value", l.probe.slot) ELSE FromPrime(l)
    OBVIOUS
  <2>2. l.pc = "readCache" /\ Becomes(c, m)
    BY <1>1, <1>12, <2>1 DEF ReadCache
  <2>. QED
    BY <1>1, <1>2, <1>4, <1>7, <2>1, <2>2, ReadCacheInv
<1>13. CASE Prepare(c)
  <2>1. PICK m : m = Prepared(l)
    OBVIOUS
  <2>2. l.pc = "writePrime" /\ Over(l) /\ Becomes(c, m)
    BY <1>1, <1>13, <2>1 DEF Prepare, Prepared
  <2>. QED
    BY <1>1, <1>2, <1>4, <1>7, <2>1, <2>2, PrepareInv
<1>14. CASE EvaluateVotes(c)
  <2>1. PICK m : m = IF Rule(l.votes, Backups, l.prop.tie) = 0
                     THEN Return(l, "lost", l.prop) ELSE Go(l, "commit")
    OBVIOUS
  <2>2. l.pc = "evaluate" /\ Becomes(c, m)
    BY <1>1, <1>14, <2>1 DEF EvaluateVotes
  <2>. QED
    BY <1>1, <1>2, <1>4, <1>7, <2>1, <2>2, EvaluateInv
<1>. QED
  BY <1>8, <1>9, <1>10, <1>11, <1>12, <1>13, <1>14

(* The steps that fail *)
LEMMA FailureStep ==
  ASSUME IInv, NEW c \in Clients, ReadFails(c) \/ CommitFails(c) \/ Crash(c)
  PROVE  IInv'
<1>1. PICK l \in Call : l = cn[c] /\ CallInv(l)
  BY DEF IInv, TypeOK, Inv
<1>2. /\ TypeOK /\ InstalledInv /\ faults \in Nat /\ fresh \in [Clients -> SUBSET Slot]
      /\ stray \subseteq Request /\ cn \in [Clients -> Call]
  BY DEF IInv, Inv, TypeOK
<1>3. /\ config' = config /\ slot' = slot /\ installed' = installed
      /\ faults' = faults + 1 /\ evictions' = evictions /\ cur' = cur /\ fresh' = fresh
      /\ ~ Direct
  BY <1>2, ConfigType DEF ReadFails, CommitFails, Crash, history, TypeOK
<1>4. Grows
  BY <1>2, <1>3, ClearsGrows DEF TypeOK, Clears
<1>5. ~ l.half
  BY <1>1 DEF ReadFails, CommitFails, Crash, CallInv, ControlOK, Committing, Probing
<1>6. ASSUME Committing(l), NEW s \in Strays(l)
      PROVE  /\ s \subseteq Request /\ stray \subseteq s
             /\ \A r \in s \ stray : ~ r.half /\ Justified(r.to, r.compare, r.prop)
  <2>1. /\ Justified(CommitTo(l), CompareTo(l), l.prop) /\ CompareTo(l) \in Nat
        /\ l.prop \in Slot
    BY <1>1, <1>2, <1>6, CommitJustified DEF Call
  <2>2. PICK q : q = [to |-> CommitTo(l), compare |-> CompareTo(l), prop |-> l.prop,
                     half |-> FALSE]
    OBVIOUS
  <2>3. q \in Request /\ ~ q.half /\ Justified(q.to, q.compare, q.prop)
    BY <2>1, <2>2 DEF Request, Justified
  <2>4. s = stray \/ s = stray \cup {q}
    BY <1>6, <2>2 DEF Strays
  <2>. QED
    BY <1>2, <2>3, <2>4
<1>7. /\ stray' \subseteq Request /\ stray \subseteq stray'
      /\ \A r \in stray' \ stray : ~ r.half /\ Justified(r.to, r.compare, r.prop)
  <2>1. CASE stray' = stray
    BY <1>2, <2>1
  <2>2. CASE Committing(l) /\ stray' \in Strays(l)
    BY <1>6, <2>2
  <2>. QED
    BY <1>1, <2>1, <2>2 DEF ReadFails, CommitFails, Crash
<1>8. ASSUME NEW m \in Call, CallInv(m)', ~ m.half, Becomes(c, m)
      PROVE  IInv'
  <2>1. faults' \in Nat /\ fresh' \in [Clients -> SUBSET Slot]
    BY <1>2, <1>3
  <2>. QED
    BY <1>1, <1>3, <1>5, <1>7, <1>8, <2>1, QuietInv DEF Becomes
<1>9. CASE ReadFails(c) \/ CommitFails(c)
  <2>1. PICK m : m = Failed(l)
    OBVIOUS
  <2>2. Becomes(c, m)
    BY <1>1, <1>9, <2>1 DEF ReadFails, CommitFails
  <2>. QED
    BY <1>1, <1>2, <1>4, <1>8, <2>1, <2>2, FailedInv
<1>10. CASE Crash(c)
  <2>1. PICK m : m = Go(l, "down")
    OBVIOUS
  <2>2. Becomes(c, m)
    BY <1>1, <1>10, <2>1 DEF Crash
  <2>. QED
    BY <1>1, <1>2, <1>4, <1>8, <2>1, <2>2, CrashInv
<1>. QED
  BY <1>9, <1>10

(* A step of a commit: what it leaves behind follows from the invariants of *)
(* the slots and from what becomes of the call. *)
LEMMA CommitInv ==
  ASSUME IInv, NEW to, NEW compare \in Nat, NEW prop \in Slot,
         Justified(to, compare, prop), Write(to, compare, prop),
         cn' \in [Clients -> Call], (\A d \in Clients : CallInv(cn[d]))', RingInv',
         stray' \subseteq Request, \A r \in stray' \ stray : ~ Direct /\ Justified(r.to, r.compare, r.prop),
         faults' = faults, evictions' \in Nat,
         cur' \in [Keys -> Slot], fresh' \in [Clients -> SUBSET Slot]
  PROVE  IInv'
<1>1. TypeOK /\ InstalledInv /\ StrayInv /\ stray \subseteq Request /\ faults \in Nat
  BY DEF IInv, Inv, TypeOK
<1>2. Grows
  BY <1>1, WriteGrows
<1>3. installed' \subseteq [at : PrimeSlots, prop : Slot]
  <2>1. to[2] = "PRIME" => to \in PrimeSlots
    BY <1>1 DEF Justified, PrimeSlots, TypeOK
  <2>. QED
    BY <1>1, <2>1 DEF Write, TypeOK
<1>4. TypeOK'
  BY <1>1, <1>2, <1>3, TypesStay DEF Grows
<1>5. InstalledInv' /\ KeyedInv' /\ PlacedInv' /\ BackupAtMostOneAhead'
  BY <1>1, WriteInv DEF IInv, Inv
<1>6. StrayInv'
  BY <1>1, <1>2, StraysStay
<1>. QED
  BY <1>4, <1>5, <1>6 DEF IInv, Inv

(* The body of a commit *)
LEMMA BodyStep ==
  ASSUME IInv, NEW c \in Clients, CommitBody(c)
  PROVE  IInv'
<1>1. PICK l \in Call : l = cn[c] /\ CallInv(l)
  BY DEF IInv, TypeOK, Inv
<1>2. /\ TypeOK /\ InstalledInv /\ RingInv /\ \A d \in Clients : CallInv(cn[d])
      /\ cur \in [Keys -> Slot] /\ fresh \in [Clients -> SUBSET Slot] /\ evictions \in Nat
      /\ cn \in [Clients -> Call] /\ stray \subseteq Request
  BY DEF IInv, Inv, TypeOK
<1>3. /\ Committing(l) /\ config' = config /\ installed' = installed /\ stray' = stray
      /\ faults' = faults /\ evictions' = evictions /\ cur' = cur /\ fresh' = fresh
      /\ slot' = [slot EXCEPT ![CommitTo(l)] = WithBody(@, l.prop)]
      /\ ~ Direct => ~ Locked(NodeOf(l)) /\ Matches(l)
  BY <1>1 DEF CommitBody, others, history
<1>4. PICK m : m = [l EXCEPT !.half = TRUE]
  OBVIOUS
<1>5. cn' = [cn EXCEPT ![c] = m]
  BY <1>1, <1>4 DEF CommitBody, Becomes
<1>6. Justified(CommitTo(l), CompareTo(l), l.prop) /\ CompareTo(l) \in Nat /\ l.prop \in Slot
  BY <1>1, <1>2, <1>3, CommitJustified DEF Call
<1>7. Write(CommitTo(l), CompareTo(l), l.prop)
  BY <1>3 DEF Write
<1>8. Grows
  BY <1>2, <1>6, <1>7, WriteGrows
<1>9. m \in Call /\ CallInv(m)'
  BY <1>1, <1>2, <1>3, <1>4, <1>8, HalfInv
<1>10. cn' \in [Clients -> Call] /\ (\A d \in Clients : CallInv(cn[d]))'
  BY <1>2, <1>5, <1>8, <1>9, CallsStay
<1>11. RingInv'
  <2>1. CASE Direct
    BY <1>3, <2>1, ConfigStays DEF RingInv
  <2>2. CASE ~ Direct
    <3>1. cn' = [cn EXCEPT ![c] = [@ EXCEPT !.half = TRUE]]
      BY <1>1, <1>2, <1>4, <1>5
    <3>. QED
      BY <1>1, <1>2, <1>3, <2>2, <3>1, BodyRing
  <2>. QED
    BY <2>1, <2>2
<1>. QED
  BY <1>2, <1>3, <1>6, <1>7, <1>10, <1>11, CommitInv

(* The guard of a commit is refused. *)
LEMMA RejectedStep ==
  ASSUME IInv, NEW c \in Clients, Committing(cn[c]), Rejected(cn[c]),
         config' = config, installed' = installed, cur' = cur, fresh' = fresh,
         stray' = stray, faults' = faults, evictions' = evictions,
         NEW m \in Call, CallInv(m)', ~ m.half, Becomes(c, m)
  PROVE  IInv'
<1>1. slot' = slot /\ (~ Direct => ~ cn[c].half)
  BY DEF Rejected
<1>2. stray' \subseteq Request /\ faults' \in Nat /\ fresh' \in [Clients -> SUBSET Slot]
  BY DEF IInv, TypeOK
<1>. QED
  BY <1>1, <1>2, QuietInv DEF Becomes

(* The guard of a commit is written. *)
LEMMA AcceptedStep ==
  ASSUME IInv, NEW c \in Clients, Committing(cn[c]), Accepted(cn[c]),
         config' = config,
         installed' = IF KindOf(cn[c]) = "PRIME"
                      THEN installed \cup {[at |-> CommitTo(cn[c]), prop |-> cn[c].prop]}
                      ELSE installed,
         cur' \in [Keys -> Slot], fresh' \in [Clients -> SUBSET Slot],
         stray' = stray, faults' = faults, evictions' = evictions,
         NEW m \in Call, CallInv(m)', ~ m.half, Becomes(c, m)
  PROVE  IInv'
<1>1. PICK l \in Call : l = cn[c] /\ CallInv(l)
  BY DEF IInv, TypeOK, Inv
<1>2. /\ TypeOK /\ InstalledInv /\ RingInv /\ \A d \in Clients : CallInv(cn[d])
      /\ evictions \in Nat /\ cn \in [Clients -> Call] /\ stray \subseteq Request
  BY DEF IInv, Inv, TypeOK
<1> DEFINE to == CommitTo(l)
<1>3. /\ Justified(to, CompareTo(l), l.prop) /\ CompareTo(l) \in Nat /\ l.prop \in Slot
      /\ to[1] = NodeOf(l) /\ to[2] = KindOf(l)
  BY <1>1, <1>2, CommitJustified DEF Call
<1>4. /\ l.half /\ slot[to].guard = CompareTo(l)
      /\ slot' = [slot EXCEPT ![to].guard = l.prop.visible]
  BY <1>1 DEF Accepted, Matches
<1>5. Write(to, CompareTo(l), l.prop)
  BY <1>1, <1>3, <1>4 DEF Write
<1>6. Grows
  BY <1>2, <1>3, <1>5, WriteGrows
<1>7. /\ cn' \in [Clients -> Call] /\ (\A d \in Clients : CallInv(cn[d]))'
      /\ cn'[c] = m /\ \A d \in Clients \ {c} : cn'[d] = cn[d]
  BY <1>2, <1>6, CallsStay DEF Becomes
<1>8. RingInv'
  <2>1. CASE Direct
    BY <2>1, ConfigStays DEF RingInv
  <2>2. CASE ~ Direct
    <3>1. slot[to] = [l.prop EXCEPT !.guard = CompareTo(l)]
      BY <1>1, <1>2, <1>4, <2>2 DEF RingInv, LockInv
    <3>2. to \in Locations /\ slot \in [Locations -> Slot]
      BY <1>2, <1>3 DEF Justified, TypeOK
    <3>3. slot' = [slot EXCEPT ![to] = [l.prop EXCEPT !.guard = l.prop.visible]]
      BY <1>3, <1>4, <3>1, <3>2 DEF Slot
    <3>4. \A d \in Clients \ {c} : cn[d].half => NodeOf(cn[d]) # to[1]
      BY <1>1, <1>2, <1>3, <1>4, <2>2 DEF RingInv, LockInv
    <3>5. \A d \in Clients : cn'[d].half => cn'[d] = cn[d] /\ NodeOf(cn[d]) # to[1]
      BY <1>7, <3>4
    <3>6. \A d \in Clients : cn[d].half /\ CommitTo(cn[d]) # to => cn'[d] = cn[d]
      BY <1>1, <1>7
    <3>7. l.prop.visible \in Nat /\ (to[2] = "PRIME" => l.prop.visible = l.prop.guard)
      BY <1>3 DEF Justified, Slot
    <3>8. /\ to[2] = "PRIME" => installed' = installed \cup {[at |-> to, prop |-> l.prop]}
          /\ to[2] # "PRIME" => installed' = installed
      BY <1>1, <1>3
    <3>9. PICK at, compare, prop :
            at = to /\ compare = CompareTo(l) /\ prop = l.prop
      OBVIOUS
    <3>10. PICK guard \in Nat : guard = l.prop.visible
      BY <3>7
    <3>11. compare \in Nat /\ prop \in Slot /\ Justified(at, compare, prop)
      BY <1>3, <3>9
    <3>12. Write(at, compare, prop) /\ slot[at].guard = compare
      BY <1>4, <1>5, <3>9
    <3>13. slot' = [slot EXCEPT ![at] = [prop EXCEPT !.guard = guard]]
      BY <3>3, <3>9, <3>10
    <3>15. \A r \in stray : r.half => r.to[1] # to[1]
      BY <1>1, <1>2, <1>3, <1>4, <2>2 DEF RingInv, StrayLockInv
    <3>14. Commits(at, compare, prop, guard)
      BY <3>5, <3>6, <3>7, <3>8, <3>9, <3>10, <3>12, <3>13, <3>15 DEF Commits
    <3> HIDE DEF to
    <3>. QED
      BY <1>2, <2>2, <3>11, <3>14, CommitRing
  <2>. QED
    BY <2>1, <2>2
<1>. QED
  BY <1>2, <1>3, <1>5, <1>7, <1>8, CommitInv

(* The calls for which a committed slot is fresh *)
LEMMA InstallType ==
  ASSUME TypeOK, NEW to, NEW prop \in Slot, prop.key \in Keys, Install(to, prop)
  PROVE  cur' \in [Keys -> Slot] /\ fresh' \in [Clients -> SUBSET Slot]
<1>1. cur' \in [Keys -> Slot]
  BY DEF Install, TypeOK
<1>2. ASSUME NEW d \in Clients PROVE fresh'[d] \in SUBSET Slot
  BY DEF Install, TypeOK
<1>3. fresh' = [d \in Clients |-> fresh'[d]]
  BY DEF Install
<1>. QED
  BY <1>1, <1>2, <1>3

(* What the answer to a commit tells of the variables *)
LEMMA ResolvedGrows ==
  ASSUME IInv, NEW l \in Call, CallInv(l), Committing(l), config' = config,
         \/ Rejected(l) /\ installed' = installed
         \/ Accepted(l) /\ installed' = IF KindOf(l) = "PRIME"
                                        THEN installed \cup {[at |-> CommitTo(l), prop |-> l.prop]}
                                        ELSE installed
  PROVE  Grows
<1>1. TypeOK /\ InstalledInv
  BY DEF IInv, Inv
<1>2. CASE Rejected(l) /\ installed' = installed
  BY <1>1, <1>2, ClearsGrows DEF Clears, Rejected, TypeOK
<1>3. CASE Accepted(l) /\ installed' = IF KindOf(l) = "PRIME"
                                       THEN installed \cup {[at |-> CommitTo(l), prop |-> l.prop]}
                                       ELSE installed
  <2>1. /\ Justified(CommitTo(l), CompareTo(l), l.prop) /\ CompareTo(l) \in Nat
        /\ CommitTo(l)[2] = KindOf(l)
    BY <1>1, CommitJustified
  <2>2. l.prop \in Slot
    BY DEF Call
  <2>3. Write(CommitTo(l), CompareTo(l), l.prop)
    BY <1>3, <2>1 DEF Write, Accepted, Matches
  <2>. QED
    BY <1>1, <2>1, <2>2, <2>3, WriteGrows
<1>. QED
  BY <1>2, <1>3

(* The answer to a commit of a backup or of the cache *)
LEMMA BackupStep ==
  ASSUME IInv, NEW c \in Clients, CommitBackup(c) \/ RepairBackup(c) \/ RefreshCache(c)
  PROVE  IInv'
<1>1. PICK l \in Call : l = cn[c] /\ CallInv(l)
  BY DEF IInv, TypeOK, Inv
<1>2. TypeOK /\ cur \in [Keys -> Slot] /\ fresh \in [Clients -> SUBSET Slot]
  BY DEF IInv, TypeOK
<1>3. /\ l.pc \in {"vote", "repair", "refresh"} /\ KindOf(l) # "PRIME"
      /\ config' = config /\ stray' = stray /\ faults' = faults /\ evictions' = evictions
      /\ installed' = installed /\ cur' = cur /\ fresh' = fresh
  BY <1>1 DEF CommitBackup, RepairBackup, RefreshCache, others, history, KindOf
<1>4. Committing(l) /\ (Accepted(l) \/ Rejected(l))
  BY <1>1 DEF CommitBackup, RepairBackup, RefreshCache, Resolved
<1>5. Grows
  BY <1>1, <1>3, <1>4, ResolvedGrows
<1>6. ASSUME NEW m \in Call, CallInv(m)', ~ m.half, Becomes(c, m)
      PROVE  IInv'
  <2>1. CASE Accepted(l)
    BY <1>1, <1>2, <1>3, <1>4, <1>6, <2>1, AcceptedStep
  <2>2. CASE Rejected(l)
    BY <1>1, <1>2, <1>3, <1>4, <1>6, <2>2, RejectedStep
  <2>. QED
    BY <1>4, <2>1, <2>2
<1>7. CASE CommitBackup(c)
  <2>1. PICK vote \in Vote : Becomes(c, NextVote(l, vote))
    <3>1. l.probe.slot.tie \in Nat
      BY DEF Call, Probe, Slot
    <3>2. /\ [ok |-> TRUE, tie |-> 0] \in Vote
          /\ [ok |-> FALSE, tie |-> l.probe.slot.tie] \in Vote
      BY <3>1 DEF Vote
    <3>3. \E accepted \in BOOLEAN :
            Becomes(c, NextVote(l, IF accepted THEN [ok |-> TRUE, tie |-> 0]
                                   ELSE [ok |-> FALSE, tie |-> l.probe.slot.tie]))
      BY <1>1, <1>7 DEF CommitBackup
    <3>. QED
      BY <3>2, <3>3
  <2>2. PICK m : m = NextVote(l, vote)
    OBVIOUS
  <2>3. m \in Call /\ CallInv(m)' /\ ~ m.half
    BY <1>1, <1>2, <1>5, <1>7, <2>2, NextVoteInv DEF CommitBackup
  <2>. QED
    BY <1>6, <2>1, <2>2, <2>3
<1>8. CASE RepairBackup(c)
  <2>1. PICK m : m = RepairFrom(l, l.turn + 1)
    OBVIOUS
  <2>2. Becomes(c, m) /\ l.pc = "repair"
    BY <1>1, <1>8, <2>1 DEF RepairBackup
  <2>3. m \in Call /\ CallInv(m)' /\ ~ m.half
    BY <1>1, <1>2, <1>5, <2>1, <2>2, NextRepairInv
  <2>. QED
    BY <1>6, <2>2, <2>3
<1>9. CASE RefreshCache(c)
  <2>1. PICK m : m = Finish(l)
    OBVIOUS
  <2>2. Becomes(c, m) /\ l.pc = "refresh"
    BY <1>1, <1>9, <2>1 DEF RefreshCache
  <2>3. m \in Call /\ CallInv(m)' /\ ~ m.half
    BY <1>1, <1>2, <1>5, <2>1, <2>2, RefreshedInv
  <2>. QED
    BY <1>6, <2>2, <2>3
<1>. QED
  BY <1>7, <1>8, <1>9

(* The answer to the commit of the primary *)
LEMMA PrimeStep ==
  ASSUME IInv, NEW c \in Clients, CommitPrime(c)
  PROVE  IInv'
<1>1. PICK l \in Call : l = cn[c] /\ CallInv(l)
  BY DEF IInv, TypeOK, Inv
<1>2. TypeOK /\ cur \in [Keys -> Slot] /\ fresh \in [Clients -> SUBSET Slot]
  BY DEF IInv, TypeOK
<1>3. /\ l.pc = "commit" /\ KindOf(l) = "PRIME" /\ l.prop \in Slot
      /\ config' = config /\ stray' = stray /\ faults' = faults /\ evictions' = evictions
  BY <1>1 DEF CommitPrime, others, KindOf, Call
<1>4. CASE Accepted(l) /\ Install(CommitTo(l), l.prop) /\ Becomes(c, RepairFrom(l, 1))
  <2>1. Committing(l) /\ installed' = installed \cup {[at |-> CommitTo(l), prop |-> l.prop]}
    BY <1>3, <1>4 DEF Committing, Install
  <2>2. Grows
    BY <1>1, <1>3, <1>4, <2>1, ResolvedGrows
  <2>3. Committed(l.prop)'
    <3>1. PICK e : e = [at |-> CommitTo(l), prop |-> l.prop]
      OBVIOUS
    <3>2. e \in installed' /\ e.prop = l.prop
      BY <2>1, <3>1
    <3>. QED
      BY <3>2 DEF Committed
  <2>4. /\ PrimeOK(l) /\ l.op.op # "read" /\ l.prime.valid
        /\ l.prop = Proposal(l.op, l.prime.slot.guard)
        /\ l.op.op = "update" => l.prime.found /\ Present(l.prime.slot, l.op.key)
    BY <1>1, <1>3 DEF CallInv, ControlOK, ProposalOK
  <2>5. AnswerOK(l)'
    BY <1>1, <1>2, <2>2, CallStays DEF CallInv
  <2>6. PICK m : m = RepairFrom(l, 1)
    OBVIOUS
  <2>7. m \in Call /\ CallInv(m)' /\ ~ m.half
    <3>1. 1 \in Nat
      OBVIOUS
    <3>. QED
      BY <1>2, <2>2, <2>3, <2>4, <2>5, <2>6, <3>1, RepairInv
  <2>8. Becomes(c, m)
    BY <1>4, <2>6
  <2>9. cur' \in [Keys -> Slot] /\ fresh' \in [Clients -> SUBSET Slot]
    <3>1. l.prop.key \in Keys
      BY <1>1, <1>2, <2>1, CommitJustified DEF IInv, Inv, Justified
    <3>. QED
      BY <1>2, <1>3, <1>4, <3>1, InstallType
  <2>. QED
    BY <1>1, <1>3, <1>4, <2>1, <2>7, <2>8, <2>9, AcceptedStep
<1>5. CASE Rejected(l) /\ UNCHANGED history /\ Becomes(c, Fail(l))
  <2>1. Committing(l) /\ installed' = installed /\ cur' = cur /\ fresh' = fresh
    BY <1>3, <1>5 DEF Committing, history
  <2>2. Grows
    BY <1>1, <1>3, <1>5, <2>1, ResolvedGrows
  <2>3. PICK m : m = Fail(l)
    OBVIOUS
  <2>4. m \in Call /\ CallInv(m)' /\ ~ m.half
    BY <1>2, <2>2, <2>3, FailInv
  <2>5. Becomes(c, m)
    BY <1>5, <2>3
  <2>. QED
    BY <1>1, <1>3, <1>5, <2>1, <2>4, <2>5, RejectedStep
<1>6. \/ Accepted(l) /\ Install(CommitTo(l), l.prop) /\ Becomes(c, RepairFrom(l, 1))
      \/ Rejected(l) /\ UNCHANGED history /\ Becomes(c, Fail(l))
  <2>1. \E accepted \in BOOLEAN :
          /\ Resolved(l, accepted)
          /\ IF accepted
             THEN Install(CommitTo(l), l.prop) /\ Becomes(c, RepairFrom(l, 1))
             ELSE UNCHANGED history /\ Becomes(c, Fail(l))
    BY <1>1 DEF CommitPrime
  <2>. QED
    BY <2>1 DEF Resolved
<1>. QED
  BY <1>4, <1>5, <1>6

(* A step of a request whose caller has given up *)
LEMMA StrayStep ==
  ASSUME IInv, ExecuteStray
  PROVE  IInv'
<1>1. /\ TypeOK /\ InstalledInv /\ StrayInv /\ RingInv /\ \A d \in Clients : CallInv(cn[d])
      /\ cn \in [Clients -> Call] /\ cur \in [Keys -> Slot] /\ slot \in [Locations -> Slot]
      /\ fresh \in [Clients -> SUBSET Slot] /\ evictions \in Nat /\ faults \in Nat
      /\ stray \subseteq Request
  BY DEF IInv, Inv, TypeOK
<1>2. PICK r \in stray : StrayBody(r) \/ StrayGuard(r)
  BY DEF ExecuteStray
<1>3. PICK to, compare, prop : to = r.to /\ compare = r.compare /\ prop = r.prop
  OBVIOUS
<1>4. /\ ~ Direct /\ compare \in Nat /\ prop \in Slot /\ Justified(to, compare, prop)
      /\ to \in Locations /\ r \in Request
  BY <1>1, <1>3 DEF StrayInv, Request
<1>5. config' = config /\ cn' = cn /\ faults' = faults /\ evictions' = evictions
  BY DEF ExecuteStray
<1>6. ASSUME Grows PROVE (\A d \in Clients : CallInv(cn[d]))'
  <2>1. ASSUME NEW d \in Clients PROVE CallInv(cn[d])'
    <3>1. PICK l \in Call : l = cn[d] /\ CallInv(l) /\ cn'[d] = l
      BY <1>1, <1>5
    <3>2. CallInv(l)'
      BY <1>1, <1>6, <3>1, CallStays
    <3>. QED
      BY <3>1, <3>2
  <2>. QED
    BY <2>1
<1>7. CASE StrayBody(r) /\ slot[to].guard # compare
  <2>1. /\ slot' = slot /\ installed' = installed /\ cur' = cur /\ fresh' = fresh
        /\ stray' = stray \ {r} /\ ~ r.half
    BY <1>3, <1>7 DEF StrayBody, history
  <2>2. Clears
    BY <1>1, <1>5, <2>1 DEF Clears
  <2>3. Grows
    BY <1>1, <2>2, ClearsGrows
  <2>4. StrayInv'
    BY <1>1, <2>1, <2>3, StraysStay
  <2>5. TypeOK'
    BY <1>1, <1>5, <2>1, TypesStay DEF TypeOK, PrimeSlots
  <2>6. RingInv'
    <3>1. stray' \subseteq Request /\ \A q \in stray : q.half => q \in stray'
      BY <1>1, <2>1
    <3>. QED
      BY <1>1, <1>5, <2>1, <2>2, <3>1, ClearsRing
  <2>7. InstalledInv' /\ KeyedInv' /\ PlacedInv' /\ BackupAtMostOneAhead'
    BY <1>1, <2>2, ClearsInv DEF IInv, Inv
  <2>. QED
    BY <1>6, <2>3, <2>4, <2>5, <2>6, <2>7 DEF IInv, Inv
<1>8. CASE StrayBody(r) /\ slot[to].guard = compare
  <2>1. PICK m : m = [r EXCEPT !.half = TRUE]
    OBVIOUS
  <2>2. /\ slot' = [slot EXCEPT ![to] = WithBody(@, prop)]
        /\ installed' = installed /\ cur' = cur /\ fresh' = fresh
        /\ stray' = (stray \ {r}) \cup {m} /\ ~ r.half /\ ~ Locked(r.to[1])
    BY <1>3, <1>8, <2>1 DEF StrayBody, history
  <2>3. /\ m \in Request /\ m.to = to /\ m.compare = compare /\ m.prop = prop
    BY <1>3, <1>4, <2>1 DEF Request
  <2>4. /\ stray' \subseteq Request
        /\ \A q \in stray' \ stray : ~ Direct /\ Justified(q.to, q.compare, q.prop)
    BY <1>1, <1>4, <2>2, <2>3
  <2>5. Write(to, compare, prop)
    BY <1>5, <2>2 DEF Write
  <2>6. (\A d \in Clients : CallInv(cn[d]))'
    BY <1>1, <1>4, <1>6, <2>5, WriteGrows
  <2>7. RingInv'
    BY <1>1, <1>3, <1>4, <1>5, <1>8, <2>1, <2>2, StrayBodyRing
  <2>. QED
    BY <1>1, <1>4, <1>5, <2>2, <2>4, <2>5, <2>6, <2>7, CommitInv
<1>9. CASE StrayGuard(r)
  <2>1. /\ r.half /\ slot' = [slot EXCEPT ![to].guard = prop.visible] /\ stray' = stray \ {r}
        /\ IF to[2] = "PRIME" THEN Install(to, prop) ELSE UNCHANGED history
    BY <1>3, <1>9 DEF StrayGuard
  <2>2. slot[to] = [prop EXCEPT !.guard = compare]
    BY <1>1, <1>3, <1>4, <2>1 DEF RingInv, StrayLockInv
  <2>3. PICK guard \in Nat : guard = prop.visible
    BY <1>4 DEF Slot
  <2>4. slot[to].guard = compare /\ slot' = [slot EXCEPT ![to] = [prop EXCEPT !.guard = guard]]
    BY <1>1, <1>4, <2>1, <2>2, <2>3 DEF Slot
  <2>5. installed' = IF to[2] = "PRIME" THEN installed \cup {[at |-> to, prop |-> prop]}
                     ELSE installed
    BY <2>1 DEF Install, history
  <2>6. Write(to, compare, prop)
    BY <1>5, <2>1, <2>4, <2>5 DEF Write
  <2>7. (\A d \in Clients : CallInv(cn[d]))'
    BY <1>1, <1>4, <1>6, <2>6, WriteGrows
  <2>8. cur' \in [Keys -> Slot] /\ fresh' \in [Clients -> SUBSET Slot]
    <3>1. CASE to[2] = "PRIME"
      <4>1. Install(to, prop) /\ prop.key \in Keys
        BY <1>4, <2>1, <3>1 DEF Justified
      <4>. QED
        BY <1>1, <1>4, <4>1, InstallType
    <3>2. CASE to[2] # "PRIME"
      BY <1>1, <2>1, <3>2 DEF history
    <3>. QED
      BY <3>1, <3>2
  <2>9. RingInv'
    <3>1. \A d \in Clients : cn[d].half => NodeOf(cn[d]) # to[1]
      BY <1>1, <1>3, <1>4, <2>1 DEF RingInv, StrayLockInv
    <3>2. /\ \A q \in stray' : q.half => q \in stray /\ q.to[1] # to[1]
          /\ \A q \in stray : q.half /\ q.to # to => q \in stray'
      BY <1>1, <1>3, <1>4, <2>1 DEF RingInv, StrayLockInv
    <3>3. \A d \in Clients : cn'[d] = cn[d]
      BY <1>5
    <3>4. to[2] = "PRIME" => guard = prop.guard
      BY <1>4, <2>3 DEF Justified
    <3>5. Commits(to, compare, prop, guard)
      BY <2>4, <2>5, <2>6, <3>1, <3>2, <3>3, <3>4 DEF Commits
    <3>. QED
      BY <1>1, <1>4, <3>5, CommitRing
  <2>10. stray' \subseteq Request /\ \A q \in stray' \ stray : FALSE
    BY <1>1, <2>1
  <2>. QED
    BY <1>1, <1>4, <1>5, <2>6, <2>7, <2>8, <2>9, <2>10, CommitInv
<1>. QED
  BY <1>2, <1>3, <1>7, <1>8, <1>9

(* An eviction pass, on a node whose lock is free *)
LEMMA EvictStep ==
  ASSUME IInv, NEW n \in Nodes, Evict(n)
  PROVE  IInv'
<1>1. /\ TypeOK /\ InstalledInv /\ StrayInv /\ RingInv /\ \A d \in Clients : CallInv(cn[d])
      /\ cn \in [Clients -> Call] /\ evictions \in Nat /\ slot \in [Locations -> Slot]
      /\ stray \subseteq Request
  BY DEF IInv, Inv, TypeOK
<1>2. PICK gone \in SUBSET {l \in CacheSlots : l[1] = n /\ slot[l].flag # "none"} :
        slot' = [l \in DOMAIN slot |-> IF l \in gone THEN ZeroSlot ELSE slot[l]]
  BY DEF Evict
<1>3. /\ config' = config /\ cn' = cn /\ stray' = stray /\ faults' = faults
      /\ evictions' = evictions + 1 /\ installed' = installed /\ cur' = cur /\ fresh' = fresh
      /\ ~ Locked(n)
  BY DEF Evict, history
<1>4. slot' \in [Locations -> Slot]
  BY <1>1, <1>2, BasicTypes
<1>5. \A l \in Locations :
        slot'[l] = slot[l] \/ (l[2] = "CACHE" /\ l[1] = n /\ slot'[l] = ZeroSlot)
  BY <1>1, <1>2 DEF CacheSlots
<1>6. Clears
  BY <1>3, <1>4, <1>5 DEF Clears
<1>7. Grows
  BY <1>1, <1>6, ClearsGrows
<1>8. (\A d \in Clients : CallInv(cn[d]))'
  <2>1. ASSUME NEW d \in Clients PROVE CallInv(cn[d])'
    <3>1. PICK l \in Call : l = cn[d] /\ CallInv(l) /\ cn'[d] = l
      BY <1>1, <1>3
    <3>2. CallInv(l)'
      BY <1>1, <1>7, <3>1, CallStays
    <3>. QED
      BY <3>1, <3>2
  <2>. QED
    BY <2>1
<1>9. RingInv'
  <2>1. \A l \in Locations : slot'[l] = slot[l] \/ ~ Locked(l[1])
    BY <1>3, <1>5
  <2>. QED
    BY <1>1, <1>3, <1>6, <2>1, ClearsRing
<1>10. InstalledInv' /\ KeyedInv' /\ PlacedInv' /\ BackupAtMostOneAhead'
  BY <1>1, <1>6, ClearsInv DEF IInv, Inv
<1>11. StrayInv'
  <2>1. stray' \subseteq Request /\ \A r \in stray' \ stray : FALSE
    BY <1>3 DEF IInv, TypeOK
  <2>. QED
    BY <1>1, <1>7, <2>1, StraysStay
<1>12. TypeOK'
  <2>1. PrimeSlots' = PrimeSlots
    BY <1>1, <1>4 DEF PrimeSlots
  <2>. QED
    BY <1>1, <1>3, <1>4, <2>1, TypesStay DEF TypeOK
<1>. QED
  BY <1>8, <1>9, <1>10, <1>11, <1>12 DEF IInv, Inv

-----------------------------------------------------------------------------
(* The inductive invariant holds                                           *)

(* It holds at first. *)
LEMMA InitInv == Init => IInv
<1> SUFFICES ASSUME Init PROVE IInv
  OBVIOUS
<1>1. /\ config \in Configs /\ slot = [l \in Locations |-> ZeroSlot] /\ installed = {}
      /\ stray = {} /\ faults = 0 /\ evictions = 0 /\ cur = [k \in Keys |-> ZeroSlot]
      /\ fresh = [c \in Clients |-> {}]
  BY DEF Init
<1>2. PICK l : l = Idle(0, NoOp, NoAnswer)
  OBVIOUS
<1>3. cn = [c \in Clients |-> l]
  BY <1>2 DEF Init
<1>4. l \in Call
  BY <1>1, <1>2, BasicTypes, IdleType
<1>5. TypeOK
  BY <1>1, <1>3, <1>4, BasicTypes DEF TypeOK
<1>6. /\ l.pc = "idle" /\ l.half = FALSE /\ l.prime = NewProbe /\ l.answer = NoAnswer
  BY <1>2 DEF Idle
<1>7. CallInv(l)
  <2>1. ControlOK(l) /\ ProbeOK(l) /\ ProposalOK(l) /\ CommittedOK(l)
    BY <1>6 DEF ControlOK, ProbeOK, Probing, ProposalOK, CommittedOK
  <2>2. PrimeOK(l)
    BY <1>6 DEF PrimeOK, ChosenPrime, Chosen, NewProbe
  <2>3. AnswerOK(l)
    BY <1>6 DEF AnswerOK, NoAnswer
  <2>. QED
    BY <2>1, <2>2, <2>3 DEF CallInv
<1>8. \A c \in Clients : CallInv(cn[c]) /\ ~ cn[c].half
  BY <1>3, <1>6, <1>7
<1>9. \A p \in DOMAIN slot : p \in Locations /\ slot[p] = ZeroSlot
  BY <1>1
<1>10. StrayInv /\ InstalledInv
  BY <1>1 DEF StrayInv, InstalledInv, OneWinner
<1>11. KeyedInv /\ PlacedInv
  BY <1>1, <1>9 DEF KeyedInv, PlacedInv, PrimeSlots, ZeroSlot
<1>12. BackupAtMostOneAhead
  BY <1>9 DEF BackupAtMostOneAhead, BackupSlots, ZeroSlot
<1>13. LockInv /\ StrayLockInv /\ PrimeInv /\ CacheInv
  BY <1>1, <1>8, <1>9 DEF LockInv, StrayLockInv, PrimeInv, CacheInv, PrimeSlots, CacheSlots, ZeroSlot, Whole
<1>. QED
  BY <1>5, <1>8, <1>10, <1>11, <1>12, <1>13 DEF IInv, Inv, RingInv

(* A step that changes nothing *)
LEMMA StutterStep ==
  ASSUME IInv, UNCHANGED vars
  PROVE  IInv'
<1>1. TypeOK'
  <2>1. PrimeSlots' = PrimeSlots
    BY DEF PrimeSlots, vars
  <2>. QED
    BY <2>1, TypesStay DEF IInv, TypeOK, vars
<1>2. /\ config' = config /\ slot' = slot /\ installed' = installed /\ cn' = cn
      /\ stray' = stray /\ TypeOK /\ InstalledInv /\ RingInv /\ StrayInv
      /\ \A d \in Clients : CallInv(cn[d])
      /\ cn \in [Clients -> Call] /\ slot \in [Locations -> Slot] /\ stray \subseteq Request
  BY DEF vars, IInv, Inv, TypeOK
<1>3. Clears
  BY <1>2 DEF Clears
<1>4. Grows
  BY <1>2, <1>3, ClearsGrows
<1>5. (\A d \in Clients : CallInv(cn[d]))'
  <2>1. ASSUME NEW d \in Clients PROVE CallInv(cn[d])'
    <3>1. PICK l \in Call : l = cn[d] /\ CallInv(l) /\ cn'[d] = l
      BY <1>2
    <3>2. CallInv(l)'
      BY <1>2, <1>4, <3>1, CallStays
    <3>. QED
      BY <3>1, <3>2
  <2>. QED
    BY <2>1
<1>6. RingInv' /\ StrayInv'
  BY <1>2, <1>3, <1>4, ClearsRing, StraysStay
<1>7. InstalledInv' /\ KeyedInv' /\ PlacedInv' /\ BackupAtMostOneAhead'
  BY <1>2, <1>3, ClearsInv DEF IInv, Inv
<1>. QED
  BY <1>1, <1>5, <1>6, <1>7 DEF IInv, Inv

(* Every step preserves it. *)
LEMMA NextInv == IInv /\ [Next]_vars => IInv'
<1> SUFFICES ASSUME IInv, [Next]_vars PROVE IInv'
  OBVIOUS
<1>1. ASSUME NEW c \in Clients,
             Begin(c) \/ Step(c) \/ ReadFails(c) \/ CommitFails(c) \/ Crash(c)
      PROVE  IInv'
  BY <1>1, LocalStep, FailureStep, BodyStep, BackupStep, PrimeStep DEF Step
<1>. QED
  BY <1>1, StrayStep, EvictStep, StutterStep DEF Next, Done

(* The invariant of the key-value protocol, in every deployment *)
THEOREM Invariant == Spec => []IInv
  BY InitInv, NextInv, PTL DEF Spec

-----------------------------------------------------------------------------
(* What follows for the properties                                         *)

(* Every variable has its type, in every deployment. *)
THEOREM TypeCorrect == Spec => []TypeOK
  BY Invariant, PTL DEF IInv

(* Of the proposals that compute nodes make for one epoch of a slot of a    *)
(* primary, at most one is ever committed: on the ring, where the memory   *)
(* node commits under its lock, and with a CAS of the guard (td_commit_slot_at) *)
(* alike, for any number of rivals, faults and abandoned requests.         *)
THEOREM OneWinnerAlways == Spec => []OneWinner
<1>1. IInv => OneWinner
  BY DEF IInv, Inv, InstalledInv
<1>. QED
  BY <1>1, Invariant, PTL

(* Ring path: a write that td_cluster_write_value acknowledged is in the    *)
(* slot it was committed to, or a later epoch has replaced it.             *)
THEOREM AcknowledgedStaysAlways == Spec => []AcknowledgedStays
<1>1. IInv => AcknowledgedStays
  <2>1. SUFFICES ASSUME IInv, ~ Direct, NEW c \in Clients, Writes(c), cn[c].answer.kind = "ok"
                 PROVE  \E e \in installed :
                          /\ e.prop = cn[c].answer.slot
                          /\ \/ slot[e.at] = e.prop
                             \/ slot[e.at].visible > e.prop.visible
    BY DEF AcknowledgedStays, WritesAreAtomic
  <2>2. Committed(cn[c].answer.slot)
    BY <2>1 DEF IInv, Inv, CallInv, AnswerOK, Writes
  <2>. QED
    BY <2>1, <2>2 DEF Committed, IInv, Inv, RingInv, PrimeInv
<1>. QED
  BY <1>1, Invariant, PTL

(* A linear probe (td_probe_slot) for the key of a live slot of a primary   *)
(* meets that slot before an empty one ends it: neither rival insertions,   *)
(* nor reused tombstones, nor half-written bodies open a hole in the chain. *)
THEOREM ReachableAlways == Spec => []Reachable
<1>1. IInv => Reachable
  <2>1. SUFFICES ASSUME IInv, NEW l \in PrimeSlots, slot[l].flag = "valid",
                        NEW i \in 0 .. Count["PRIME"] - 1,
                        \A j \in 0 .. i : IndexOf("PRIME", slot[l].key, j) # l[3]
                 PROVE  ~ IsEmpty(slot[<<l[1], "PRIME", IndexOf("PRIME", slot[l].key, i)>>])
    BY DEF Reachable
  <2>2. Placed(slot[l].key, l) /\ Count["PRIME"] \in Nat
    BY <2>1, ConfigType DEF IInv, Inv, PlacedInv, TypeOK, Kinds
  <2>3. PICK j \in 0 .. Count["PRIME"] - 1 :
          l = PrimeAt(slot[l].key, j) /\ Walked(slot[l].key, j)
    BY <2>2 DEF Placed
  <2>4. l[1] = Node(slot[l].key, 0) /\ l[3] = IndexOf("PRIME", slot[l].key, j)
    BY <2>3 DEF PrimeAt, Home
  <2>5. i < j
    BY <2>1, <2>2, <2>4
  <2>. QED
    BY <2>3, <2>4, <2>5 DEF Walked, PrimeAt, Home
<1>. QED
  BY <1>1, Invariant, PTL

(* A backup never runs more than one epoch ahead of the primary of the key  *)
(* it holds, although the proposals of failed writes stay in it.           *)
THEOREM BackupsFollow == Spec => []BackupAtMostOneAhead
<1>1. IInv => BackupAtMostOneAhead
  BY DEF IInv, Inv
<1>. QED
  BY <1>1, Invariant, PTL

(* Ring path: a whole slot of a cache is a copy of something that was       *)
(* committed to a primary, never a losing proposal: td_refresh_cache_best_effort *)
(* only runs after a commit or with what a reader found in the primary, and *)
(* a request that outlives its caller carries the same slot.               *)
THEOREM CacheHoldsCommits == Spec => []CacheIsCommitted
<1>1. IInv => CacheIsCommitted
  <2>1. SUFFICES ASSUME IInv, ~ Direct, NEW l \in CacheSlots,
                        slot[l].flag # "none", Whole(slot[l])
                 PROVE  \E e \in installed : e.prop = slot[l]
    BY DEF CacheIsCommitted
  <2>2. PICK e \in installed : slot[l] = [e.prop EXCEPT !.guard = slot[l].guard]
    BY <2>1 DEF IInv, Inv, RingInv, CacheInv
  <2>3. e.prop \in Slot /\ e.prop.guard = e.prop.visible
    BY <2>1 DEF IInv, Inv, InstalledInv, TypeOK
  <2>4. slot[l].visible = e.prop.visible
    BY <2>2, <2>3 DEF Slot
  <2>5. e.prop = [e.prop EXCEPT !.guard = slot[l].guard]
    BY <2>1, <2>3, <2>4 DEF Slot, Whole
  <2>. QED
    BY <2>2, <2>5
<1>. QED
  BY <1>1, Invariant, PTL

-----------------------------------------------------------------------------
(* What commits of the ring path replace                                   *)

(* Under the lock of its region a PRIME slot is empty or holds a commit. *)
LEMMA UnlockedPrime ==
  ASSUME IInv, ~ Direct, NEW to \in PrimeSlots, ~ Locked(to[1])
  PROVE  \/ slot[to] = ZeroSlot
         \/ Whole(slot[to]) /\ [at |-> to, prop |-> slot[to]] \in installed
<1>1. PrimeInv
  BY DEF IInv, Inv, RingInv
<1>2. Whole(slot[to])
  <2>1. \A c \in Clients : cn[c].half => CommitTo(cn[c]) # to
    BY DEF Locked, CommitTo
  <2>2. \A r \in stray : r.half => r.to # to
    BY DEF Locked
  <2>. QED
    BY <1>1, <2>1, <2>2 DEF PrimeInv
<1>. QED
  BY <1>1, <1>2 DEF PrimeInv

(* The key of a live slot is the key of what is committed over it. *)
LEMMA SameKey ==
  ASSUME IInv, ~ Direct, NEW to \in PrimeSlots, ~ Locked(to[1]), slot[to].flag = "valid",
         NEW compare, NEW prop, Justified(to, compare, prop), slot[to].guard = compare
  PROVE  prop.key = slot[to].key
<1>1. Whole(slot[to]) /\ [at |-> to, prop |-> slot[to]] \in installed
  BY UnlockedPrime DEF ZeroSlot
<1>2. to[2] = "PRIME" /\ slot[to].visible = compare
  BY <1>1 DEF PrimeSlots, Whole
<1>3. PICK e \in installed : e = [at |-> to, prop |-> slot[to]]
  BY <1>1
<1>. QED
  BY <1>2, <1>3 DEF Justified

(* A step of the ring path keeps the key of a live PRIME slot. *)
LEMMA KeepsKeys ==
  ASSUME IInv, ~ Direct, [Next]_vars, NEW p \in PrimeSlots, slot[p].flag = "valid"
  PROVE  slot'[p].key = slot[p].key
<1>1. /\ TypeOK /\ InstalledInv /\ StrayInv /\ p \in Locations /\ p[2] = "PRIME"
      /\ slot \in [Locations -> Slot] /\ cn \in [Clients -> Call]
      /\ \A d \in Clients : CallInv(cn[d])
  BY DEF IInv, Inv, TypeOK, PrimeSlots
<1>2. CASE slot' = slot
  BY <1>2
<1>3. ASSUME NEW c \in Clients, CommitBody(c)
      PROVE  slot'[p].key = slot[p].key
  <2>1. PICK l \in Call : l = cn[c] /\ CallInv(l)
    BY <1>1
  <2>2. /\ Committing(l) /\ ~ Locked(NodeOf(l)) /\ slot[CommitTo(l)].guard = CompareTo(l)
        /\ slot' = [slot EXCEPT ![CommitTo(l)] = WithBody(@, l.prop)]
    BY <1>3, <2>1 DEF CommitBody, Matches
  <2>3. /\ Justified(CommitTo(l), CompareTo(l), l.prop)
        /\ CommitTo(l)[1] = NodeOf(l) /\ l.prop \in Slot
    BY <1>1, <2>1, <2>2, CommitJustified DEF Call
  <2>4. CASE p = CommitTo(l)
    <3>1. l.prop.key = slot[p].key
      BY <2>2, <2>3, <2>4, SameKey
    <3>2. slot'[p].key = l.prop.key
      BY <1>1, <2>2, <2>3, <2>4 DEF WithBody, Slot
    <3>. QED
      BY <3>1, <3>2
  <2>5. CASE p # CommitTo(l)
    BY <1>1, <2>2, <2>5
  <2>. QED
    BY <2>4, <2>5
<1>4. ASSUME NEW l \in Call, Accepted(l)
      PROVE  slot'[p].key = slot[p].key
  <2>1. slot' = [slot EXCEPT ![CommitTo(l)].guard = l.prop.visible]
    BY <1>4 DEF Accepted
  <2>2. PICK to : to = CommitTo(l)
    OBVIOUS
  <2>3. slot[p] \in Slot /\ slot'[p] = IF p = to THEN [slot[p] EXCEPT !.guard = l.prop.visible] ELSE slot[p]
    BY <1>1, <2>1, <2>2
  <2>. QED
    BY <2>3 DEF Slot
<1>5. ASSUME NEW c \in Clients,
             CommitBackup(c) \/ CommitPrime(c) \/ RepairBackup(c) \/ RefreshCache(c)
      PROVE  slot'[p].key = slot[p].key
  <2>1. PICK l \in Call : l = cn[c]
    BY <1>1
  <2>2. Accepted(l) \/ Rejected(l)
    BY <1>5, <2>1 DEF CommitBackup, CommitPrime, RepairBackup, RefreshCache, Resolved
  <2>. QED
    BY <1>2, <1>4, <2>2 DEF Rejected
<1>6. CASE ExecuteStray
  <2>1. PICK r \in stray : StrayBody(r) \/ StrayGuard(r)
    BY <1>6 DEF ExecuteStray
  <2>2. Justified(r.to, r.compare, r.prop) /\ r.prop \in Slot /\ slot[p] \in Slot
    BY <1>1 DEF StrayInv, TypeOK, Request
  <2>3. CASE StrayBody(r) /\ slot[r.to].guard = r.compare
    <3>1. ~ Locked(r.to[1]) /\ slot' = [slot EXCEPT ![r.to] = WithBody(@, r.prop)]
      BY <2>3 DEF StrayBody
    <3>2. CASE p = r.to
      <4>1. r.prop.key = slot[p].key
        BY <2>2, <2>3, <3>1, <3>2, SameKey
      <4>2. slot'[p].key = r.prop.key
        BY <1>1, <2>2, <3>1, <3>2 DEF WithBody, Slot
      <4>. QED
        BY <4>1, <4>2
    <3>3. CASE p # r.to
      BY <1>1, <3>1, <3>3
    <3>. QED
      BY <3>2, <3>3
  <2>4. CASE StrayBody(r) /\ slot[r.to].guard # r.compare
    BY <2>4 DEF StrayBody
  <2>5. CASE StrayGuard(r)
    <3>1. PICK to : to = r.to
      OBVIOUS
    <3>2. slot'[p] = IF p = to THEN [slot[p] EXCEPT !.guard = r.prop.visible] ELSE slot[p]
      BY <1>1, <2>5, <3>1 DEF StrayGuard
    <3>. QED
      BY <2>2, <3>2 DEF Slot
  <2>. QED
    BY <2>1, <2>3, <2>4, <2>5
<1>7. ASSUME NEW n \in Nodes, Evict(n)
      PROVE  slot'[p].key = slot[p].key
  <2>1. PICK gone \in SUBSET {l \in CacheSlots : l[1] = n /\ slot[l].flag # "none"} :
          slot' = [l \in DOMAIN slot |-> IF l \in gone THEN ZeroSlot ELSE slot[l]]
    BY <1>7 DEF Evict
  <2>. QED
    BY <1>1, <2>1 DEF CacheSlots
<1>8. \/ slot' = slot
      \/ \E c \in Clients : \/ CommitBody(c) \/ CommitBackup(c) \/ CommitPrime(c)
                            \/ RepairBackup(c) \/ RefreshCache(c)
      \/ ExecuteStray
      \/ \E n \in Nodes : Evict(n)
  <2>1. ASSUME NEW c \in Clients,
               \/ Begin(c) \/ ReadSlot(c) \/ NoCandidate(c) \/ ReadPrime(c) \/ ReadCache(c)
               \/ Prepare(c) \/ EvaluateVotes(c) \/ ReadFails(c) \/ CommitFails(c) \/ Crash(c)
        PROVE  slot' = slot
    BY <2>1 DEF Begin, ReadSlot, NoCandidate, ReadPrime, ReadCache, Prepare, EvaluateVotes,
                ReadFails, CommitFails, Crash
  <2>2. UNCHANGED vars => slot' = slot
    BY DEF vars
  <2>. QED
    BY <2>1, <2>2 DEF Next, Step, Done
<1>. QED
  BY <1>2, <1>3, <1>5, <1>6, <1>7, <1>8

(* Ring path: no commit, however long after the probe that chose its slot,  *)
(* replaces a live slot of another key in a primary's region.              *)
THEOREM NothingForeignOverwritten == Spec => NoForeignOverwrite
<1> DEFINE KeysKept ==
      ~ Direct =>
      \A l \in PrimeSlots : slot[l].flag = "valid" => slot'[l].key = slot[l].key
<1>1. IInv /\ [Next]_vars => [KeysKept]_vars
  BY KeepsKeys
<1>. QED
  BY <1>1, Invariant, PTL DEF Spec, NoForeignOverwrite

(* The calls whose body a step writes *)
LEMMA BodyOnly ==
  ASSUME IInv, [Next]_vars, NEW c \in Clients,
         cn[c].pc = "commit", ~ cn[c].half, cn'[c].half
  PROVE  CommitBody(c)
<1>1. PICK l \in Call : l = cn[c]
  BY DEF IInv, TypeOK
<1>2. cn \in [Clients -> Call]
  BY DEF IInv, TypeOK
<1>3. ASSUME NEW m, Becomes(c, m)
      PROVE  cn'[c] = m
  BY <1>2, <1>3 DEF Becomes
<1>4. /\ \A s, kind : ~ Return(l, kind, s).half
      /\ \A pc : ~ Go(l, pc).half
      /\ \A b : ~ RepairFrom(l, b).half
  <2>1. \A s, kind : ~ Return(l, kind, s).half
    BY DEF Return, Idle
  <2>2. \A pc : ~ Go(l, pc).half
    BY DEF Go, Call
  <2>3. \A b : ~ RepairFrom(l, b).half
    <3>1. ~ Refresh(l).half
      BY <2>1, <2>2 DEF Refresh, Finish
    <3>2. ASSUME NEW t PROVE ~ Go([l EXCEPT !.turn = t], "repair").half
      BY DEF Go, Call
    <3>. QED
      BY <3>1, <3>2 DEF RepairFrom
  <2>. QED
    BY <2>1, <2>2, <2>3
<1>5. CASE cn' = cn
  BY <1>5
<1>6. ASSUME NEW d \in Clients, d # c,
             Begin(d) \/ Step(d) \/ ReadFails(d) \/ CommitFails(d) \/ Crash(d)
      PROVE  FALSE
  <2>1. \E m : Becomes(d, m)
    BY <1>6 DEF Step, Begin, ReadSlot, NoCandidate, ReadPrime, ReadCache, Prepare,
                EvaluateVotes, ReadFails, CommitFails, Crash, CommitBody, CommitBackup,
                CommitPrime, RepairBackup, RefreshCache
  <2>. QED
    BY <1>2, <1>6, <2>1 DEF Becomes
<1>7. CASE Begin(c) \/ ReadSlot(c) \/ NoCandidate(c) \/ ReadPrime(c) \/ ReadCache(c)
           \/ Prepare(c) \/ EvaluateVotes(c) \/ CommitBackup(c) \/ RepairBackup(c)
           \/ RefreshCache(c) \/ ReadFails(c)
  BY <1>7 DEF Begin, ReadSlot, NoCandidate, ReadPrime, ReadCache, Prepare, EvaluateVotes,
              CommitBackup, RepairBackup, RefreshCache, ReadFails, Probing
<1>8. CASE CommitPrime(c)
  <2>1. Becomes(c, RepairFrom(l, 1)) \/ Becomes(c, Fail(l))
    BY <1>1, <1>8 DEF CommitPrime
  <2>. QED
    BY <1>3, <1>4, <2>1 DEF Fail
<1>9. CASE CommitFails(c)
  <2>1. Becomes(c, Fail(l))
    BY <1>1, <1>9 DEF CommitFails, Failed
  <2>. QED
    BY <1>3, <1>4, <2>1 DEF Fail
<1>10. CASE Crash(c)
  <2>1. Becomes(c, Go(l, "down"))
    BY <1>1, <1>10 DEF Crash
  <2>. QED
    BY <1>3, <1>4, <2>1
<1>. QED
  BY <1>5, <1>6, <1>7, <1>8, <1>9, <1>10
     DEF Next, Step, ExecuteStray, Evict, Done, vars

(* Ring path: an update writes its body over the live slot of its own key   *)
(* that its probe found, unchanged since.                                  *)
THEOREM UpdatesReplaceLive == Spec => UpdateReplacesLive
<1> DEFINE Replaces ==
      ~ Direct =>
      \A c \in Clients :
        cn[c].pc = "commit" /\ cn[c].op.op = "update" /\ ~ cn[c].half /\ cn'[c].half
        => Present(slot[CommitTo(cn[c])], cn[c].op.key)
<1>1. IInv /\ [Next]_vars => [Replaces]_vars
  <2>1. SUFFICES ASSUME IInv, ~ Direct, [Next]_vars, NEW c \in Clients,
                        cn[c].pc = "commit", cn[c].op.op = "update",
                        ~ cn[c].half, cn'[c].half
                 PROVE  Present(slot[CommitTo(cn[c])], cn[c].op.key)
    OBVIOUS
  <2>2. PICK l \in Call : l = cn[c] /\ CallInv(l)
    BY <2>1 DEF IInv, TypeOK, Inv
  <2>3. /\ ~ Locked(NodeOf(l)) /\ slot[CommitTo(l)].guard = CompareTo(l)
        /\ l.pc = "commit" /\ Committing(l) /\ l.op.op = "update"
    BY <2>1, <2>2, BodyOnly DEF CommitBody, Matches
  <2>4. TypeOK /\ InstalledInv
    BY <2>1 DEF IInv, Inv
  <2>5. /\ l.prime.valid /\ l.prime.found /\ Present(l.prime.slot, l.op.key)
        /\ ChosenPrime(l.prime, l.op.key)
    BY <2>2, <2>3 DEF CallInv, ProposalOK, PrimeOK
  <2>6. [at |-> Home(l.op.key, l.prime.at), prop |-> l.prime.slot] \in installed
    BY <2>1, <2>5 DEF ChosenPrime, Present, ZeroSlot
  <2>7. PICK to : to = CommitTo(l)
    OBVIOUS
  <2>8. to = Home(l.op.key, l.prime.at) /\ CompareTo(l) = l.prime.slot.guard /\ to[1] = NodeOf(l)
    BY <2>3, <2>7 DEF CommitTo, CompareTo, Target, KindOf, NodeOf, Home
  <2>9. PICK d \in installed : d = [at |-> to, prop |-> l.prime.slot]
    BY <2>6, <2>8
  <2>10. to \in PrimeSlots /\ 0 < l.prime.slot.visible /\ Whole(l.prime.slot)
    BY <2>4, <2>9 DEF InstalledInv, Whole
  <2>11. slot[to].guard = l.prime.slot.visible
    BY <2>3, <2>7, <2>8, <2>10 DEF Whole
  <2>12. /\ Whole(slot[to]) /\ [at |-> to, prop |-> slot[to]] \in installed
    <3>1. slot[to].guard # 0
      BY <2>10, <2>11
    <3>. QED
      BY <2>1, <2>3, <2>8, <2>10, <3>1, UnlockedPrime DEF ZeroSlot
  <2>13. PICK e \in installed : e = [at |-> to, prop |-> slot[to]]
    BY <2>12
  <2>14. e.prop = d.prop
    BY <2>4, <2>9, <2>11, <2>12, <2>13 DEF InstalledInv, OneWinner, Whole
  <2>. QED
    BY <2>2, <2>5, <2>7, <2>9, <2>13, <2>14
<1>. QED
  BY <1>1, Invariant, PTL DEF Spec, UpdateReplacesLive

-----------------------------------------------------------------------------
(* Calls return                                                            *)

(* Products of a loop's length *)
LEMMA Times ==
  ASSUME NEW a \in Nat, NEW b \in Nat, NEW n \in Nat, a < b
  PROVE  a * n \in Nat /\ b * n \in Nat /\ a * n + n <= b * n
<1>1. PICK d \in Nat : b = a + 1 + d
  <2>1. b - a - 1 \in Nat /\ b = a + 1 + (b - a - 1)
    OBVIOUS
  <2>. QED
    BY <2>1
<1>2. b * n = a * n + n + d * n
  BY <1>1
<1>3. a * n \in Nat /\ d * n \in Nat
  OBVIOUS
<1>. QED
  BY <1>2, <1>3

(* The lengths of the loops *)
LEMMA LoopLengths ==
  ASSUME TypeOK
  PROVE  /\ \A kind \in Kinds : Count[kind] \in Nat /\ Count[kind] > 0
         /\ LoopSteps("CACHE") = 2 * Count["CACHE"] + 4
         /\ BackupLoop = 2 * Count["BACKUP"] + 6
         /\ BackupCount \in Nat /\ LoopSteps("CACHE") \in Nat /\ BackupLoop \in Nat
<1>1. /\ \A kind \in Kinds : Count[kind] \in Nat /\ Count[kind] > 0
      /\ BackupCount \in Nat
  BY ConfigType DEF TypeOK
<1>. QED
  BY <1>1 DEF LoopSteps, BackupLoop, Kinds

(* What comes after the loop a call is in *)
LEMMA AfterType ==
  ASSUME TypeOK, NEW l \in Call, l.pc \notin {"idle", "down"},
         l.pc \in {"vote", "repair"} => l.turn \in Backups
  PROVE  After(l) \in Nat
<1> DEFINE CL == LoopSteps("CACHE")
           B  == BackupCount
<1>1. CL \in Nat /\ BackupLoop \in Nat /\ B \in Nat
  BY LoopLengths
<1>2. B * BackupLoop \in Nat /\ 2 * B * BackupLoop \in Nat
  BY <1>1
<1>3. CASE l.pc = "repair"
  <2>1. B - l.turn \in Nat
    BY <1>1, <1>3 DEF Backups
  <2>2. (B - l.turn) * BackupLoop \in Nat
    BY <1>1, <2>1
  <2>. QED
    BY <1>1, <1>3, <2>2 DEF After
<1>4. CASE l.pc = "vote"
  <2>1. 2 * B - l.turn \in Nat
    BY <1>1, <1>4 DEF Backups
  <2>2. (2 * B - l.turn) * BackupLoop \in Nat
    BY <1>1, <2>1
  <2>. QED
    BY <1>1, <1>4, <2>2 DEF After
<1>. QED
  BY <1>1, <1>2, <1>3, <1>4 DEF After, Call, Probing

(* The least that a call under way is from its end *)
LEMMA RankAtLeast ==
  ASSUME TypeOK, NEW l \in Call, CallInv(l), l.pc \notin {"idle", "down"}
  PROVE  Rank(l) \in Nat /\ After(l) \in Nat /\ Rank(l) >= After(l) + 2
<1>1. After(l) \in Nat
  BY AfterType DEF CallInv, ControlOK
<1>2. ASSUME l.pc \in Probing, ~ Over(l)
      PROVE  2 * (Count[KindOf(l)] - l.probe.examined) \in Nat
  <2>1. l.probe.examined \in Nat /\ l.probe.examined <= Count[KindOf(l)]
    BY <1>2 DEF CallInv, ProbeOK, Call, Probe
  <2>2. KindOf(l) \in Kinds
    BY <1>2 DEF KindOf, Kinds, Probing
  <2>3. Count[KindOf(l)] \in Nat
    BY <2>2, LoopLengths
  <2>. QED
    BY <2>1, <2>3
<1>3. PICK w \in Nat : w = IF l.pc \in Probing /\ ~ Over(l)
                           THEN 2 * (Count[KindOf(l)] - l.probe.examined) ELSE 0
  BY <1>2
<1>4. PICK h \in 0 .. 1 : h = IF l.half THEN 1 ELSE 0
  OBVIOUS
<1>5. Rank(l) = 3 + After(l) - h + w
  BY <1>3, <1>4 DEF Rank
<1>. QED
  BY <1>1, <1>5

(* A call at the beginning of its next loop *)
LEMMA RankGo ==
  ASSUME TypeOK, NEW l \in Call, NEW pc \in Probing \cup {"evaluate", "commit"},
         NEW m, m = Go(l, pc)
  PROVE  /\ m.pc = pc /\ m.turn = l.turn
         /\ pc \notin Probing => Rank(m) = 3 + After(m)
         /\ pc \in Probing => Rank(m) = 3 + After(m) + 2 * Count[KindOf(m)]
<1>1. /\ m.pc = pc /\ m.half = FALSE /\ m.probe = NewProbe /\ m.turn = l.turn
  BY DEF Go, Call
<1>2. m.pc \notin {"idle", "down"}
  BY <1>1 DEF Probing
<1>3. After(m) - 0 = After(m) /\ After(m) \in Int
  <2>1. l.turn \in Int /\ LoopSteps("CACHE") \in Nat /\ BackupLoop \in Nat /\ BackupCount \in Nat
    BY LoopLengths DEF Call
  <2>2. /\ (BackupCount - l.turn) * BackupLoop \in Int
        /\ (2 * BackupCount - l.turn) * BackupLoop \in Int
        /\ BackupCount * BackupLoop \in Int /\ 2 * BackupCount * BackupLoop \in Int
    BY <2>1
  <2>3. After(m) \in Int
    BY <1>1, <2>1, <2>2 DEF After, Probing
  <2>. QED
    BY <2>3
<1>4. ASSUME pc \in Probing
      PROVE  ~ Over(m) /\ 2 * (Count[KindOf(m)] - m.probe.examined) = 2 * Count[KindOf(m)]
  <2>1. KindOf(m) \in Kinds
    BY <1>1, <1>4 DEF KindOf, Kinds, Probing
  <2>2. Count[KindOf(m)] \in Nat /\ Count[KindOf(m)] > 0
    BY <2>1, LoopLengths
  <2>3. NewProbe.examined = 0 /\ NewProbe.over = FALSE
    BY DEF NewProbe
  <2>. QED
    BY <1>1, <2>2, <2>3 DEF Over
<1>5. Rank(m) = 3 + After(m) - 0 + (IF m.pc \in Probing /\ ~ Over(m)
                                  THEN 2 * (Count[KindOf(m)] - m.probe.examined) ELSE 0)
  BY <1>1, <1>2 DEF Rank
<1>. QED
  BY <1>1, <1>3, <1>4, <1>5

(* A call that has returned *)
LEMMA RankReturn ==
  ASSUME NEW l, NEW kind, NEW s
  PROVE  Rank(Return(l, kind, s)) = 0
  BY DEF Rank, Return, Idle

(* ... that turns to the cache *)
LEMMA RankRefresh ==
  ASSUME TypeOK, NEW l \in Call, NEW m, m = Refresh(l)
  PROVE  Rank(m) \in Nat /\ Rank(m) <= 2 * Count["CACHE"] + 3
<1>1. Count["CACHE"] \in Nat
  BY LoopLengths DEF Kinds
<1>2. CASE CacheOn
  <2>1. m = Go(l, "refresh")
    BY <1>2 DEF Refresh
  <2>2. m.pc = "refresh" /\ Rank(m) = 3 + After(m) + 2 * Count[KindOf(m)]
    BY <2>1, RankGo DEF Probing
  <2>3. After(m) = 0 /\ KindOf(m) = "CACHE"
    BY <2>2 DEF After, KindOf
  <2>. QED
    BY <1>1, <2>2, <2>3
<1>3. CASE ~ CacheOn
  <2>1. Rank(m) = 0
    BY <1>3, RankReturn DEF Refresh, Finish
  <2>. QED
    BY <1>1, <2>1
<1>. QED
  BY <1>2, <1>3

(* ... that is done with the PRIME region *)
LEMMA RankFromPrime ==
  ASSUME TypeOK, NEW l \in Call, NEW m, m = FromPrime(l)
  PROVE  Rank(m) \in Nat /\ Rank(m) <= 2 * Count["CACHE"] + 3
<1>1. Count["CACHE"] \in Nat
  BY LoopLengths DEF Kinds
<1>2. CASE l.prime.found /\ Present(l.prime.slot, l.op.key)
  <2>1. PICK n : n = [l EXCEPT !.prop = l.prime.slot]
    OBVIOUS
  <2>2. n \in Call
    BY <2>1 DEF Call, Probe
  <2>. QED
    BY <1>2, <2>1, <2>2, RankRefresh DEF FromPrime
<1>3. CASE ~ (l.prime.found /\ Present(l.prime.slot, l.op.key))
  BY <1>1, <1>3, RankReturn DEF FromPrime
<1>. QED
  BY <1>2, <1>3

(* ... that repairs its backups from b on *)
LEMMA RankRepair ==
  ASSUME TypeOK, NEW l \in Call, NEW b \in Nat, b > 0, NEW m, m = RepairFrom(l, b)
  PROVE  /\ Rank(m) \in Nat
         /\ b <= BackupCount =>
              Rank(m) <= 3 + LoopSteps("CACHE") + (BackupCount - b) * BackupLoop
                         + 2 * Count["BACKUP"]
         /\ b > BackupCount => Rank(m) <= 2 * Count["CACHE"] + 3
<1> DEFINE lost == {i \in Backups : i >= b /\ ~ l.votes[i].ok}
           next == CHOOSE i \in lost : \A j \in lost : i <= j
           CL   == LoopSteps("CACHE")
           B    == BackupCount
<1>1. /\ B \in Nat /\ CL \in Nat /\ BackupLoop \in Nat
      /\ CL = 2 * Count["CACHE"] + 4 /\ Count["BACKUP"] \in Nat /\ Count["CACHE"] \in Nat
  BY LoopLengths DEF Kinds
<1>2. b <= B => (B - b) * BackupLoop \in Nat
  <2>1. b <= B => B - b \in Nat
    BY <1>1
  <2>. QED
    BY <1>1, <2>1
<1>3. CASE lost = {}
  <2>1. Rank(m) \in Nat /\ Rank(m) <= 2 * Count["CACHE"] + 3
    BY <1>3, RankRefresh DEF RepairFrom
  <2>. QED
    BY <1>1, <1>2, <2>1
<1>4. CASE lost # {}
  <2>1. next \in lost
    <3>1. lost \subseteq Nat
      BY <1>1 DEF Backups
    <3>2. \E i \in lost : \A j \in lost : i <= j
      BY <1>4, <3>1, Least
    <3>. QED
      BY <3>2
  <2>2. PICK n : n = [l EXCEPT !.turn = next]
    OBVIOUS
  <2>3. m = Go(n, "repair")
    BY <1>4, <2>2 DEF RepairFrom
  <2>4. next \in Backups /\ next \in 0 .. BackupCount + 1 /\ b <= next /\ next <= B
    BY <1>1, <2>1 DEF Backups
  <2> HIDE DEF lost, next
  <2>5. n \in Call /\ n.turn = next
    BY <2>2, <2>4 DEF Call
  <2>6. m.pc = "repair" /\ m.turn = next /\ Rank(m) = 3 + After(m) + 2 * Count[KindOf(m)]
    BY <2>3, <2>5, RankGo DEF Probing
  <2>7. After(m) = CL + (B - next) * BackupLoop /\ KindOf(m) = "BACKUP"
    BY <2>6 DEF After, KindOf
  <2>8. B - next \in Nat /\ B - b \in Nat
    BY <1>1, <2>4
  <2>9. (B - next) * BackupLoop \in Nat /\ (B - next) * BackupLoop <= (B - b) * BackupLoop
    <3>1. CASE next = b
      BY <1>1, <2>8, <3>1
    <3>2. CASE B - next < B - b
      BY <1>1, <2>8, <3>2, Times
    <3>. QED
      BY <1>1, <2>4, <3>1, <3>2
  <2>10. b <= B
    BY <1>1, <2>4
  <2> HIDE DEF CL, B
  <2>11. (B - b) * BackupLoop \in Nat
    BY <1>2, <2>10
  <2>12. PICK x \in Nat, y \in Nat :
           x = (B - next) * BackupLoop /\ y = (B - b) * BackupLoop
    BY <2>9, <2>11
  <2>13. Rank(m) = 3 + (CL + x) + 2 * Count["BACKUP"]
    BY <2>6, <2>7, <2>12
  <2>14. x <= y
    BY <2>9, <2>12
  <2>15. /\ Rank(m) \in Nat
         /\ Rank(m) <= 3 + CL + (B - b) * BackupLoop + 2 * Count["BACKUP"]
    BY <1>1, <2>12, <2>13, <2>14
  <2>. QED
    BY <1>1, <2>10, <2>15 DEF CL, B
<1>. QED
  BY <1>3, <1>4

(* ... that goes on with its votes *)
LEMMA RankVote ==
  ASSUME TypeOK, NEW l \in Call, CallInv(l), l.pc = "vote", NEW vote \in Vote,
         NEW m, m = NextVote(l, vote)
  PROVE  Rank(m) < Rank(l)
<1> DEFINE CL == LoopSteps("CACHE")
           B  == BackupCount
<1>1. /\ B \in Nat /\ CL \in Nat /\ BackupLoop \in Nat /\ Count["BACKUP"] \in Nat
      /\ BackupLoop = 2 * Count["BACKUP"] + 6
  BY LoopLengths DEF Kinds
<1>2. l.turn \in Backups /\ l.turn \in 1 .. B
  BY DEF CallInv, ControlOK, Backups
<1>3. Rank(l) \in Nat /\ Rank(l) >= CL + (2 * B - l.turn) * BackupLoop + 5 + 2
  <2>1. After(l) = CL + (2 * B - l.turn) * BackupLoop + 5
    BY DEF After
  <2>. QED
    BY <2>1, RankAtLeast
<1>4. PICK n : n = [l EXCEPT !.votes[l.turn] = vote, !.turn = @ + 1]
  OBVIOUS
<1>5. n \in Call /\ n.turn = l.turn + 1
  <2>1. l.turn + 1 \in 0 .. BackupCount + 1
    BY <1>1, <1>2
  <2>2. [l.votes EXCEPT ![l.turn] = vote] \in [Backups -> Vote]
    BY DEF Call
  <2>. QED
    BY <1>4, <2>1, <2>2 DEF Call
<1>6. CASE l.turn < B
  <2>1. m = Go(n, "vote")
    BY <1>4, <1>6 DEF NextVote
  <2>2. m.pc = "vote" /\ m.turn = l.turn + 1 /\ Rank(m) = 3 + After(m) + 2 * Count[KindOf(m)]
    BY <1>5, <2>1, RankGo DEF Probing
  <2>3. After(m) = CL + (2 * B - (l.turn + 1)) * BackupLoop + 5 /\ KindOf(m) = "BACKUP"
    BY <2>2 DEF After, KindOf
  <2>4. /\ 2 * B - (l.turn + 1) \in Nat /\ 2 * B - l.turn \in Nat
        /\ 2 * B - (l.turn + 1) < 2 * B - l.turn
    BY <1>1, <1>2
  <2>5. PICK x \in Nat, y \in Nat :
          /\ x = (2 * B - (l.turn + 1)) * BackupLoop /\ y = (2 * B - l.turn) * BackupLoop
          /\ x + BackupLoop <= y
    <3>1. PICK a \in Nat, b \in Nat :
            a = 2 * B - (l.turn + 1) /\ b = 2 * B - l.turn /\ a < b
      BY <2>4
    <3>2. a * BackupLoop \in Nat /\ b * BackupLoop \in Nat
          /\ a * BackupLoop + BackupLoop <= b * BackupLoop
      BY <1>1, <3>1, Times
    <3>. QED
      BY <3>1, <3>2
  <2> HIDE DEF CL, B
  <2>6. Rank(m) = 3 + (CL + x + 5) + 2 * Count["BACKUP"] /\ Rank(l) >= CL + y + 5 + 2
    BY <1>3, <2>2, <2>3, <2>5
  <2>. QED
    BY <1>1, <1>3, <2>5, <2>6
<1>7. CASE ~ l.turn < B
  <2>1. m = Go(n, "evaluate")
    BY <1>4, <1>7 DEF NextVote
  <2>2. m.pc = "evaluate" /\ Rank(m) = 3 + After(m)
    BY <1>5, <2>1, RankGo DEF Probing
  <2>3. After(m) = CL + B * BackupLoop + 2
    BY <2>2 DEF After
  <2>4. l.turn = B /\ 2 * B - l.turn = B
    BY <1>1, <1>2, <1>7
  <2>5. PICK x \in Nat : x = B * BackupLoop
    BY <1>1
  <2> HIDE DEF CL, B
  <2>6. Rank(m) = 3 + (CL + x + 2) /\ Rank(l) >= CL + x + 5 + 2
    BY <1>3, <2>2, <2>3, <2>4, <2>5
  <2>. QED
    BY <1>1, <1>3, <2>5, <2>6
<1>. QED
  BY <1>6, <1>7

(* ... that goes on with its repairs *)
LEMMA RankNextRepair ==
  ASSUME TypeOK, NEW l \in Call, CallInv(l), l.pc = "repair",
         NEW m, m = RepairFrom(l, l.turn + 1)
  PROVE  Rank(m) < Rank(l)
<1> DEFINE CL == LoopSteps("CACHE")
           B  == BackupCount
<1>1. /\ B \in Nat /\ CL \in Nat /\ BackupLoop \in Nat /\ Count["BACKUP"] \in Nat
      /\ BackupLoop = 2 * Count["BACKUP"] + 6
      /\ CL = 2 * Count["CACHE"] + 4 /\ Count["CACHE"] \in Nat
  BY LoopLengths DEF Kinds
<1>2. l.turn \in Backups /\ l.turn \in 1 .. B
  BY DEF CallInv, ControlOK, Backups
<1>3. /\ Rank(l) \in Nat /\ B - l.turn \in Nat
      /\ Rank(l) >= CL + (B - l.turn) * BackupLoop + 2
  <2>1. After(l) = CL + (B - l.turn) * BackupLoop
    BY DEF After
  <2>. QED
    BY <1>1, <1>2, <2>1, RankAtLeast
<1>4. PICK t \in Nat : t = l.turn + 1 /\ t > 0
  BY <1>1, <1>2
<1>5. /\ Rank(m) \in Nat
      /\ t <= B => Rank(m) <= 3 + CL + (B - t) * BackupLoop + 2 * Count["BACKUP"]
      /\ t > B => Rank(m) <= 2 * Count["CACHE"] + 3
  BY <1>4, RankRepair
<1>6. PICK y \in Nat : y = (B - l.turn) * BackupLoop
  BY <1>1, <1>3
<1>7. CASE t <= B
  <2>1. PICK a \in Nat, b \in Nat : a = B - t /\ b = B - l.turn /\ a < b
    BY <1>1, <1>2, <1>3, <1>4, <1>7
  <2>2. a * BackupLoop \in Nat /\ a * BackupLoop + BackupLoop <= b * BackupLoop
    BY <1>1, <2>1, Times
  <2>3. PICK x \in Nat : x = (B - t) * BackupLoop /\ x + BackupLoop <= y
    BY <1>6, <2>1, <2>2
  <2> HIDE DEF CL, B
  <2>4. Rank(m) <= 3 + CL + x + 2 * Count["BACKUP"] /\ Rank(l) >= CL + y + 2
    BY <1>3, <1>5, <1>6, <1>7, <2>3
  <2>. QED
    BY <1>1, <1>3, <1>5, <2>3, <2>4
<1>8. CASE t > B
  <2> HIDE DEF CL, B
  <2>1. Rank(m) <= 2 * Count["CACHE"] + 3 /\ Rank(l) >= CL + y + 2
    BY <1>3, <1>5, <1>6, <1>8
  <2>. QED
    BY <1>1, <1>3, <1>5, <2>1
<1>. QED
  BY <1>1, <1>4, <1>7, <1>8

(* ... that has committed to the primary *)
LEMMA RankCommitted ==
  ASSUME TypeOK, NEW l \in Call, CallInv(l), l.pc = "commit", NEW m, m = RepairFrom(l, 1)
  PROVE  Rank(m) < Rank(l)
<1> DEFINE CL == LoopSteps("CACHE")
           B  == BackupCount
<1>1. /\ B \in Nat /\ CL \in Nat /\ BackupLoop \in Nat /\ Count["BACKUP"] \in Nat
      /\ BackupLoop = 2 * Count["BACKUP"] + 6
      /\ CL = 2 * Count["CACHE"] + 4 /\ Count["CACHE"] \in Nat
  BY LoopLengths DEF Kinds
<1>2. Rank(l) \in Nat /\ Rank(l) >= CL + B * BackupLoop + 2
  <2>1. After(l) = CL + B * BackupLoop
    BY DEF After
  <2>. QED
    BY <2>1, RankAtLeast
<1>3. /\ Rank(m) \in Nat
      /\ 1 <= B => Rank(m) <= 3 + CL + (B - 1) * BackupLoop + 2 * Count["BACKUP"]
      /\ 1 > B => Rank(m) <= 2 * Count["CACHE"] + 3
  BY RankRepair
<1>4. PICK y \in Nat : y = B * BackupLoop
  BY <1>1
<1>5. CASE 1 <= B
  <2>1. PICK a \in Nat : a = B - 1 /\ a < B
    BY <1>1, <1>5
  <2>2. a * BackupLoop \in Nat /\ a * BackupLoop + BackupLoop <= B * BackupLoop
    BY <1>1, <2>1, Times
  <2>3. PICK x \in Nat : x = (B - 1) * BackupLoop /\ x + BackupLoop <= y
    BY <1>4, <2>1, <2>2
  <2> HIDE DEF CL, B
  <2>4. Rank(m) <= 3 + CL + x + 2 * Count["BACKUP"] /\ Rank(l) >= CL + y + 2
    BY <1>2, <1>3, <1>4, <1>5, <2>3
  <2>. QED
    BY <1>1, <1>2, <1>3, <2>3, <2>4
<1>6. CASE 1 > B
  <2> HIDE DEF CL, B
  <2>1. Rank(m) <= 2 * Count["CACHE"] + 3 /\ Rank(l) >= CL + y + 2
    BY <1>2, <1>3, <1>4, <1>6
  <2>. QED
    BY <1>1, <1>2, <1>3, <2>1
<1>. QED
  BY <1>1, <1>5, <1>6

(* ... that makes its proposal *)
LEMMA RankPrepared ==
  ASSUME TypeOK, NEW l \in Call, CallInv(l), l.pc = "writePrime", NEW m, m = Prepared(l)
  PROVE  Rank(m) < Rank(l)
<1> DEFINE CL == LoopSteps("CACHE")
           B  == BackupCount
<1>1. /\ B \in Nat /\ CL \in Nat /\ BackupLoop \in Nat /\ Count["BACKUP"] \in Nat
      /\ BackupLoop = 2 * Count["BACKUP"] + 6
  BY LoopLengths DEF Kinds
<1>2. Rank(l) \in Nat /\ Rank(l) >= CL + 2 * B * BackupLoop + 5 + 2
  <2>1. After(l) = CL + 2 * B * BackupLoop + 5
    BY DEF After
  <2>. QED
    BY <2>1, RankAtLeast
<1>3. PICK y \in Nat : y = (2 * B) * BackupLoop
  BY <1>1
<1>4. CASE Full(l) \/ NotUpdatable(l)
  <2>1. Rank(m) = 0
    BY <1>4, RankReturn DEF Prepared, Fail
  <2> HIDE DEF CL, B
  <2>2. Rank(l) >= CL + y + 5 + 2
    BY <1>2, <1>3 DEF B
  <2>. QED
    BY <1>1, <1>2, <2>1, <2>2
<1>5. CASE ~ (Full(l) \/ NotUpdatable(l))
  <2>1. PICK n : n = [l EXCEPT !.prime = l.probe, !.turn = 1,
                               !.prop = Proposal(l.op, l.probe.slot.guard)]
    OBVIOUS
  <2>2. n \in Call /\ n.turn = 1
    <3>1. l.op \in Ops /\ l.probe.slot.guard \in Nat /\ 1 \in 0 .. BackupCount + 1
      BY <1>1 DEF Call, Probe, Slot
    <3>2. Proposal(l.op, l.probe.slot.guard) \in Slot
      BY <3>1, ProposalType
    <3>. QED
      BY <2>1, <3>1, <3>2 DEF Call
  <2>3. CASE B = 0
    <3>1. m = Go(n, "evaluate")
      BY <1>5, <2>1, <2>3 DEF Prepared
    <3>2. m.pc = "evaluate" /\ Rank(m) = 3 + After(m)
      BY <2>2, <3>1, RankGo DEF Probing
    <3>3. After(m) = CL + B * BackupLoop + 2
      BY <3>2 DEF After
    <3>4. B * BackupLoop = 0
      BY <1>1, <2>3
    <3> HIDE DEF CL, B
    <3>5. Rank(m) = 3 + (CL + 0 + 2) /\ Rank(l) >= CL + y + 5 + 2
      BY <1>2, <1>3, <3>2, <3>3, <3>4
    <3>. QED
      BY <1>1, <1>2, <1>3, <3>5
  <2>4. CASE B # 0
    <3>1. m = Go(n, "vote")
      BY <1>5, <2>1, <2>4 DEF Prepared
    <3>2. m.pc = "vote" /\ m.turn = 1 /\ Rank(m) = 3 + After(m) + 2 * Count[KindOf(m)]
      BY <2>2, <3>1, RankGo DEF Probing
    <3>3. After(m) = CL + (2 * B - 1) * BackupLoop + 5 /\ KindOf(m) = "BACKUP"
      BY <3>2 DEF After, KindOf
    <3>4. PICK a \in Nat, b \in Nat : a = 2 * B - 1 /\ b = 2 * B /\ a < b
      BY <1>1, <2>4
    <3>5. a * BackupLoop \in Nat /\ a * BackupLoop + BackupLoop <= b * BackupLoop
      BY <1>1, <3>4, Times
    <3>6. PICK x \in Nat : x = (2 * B - 1) * BackupLoop /\ x + BackupLoop <= y
      BY <1>3, <3>4, <3>5
    <3> HIDE DEF CL, B
    <3>7. Rank(m) = 3 + (CL + x + 5) + 2 * Count["BACKUP"] /\ Rank(l) >= CL + y + 5 + 2
      BY <1>2, <1>3, <3>2, <3>3, <3>6
    <3>. QED
      BY <1>1, <1>2, <3>6, <3>7
  <2>. QED
    BY <2>3, <2>4
<1>. QED
  BY <1>4, <1>5

(* ... that reads a slot *)
LEMMA RankReadSlot ==
  ASSUME TypeOK, NEW l \in Call, CallInv(l), l.pc \in Probing, ~ Over(l), NEW s \in Slot,
         NEW m, m = [l EXCEPT !.probe = Examined(@, s, ReadIndex(l), l.op.key)]
  PROVE  Rank(m) < Rank(l)
<1>1. KindOf(l) \in Kinds
  BY DEF KindOf, Kinds, Probing
<1>2. PICK n \in Nat : n = Count[KindOf(l)]
  BY <1>1, LoopLengths
<1>3. l.probe \in Probe /\ l.op.key \in Keys
  BY DEF Call, Ops
<1>4. ReadIndex(l) \in Nat
  <2>1. IndexOf(KindOf(l), l.op.key, l.probe.examined) \in 0 .. Count[KindOf(l)] - 1
    BY <1>1, <1>3, IndexType DEF TypeOK, Probe
  <2>. QED
    BY <1>2, <2>1 DEF ReadIndex
<1>5. PICK pr \in Probe : pr = Examined(l.probe, s, ReadIndex(l), l.op.key)
  BY <1>3, <1>4, ExaminedType
<1>6. pr.examined = l.probe.examined + 1
  <2>1. Seen(l.probe, s, ReadIndex(l), l.op.key).examined = l.probe.examined
        /\ Seen(l.probe, s, ReadIndex(l), l.op.key) \in Probe
    <3>1. /\ Take(l.probe, s, ReadIndex(l)) \in Probe
          /\ Take(l.probe, s, ReadIndex(l)).examined = l.probe.examined
      BY <1>3, <1>4 DEF Take, Probe
    <3>2. /\ Candidate(l.probe, s, ReadIndex(l)) \in Probe
          /\ Candidate(l.probe, s, ReadIndex(l)).examined = l.probe.examined
      BY <1>3, <3>1 DEF Candidate
    <3>. QED
      BY <1>3, <3>1, <3>2 DEF Seen, Probe
  <2>. QED
    BY <1>5, <2>1 DEF Examined, Probe
<1>7. /\ m.pc = l.pc /\ m.turn = l.turn /\ m.half = l.half /\ m.probe = pr
  BY <1>5 DEF Call
<1>8. After(m) = After(l) /\ KindOf(m) = KindOf(l) /\ After(l) \in Nat
  BY <1>7, RankAtLeast DEF After, KindOf, Probing
<1>9. l.probe.examined \in Nat /\ l.probe.examined <= n /\ l.probe.examined # n
  BY <1>2, <1>3 DEF CallInv, ProbeOK, Over, Probe
<1>10. PICK h \in 0 .. 1 : h = IF l.half THEN 1 ELSE 0
  OBVIOUS
<1>11. Rank(l) = 3 + After(l) - h + 2 * (n - l.probe.examined)
  BY <1>2, <1>10 DEF Rank, Probing
<1>12. Rank(m) = 3 + After(l) - h + (IF ~ Over(m) THEN 2 * (n - (l.probe.examined + 1)) ELSE 0)
  BY <1>2, <1>6, <1>7, <1>8, <1>10 DEF Rank, Probing
<1>13. CASE Over(m)
  BY <1>8, <1>9, <1>11, <1>12, <1>13
<1>14. CASE ~ Over(m)
  BY <1>8, <1>9, <1>11, <1>12, <1>14
<1>. QED
  BY <1>13, <1>14

(* ... that writes a body *)
LEMMA RankHalf ==
  ASSUME TypeOK, NEW l \in Call, CallInv(l), Committing(l), ~ l.half,
         NEW m, m = [l EXCEPT !.half = TRUE]
  PROVE  Rank(m) < Rank(l)
<1>1. /\ m.pc = l.pc /\ m.turn = l.turn /\ m.half = TRUE /\ m.probe = l.probe
  BY DEF Call
<1>2. l.pc \in Probing => Over(l) /\ Over(m)
  BY <1>1 DEF Committing, Probing, Over, KindOf
<1>3. l.pc \notin {"idle", "down"}
  BY DEF Committing
<1>4. After(m) = After(l) /\ After(l) \in Nat
  BY <1>1, <1>3, RankAtLeast DEF After
<1>5. Rank(l) = 3 + After(l) - 0 + 0 /\ Rank(m) = 3 + After(l) - 1 + 0
  BY <1>1, <1>2, <1>3, <1>4 DEF Rank
<1>. QED
  BY <1>4, <1>5

(* A call whose operation failed *)
LEMMA RankFailed ==
  ASSUME TypeOK, NEW l \in Call, CallInv(l), l.pc \notin {"idle", "down"}, NEW m, m = Failed(l)
  PROVE  Rank(m) < Rank(l)
<1>1. Rank(l) \in Nat /\ Rank(l) >= After(l) + 2 /\ After(l) \in Nat /\ Rank(l) > 0
  BY RankAtLeast
<1>2. CASE l.pc = "readCache"
  <2>1. /\ LoopSteps("CACHE") = 2 * Count["CACHE"] + 4 /\ Count["CACHE"] \in Nat
        /\ After(l) = LoopSteps("CACHE")
    BY <1>2, LoopLengths DEF After, Kinds
  <2>2. Rank(m) \in Nat /\ Rank(m) <= 2 * Count["CACHE"] + 3
    BY <1>2, RankFromPrime DEF Failed
  <2>. QED
    BY <1>1, <2>1, <2>2
<1>3. CASE l.pc = "repair"
  BY <1>3, RankNextRepair DEF Failed
<1>4. CASE l.pc = "vote" /\ Committing(l)
  <2>1. PICK vote \in Vote : vote = [ok |-> FALSE, tie |-> l.probe.slot.tie]
    BY DEF Call, Probe, Slot, Vote
  <2>2. m = NextVote(l, vote)
    BY <1>4, <2>1 DEF Failed
  <2>. QED
    BY <1>4, <2>2, RankVote
<1>5. CASE l.pc \notin {"readCache", "repair"} /\ ~ (l.pc = "vote" /\ Committing(l))
  <2>1. Rank(m) = 0
    BY <1>5, RankReturn DEF Failed, Finish, Fail
  <2>. QED
    BY <1>1, <2>1
<1>. QED
  BY <1>2, <1>3, <1>4, <1>5

(* A step of a call brings it closer to its end. *)
LEMMA StepRank ==
  ASSUME IInv, NEW c \in Clients, Step(c) \/ ReadFails(c) \/ CommitFails(c) \/ Crash(c)
  PROVE  \E m : Becomes(c, m) /\ Rank(m) < Rank(cn[c])
<1>1. PICK l \in Call : l = cn[c] /\ CallInv(l)
  BY DEF IInv, TypeOK, Inv
<1>2. TypeOK
  BY DEF IInv
<1>3. l.pc \notin {"idle", "down"}
  BY <1>1 DEF Step, ReadSlot, NoCandidate, ReadPrime, ReadCache, Prepare, EvaluateVotes,
              CommitBody, CommitBackup, CommitPrime, RepairBackup, RefreshCache, ReadFails,
              CommitFails, Crash, Committing, Probing
<1>4. Rank(l) \in Nat /\ Rank(l) >= After(l) + 2 /\ After(l) \in Nat /\ Rank(l) > 0
  BY <1>1, <1>2, <1>3, RankAtLeast
<1>5. /\ LoopSteps("CACHE") = 2 * Count["CACHE"] + 4 /\ Count["CACHE"] \in Nat
  BY <1>2, LoopLengths DEF Kinds
<1>6. ASSUME NEW m, Becomes(c, m), Rank(m) < Rank(l)
      PROVE  \E n : Becomes(c, n) /\ Rank(n) < Rank(cn[c])
  BY <1>1, <1>6
<1>7. ASSUME NEW kind, NEW s, Becomes(c, Return(l, kind, s))
      PROVE  \E n : Becomes(c, n) /\ Rank(n) < Rank(cn[c])
  BY <1>4, <1>6, <1>7, RankReturn
<1>8. CASE ReadSlot(c)
  <2>1. PICK s : s = slot[<<NodeOf(l), KindOf(l), ReadIndex(l)>>]
    OBVIOUS
  <2>2. s \in Slot
    <3>1. KindOf(l) \in Kinds /\ KindOf(l) # "BACKUP" => NodeOf(l) = Node(l.op.key, 0)
      BY <1>1, <1>8 DEF ReadSlot, KindOf, Kinds, Probing, NodeOf
    <3>2. KindOf(l) \in Kinds /\ l.op.key \in Keys /\ l.turn \in Nat /\ l.probe.examined \in Nat
      BY <1>1, <1>2, <1>8, ConfigType
         DEF ReadSlot, KindOf, Kinds, Probing, Call, Ops, Probe, TypeOK
    <3>3. NodeOf(l) \in Nodes
      BY <1>2, <3>2, NodeType DEF NodeOf, TypeOK
    <3>4. ReadIndex(l) \in 0 .. Count[KindOf(l)] - 1
      BY <1>2, <3>2, IndexType DEF ReadIndex, TypeOK
    <3>5. <<NodeOf(l), KindOf(l), ReadIndex(l)>> \in Locations
      BY <3>2, <3>3, <3>4, LocationType
    <3>. QED
      BY <1>2, <2>1, <3>5 DEF TypeOK
  <2>3. PICK m : m = [l EXCEPT !.probe = Examined(@, s, ReadIndex(l), l.op.key)]
    OBVIOUS
  <2>4. Becomes(c, m) /\ l.pc \in Probing /\ ~ Over(l)
    BY <1>1, <1>8, <2>1, <2>3 DEF ReadSlot
  <2>5. Rank(m) < Rank(l)
    BY <1>1, <1>2, <2>2, <2>3, <2>4, RankReadSlot
  <2>. QED
    BY <1>6, <2>4, <2>5
<1>9. CASE NoCandidate(c)
  <2>1. \/ Becomes(c, Fail(l))
        \/ l.pc = "repair" /\ Becomes(c, RepairFrom(l, l.turn + 1))
        \/ Becomes(c, Finish(l))
    BY <1>1, <1>9 DEF NoCandidate
  <2>2. CASE Becomes(c, Fail(l)) \/ Becomes(c, Finish(l))
    BY <1>7, <2>2 DEF Fail, Finish
  <2>3. CASE l.pc = "repair" /\ Becomes(c, RepairFrom(l, l.turn + 1))
    BY <1>1, <1>2, <1>6, <2>3, RankNextRepair
  <2>. QED
    BY <2>1, <2>2, <2>3
<1>10. CASE ReadPrime(c)
  <2>1. PICK n : n = [l EXCEPT !.prime = l.probe]
    OBVIOUS
  <2>2. n \in Call
    BY <2>1 DEF Call
  <2>3. /\ l.pc = "readPrime"
        /\ \/ Becomes(c, Fail(l))
           \/ Becomes(c, Go(n, "readCache"))
           \/ Becomes(c, FromPrime(n))
    BY <1>1, <1>10, <2>1 DEF ReadPrime
  <2>4. Rank(l) >= 2 * LoopSteps("CACHE") + 2
    BY <1>4, <2>3 DEF After
  <2>5. CASE Becomes(c, Fail(l))
    BY <1>7, <2>5 DEF Fail
  <2>6. CASE Becomes(c, Go(n, "readCache"))
    <3>1. PICK m : m = Go(n, "readCache")
      OBVIOUS
    <3>2. m.pc = "readCache" /\ Rank(m) = 3 + After(m) + 2 * Count[KindOf(m)]
      BY <1>2, <2>2, <3>1, RankGo DEF Probing
    <3>3. After(m) = LoopSteps("CACHE") /\ KindOf(m) = "CACHE"
      BY <3>2 DEF After, KindOf
    <3>4. Rank(m) < Rank(l)
      BY <1>4, <1>5, <2>4, <3>2, <3>3
    <3>. QED
      BY <1>6, <2>6, <3>1, <3>4
  <2>7. CASE Becomes(c, FromPrime(n))
    <3>1. PICK m : m = FromPrime(n)
      OBVIOUS
    <3>2. Rank(m) \in Nat /\ Rank(m) <= 2 * Count["CACHE"] + 3
      BY <1>2, <2>2, <3>1, RankFromPrime
    <3>3. Rank(m) < Rank(l)
      BY <1>4, <1>5, <2>4, <3>2
    <3>. QED
      BY <1>6, <2>7, <3>1, <3>3
  <2>. QED
    BY <2>3, <2>5, <2>6, <2>7
<1>11. CASE ReadCache(c)
  <2>1. /\ l.pc = "readCache"
        /\ \/ Becomes(c, Return(l, "value", l.probe.slot))
           \/ Becomes(c, FromPrime(l))
    BY <1>1, <1>11 DEF ReadCache
  <2>2. CASE Becomes(c, FromPrime(l))
    <3>1. PICK m : m = FromPrime(l)
      OBVIOUS
    <3>2. Rank(m) \in Nat /\ Rank(m) <= 2 * Count["CACHE"] + 3
      BY <1>2, <3>1, RankFromPrime
    <3>3. Rank(l) >= LoopSteps("CACHE") + 2
      BY <1>4, <2>1 DEF After
    <3>4. Rank(m) < Rank(l)
      BY <1>4, <1>5, <3>2, <3>3
    <3>. QED
      BY <1>6, <2>2, <3>1, <3>4
  <2>. QED
    BY <1>7, <2>1, <2>2
<1>12. CASE Prepare(c)
  <2>1. PICK m : m = Prepared(l)
    OBVIOUS
  <2>2. l.pc = "writePrime" /\ Becomes(c, m)
    BY <1>1, <1>12, <2>1 DEF Prepare, Prepared
  <2>. QED
    BY <1>1, <1>2, <1>6, <2>1, <2>2, RankPrepared
<1>13. CASE EvaluateVotes(c)
  <2>1. /\ l.pc = "evaluate"
        /\ Becomes(c, Return(l, "lost", l.prop)) \/ Becomes(c, Go(l, "commit"))
    BY <1>1, <1>13 DEF EvaluateVotes
  <2>2. CASE Becomes(c, Go(l, "commit"))
    <3>1. PICK m : m = Go(l, "commit")
      OBVIOUS
    <3>2. m.pc = "commit" /\ Rank(m) = 3 + After(m)
      BY <1>2, <3>1, RankGo DEF Probing
    <3>3. PICK n \in Nat : n = LoopSteps("CACHE") + BackupCount * BackupLoop
      <4>1. LoopSteps("CACHE") \in Nat /\ BackupCount \in Nat /\ BackupLoop \in Nat
        BY <1>2, LoopLengths
      <4>. QED
        BY <4>1
    <3>4. After(m) = n /\ After(l) = n + 2
      BY <2>1, <3>2, <3>3 DEF After
    <3>5. Rank(m) < Rank(l)
      BY <1>4, <3>2, <3>4
    <3>. QED
      BY <1>6, <2>2, <3>1, <3>5
  <2>. QED
    BY <1>7, <2>1, <2>2
<1>14. CASE CommitBody(c)
  <2>1. PICK m : m = [l EXCEPT !.half = TRUE]
    OBVIOUS
  <2>2. Becomes(c, m) /\ Committing(l) /\ ~ l.half
    BY <1>1, <1>14, <2>1 DEF CommitBody
  <2>. QED
    BY <1>1, <1>2, <1>6, <2>1, <2>2, RankHalf
<1>15. CASE CommitBackup(c)
  <2>1. PICK vote \in Vote : Becomes(c, NextVote(l, vote))
    <3>1. /\ [ok |-> TRUE, tie |-> 0] \in Vote
          /\ [ok |-> FALSE, tie |-> l.probe.slot.tie] \in Vote
      BY DEF Vote, Call, Probe, Slot
    <3>2. \E accepted \in BOOLEAN :
            Becomes(c, NextVote(l, IF accepted THEN [ok |-> TRUE, tie |-> 0]
                                   ELSE [ok |-> FALSE, tie |-> l.probe.slot.tie]))
      BY <1>1, <1>15 DEF CommitBackup
    <3>. QED
      BY <3>1, <3>2
  <2>2. PICK m : m = NextVote(l, vote)
    OBVIOUS
  <2>3. l.pc = "vote"
    BY <1>1, <1>15 DEF CommitBackup
  <2>4. Rank(m) < Rank(l)
    BY <1>1, <1>2, <2>2, <2>3, RankVote
  <2>. QED
    BY <1>6, <2>1, <2>2, <2>4
<1>16. CASE CommitPrime(c)
  <2>1. /\ l.pc = "commit"
        /\ Becomes(c, RepairFrom(l, 1)) \/ Becomes(c, Fail(l))
    BY <1>1, <1>16 DEF CommitPrime
  <2>2. CASE Becomes(c, Fail(l))
    BY <1>7, <2>2 DEF Fail
  <2>3. CASE Becomes(c, RepairFrom(l, 1))
    BY <1>1, <1>2, <1>6, <2>1, <2>3, RankCommitted
  <2>. QED
    BY <2>1, <2>2, <2>3
<1>17. CASE RepairBackup(c)
  <2>1. l.pc = "repair" /\ Becomes(c, RepairFrom(l, l.turn + 1))
    BY <1>1, <1>17 DEF RepairBackup
  <2>. QED
    BY <1>1, <1>2, <1>6, <2>1, RankNextRepair
<1>18. CASE RefreshCache(c)
  <2>1. Becomes(c, Finish(l))
    BY <1>1, <1>18 DEF RefreshCache
  <2>. QED
    BY <1>7, <2>1 DEF Finish
<1>19. CASE ReadFails(c) \/ CommitFails(c)
  <2>1. PICK m : m = Failed(l)
    OBVIOUS
  <2>2. Becomes(c, m)
    BY <1>1, <1>19, <2>1 DEF ReadFails, CommitFails
  <2>. QED
    BY <1>1, <1>2, <1>3, <1>6, <2>1, <2>2, RankFailed
<1>20. CASE Crash(c)
  <2>1. PICK m : m = Go(l, "down")
    OBVIOUS
  <2>2. Becomes(c, m)
    BY <1>1, <1>20, <2>1 DEF Crash
  <2>3. Rank(m) = 0
    BY <2>1 DEF Rank, Go, Call
  <2>. QED
    BY <1>4, <1>6, <2>2, <2>3
<1>. QED
  BY <1>8, <1>9, <1>10, <1>11, <1>12, <1>13, <1>14, <1>15, <1>16, <1>17, <1>18, <1>19, <1>20
     DEF Step

(* Every step of a call of a compute node brings it closer to its end, in   *)
(* every deployment and whatever its rivals do: the loops of               *)
(* td_probe_slot, of the votes and of the repairs never start over, so no  *)
(* two writers keep each other from returning.                             *)
THEOREM CallsGetCloser == Spec => GetsCloser
<1> DEFINE Closer ==
      \A c \in Clients :
        cn[c].pc # "idle" /\ cn'[c] # cn[c] => Rank(cn'[c]) < Rank(cn[c])
<1>1. IInv /\ [Next]_vars => [Closer]_vars
  <2>1. SUFFICES ASSUME IInv, [Next]_vars, NEW c \in Clients,
                        cn[c].pc # "idle", cn'[c] # cn[c]
                 PROVE  Rank(cn'[c]) < Rank(cn[c])
    OBVIOUS
  <2>2. cn \in [Clients -> Call]
    BY <2>1 DEF IInv, TypeOK
  <2>3. \E d \in Clients :
          Begin(d) \/ Step(d) \/ ReadFails(d) \/ CommitFails(d) \/ Crash(d)
    BY <2>1 DEF Next, ExecuteStray, Evict, Done, vars
  <2>4. ASSUME NEW d \in Clients, Begin(d)
        PROVE  FALSE
    BY <2>1, <2>2, <2>4 DEF Begin, Becomes
  <2>5. PICK d \in Clients : Step(d) \/ ReadFails(d) \/ CommitFails(d) \/ Crash(d)
    BY <2>3, <2>4
  <2>6. PICK m : Becomes(d, m) /\ Rank(m) < Rank(cn[d])
    BY <2>1, <2>5, StepRank
  <2>7. d = c /\ cn'[c] = m
    BY <2>1, <2>2, <2>6 DEF Becomes
  <2>. QED
    BY <2>6, <2>7
<1>. QED
  BY <1>1, Invariant, PTL DEF Spec, GetsCloser

-----------------------------------------------------------------------------
(* What becomes of the losers                                              *)
(* As long as no operation fails, who wins is known from the calls: what   *)
(* was committed with a value was made by a call that is over, or by one   *)
(* that is past its commit and can only succeed.                           *)

(* What operation o writes when it is not a deletion *)
Makes(o, s) == o.op \in {"write", "update"} /\ s.key = o.key /\ s.value = o.value

Own(s, o) == s.flag = "valid" => Whole(s) /\ Makes(o, s)

OwnProp(l) == l.op.op # "read" => Own(l.prop, l.op)

(* What a call holds, or answered, is its own proposal. *)
OwnCall(l) ==
  /\ l.answer.kind # "none" => l.pc = "idle"
  /\ OwnProp(l)
  /\ l.answer.kind \in {"error", "lost"} => Own(l.answer.slot, l.op)

(* A call is one of the workload. *)
FromWorkload(c, l) ==
  /\ l.calls \in 0 .. Len(Workload[c])
  /\ l.pc # "idle" \/ l.answer.kind # "none" =>
       l.calls > 0 /\ l.op \in Workload[c][l.calls]

(* The write is past its commit. *)
Past(l) == l.op.op # "read" /\ (l.pc \in {"repair", "refresh"} \/ l.answer.kind = "ok")

Written(s) ==
  \E c \in Clients : \E i \in 1 .. cn[c].calls : \E o \in Workload[c][i] :
    Makes(o, s) /\ (i = cn[c].calls => Past(cn[c]))

WinnersInv ==
  ~ Direct /\ faults = 0 =>
    /\ stray = {}
    /\ \A c \in Clients : OwnCall(cn[c]) /\ FromWorkload(c, cn[c])
    /\ \A e \in installed : e.prop.flag = "valid" => Written(e.prop)

Same(l, m) == m.op = l.op /\ m.calls = l.calls

(* A call that begins its next loop *)
LEMMA OwnGo ==
  ASSUME NEW l \in Call, l.answer.kind = "none", OwnProp(l),
         NEW pc \in Probing \cup {"evaluate", "commit", "down"}, NEW m, m = Go(l, pc)
  PROVE  OwnCall(m) /\ Same(l, m) /\ m.pc = pc
<1>1. m.pc = pc /\ m.op = l.op /\ m.calls = l.calls /\ m.answer = l.answer /\ m.prop = l.prop
  BY DEF Go, Call
<1>. QED
  BY <1>1 DEF OwnCall, OwnProp, Same

(* A call that returns *)
LEMMA OwnReturn ==
  ASSUME NEW l \in Call, NEW kind, NEW s,
         kind \in {"error", "lost"} => Own(s, l.op), NEW m, m = Return(l, kind, s)
  PROVE  OwnCall(m) /\ Same(l, m) /\ m.pc = "idle" /\ m.answer.kind = kind
<1>1. /\ m.pc = "idle" /\ m.op = l.op /\ m.calls = l.calls /\ m.prop = ZeroSlot
      /\ m.answer.kind = kind /\ m.answer.slot = s
  BY DEF Return, Idle
<1>. QED
  BY <1>1 DEF OwnCall, OwnProp, Same, Own, ZeroSlot

(* ... with an error, which keeps the proposal *)
LEMMA OwnFail ==
  ASSUME NEW l \in Call, OwnProp(l), NEW m, m = Fail(l)
  PROVE  OwnCall(m) /\ Same(l, m)
<1>1. Own(IF l.op.op = "read" THEN ZeroSlot ELSE l.prop, l.op)
  BY DEF Own, ZeroSlot, OwnProp
<1>. QED
  BY <1>1, OwnReturn DEF Fail

(* ... with its result *)
LEMMA OwnFinish ==
  ASSUME NEW l \in Call, NEW m, m = Finish(l)
  PROVE  OwnCall(m) /\ Same(l, m) /\ (l.op.op # "read" => Past(m))
<1>1. PICK kind \in {"value", "ok"} : kind = IF l.op.op = "read" THEN "value" ELSE "ok"
  OBVIOUS
<1>2. m = Return(l, kind, l.prop)
  BY <1>1 DEF Finish
<1>3. OwnCall(m) /\ Same(l, m) /\ m.answer.kind = kind
  BY <1>1, <1>2, OwnReturn
<1>. QED
  BY <1>1, <1>3 DEF Past, Same

(* A call that fills the cache if there is one *)
LEMMA OwnRefresh ==
  ASSUME NEW l \in Call, l.answer.kind = "none", OwnProp(l), NEW m, m = Refresh(l)
  PROVE  OwnCall(m) /\ Same(l, m) /\ (l.op.op # "read" => Past(m))
<1>1. ASSUME m = Go(l, "refresh")
      PROVE  OwnCall(m) /\ Same(l, m) /\ (l.op.op # "read" => Past(m))
  <2>1. OwnCall(m) /\ Same(l, m) /\ m.pc = "refresh"
    BY <1>1, OwnGo DEF Probing
  <2>. QED
    BY <2>1 DEF Past, Same
<1>. QED
  BY <1>1, OwnFinish DEF Refresh

(* A read that answers from the PRIME region *)
LEMMA OwnFromPrime ==
  ASSUME NEW l \in Call, l.answer.kind = "none", l.op.op = "read", NEW m, m = FromPrime(l)
  PROVE  OwnCall(m) /\ Same(l, m)
<1>1. CASE l.prime.found /\ Present(l.prime.slot, l.op.key)
  <2>1. PICK n : n = [l EXCEPT !.prop = l.prime.slot]
    OBVIOUS
  <2>2. n \in Call /\ n.op = l.op /\ n.calls = l.calls /\ n.answer = l.answer
    BY <2>1 DEF Call, Probe
  <2>3. m = Refresh(n) /\ OwnProp(n) /\ n.answer.kind = "none"
    BY <1>1, <2>1, <2>2 DEF FromPrime, OwnProp
  <2>4. OwnCall(m) /\ Same(n, m)
    BY <2>2, <2>3, OwnRefresh
  <2>. QED
    BY <2>2, <2>4 DEF Same
<1>2. CASE ~ (l.prime.found /\ Present(l.prime.slot, l.op.key))
  <2>1. m = Return(l, "notFound", ZeroSlot)
    BY <1>2 DEF FromPrime
  <2>. QED
    BY <2>1, OwnReturn
<1>. QED
  BY <1>1, <1>2

(* A write that repairs its backups *)
LEMMA OwnRepair ==
  ASSUME config \in Configs, NEW l \in Call, l.answer.kind = "none", OwnProp(l),
         l.op.op # "read", NEW b \in Nat, NEW m, m = RepairFrom(l, b)
  PROVE  OwnCall(m) /\ Same(l, m) /\ Past(m)
<1> DEFINE lost == {i \in Backups : i >= b /\ ~ l.votes[i].ok}
           next == CHOOSE i \in lost : \A j \in lost : i <= j
<1>1. CASE lost = {}
  <2>1. m = Refresh(l)
    BY <1>1 DEF RepairFrom
  <2>. QED
    BY <2>1, OwnRefresh
<1>2. CASE lost # {}
  <2>1. next \in Backups
    <3>1. lost \subseteq Nat
      BY ConfigType DEF Backups
    <3>2. \E i \in lost : \A j \in lost : i <= j
      BY <1>2, <3>1, Least
    <3>. QED
      BY <3>2
  <2>2. PICK n : n = [l EXCEPT !.turn = next]
    OBVIOUS
  <2>3. m = Go(n, "repair")
    BY <1>2, <2>2 DEF RepairFrom
  <2>4. next \in 0 .. BackupCount + 1
    BY <2>1, ConfigType DEF Backups
  <2> HIDE DEF lost, next
  <2>5. /\ n \in Call /\ n.op = l.op /\ n.calls = l.calls /\ n.answer = l.answer
        /\ n.prop = l.prop
    BY <2>2, <2>4 DEF Call
  <2>6. OwnCall(m) /\ Same(n, m) /\ m.pc = "repair"
    BY <2>3, <2>5, OwnGo DEF OwnProp, Probing
  <2>. QED
    BY <2>5, <2>6 DEF Same, Past
<1>. QED
  BY <1>1, <1>2

(* A call asks its next backup, or counts the votes. *)
LEMMA OwnVote ==
  ASSUME config \in Configs, NEW l \in Call, l.answer.kind = "none", OwnProp(l),
         l.turn \in Backups, NEW vote \in Vote, NEW m, m = NextVote(l, vote)
  PROVE  OwnCall(m) /\ Same(l, m)
<1>1. PICK n : n = [l EXCEPT !.votes[l.turn] = vote, !.turn = @ + 1]
  OBVIOUS
<1>2. PICK pc \in {"vote", "evaluate"} : pc = IF l.turn < BackupCount THEN "vote" ELSE "evaluate"
  OBVIOUS
<1>3. m = Go(n, pc)
  BY <1>1, <1>2 DEF NextVote
<1>4. /\ n \in Call /\ n.op = l.op /\ n.calls = l.calls /\ n.answer = l.answer
      /\ n.prop = l.prop
  <2>1. l.turn + 1 \in 0 .. BackupCount + 1
    BY ConfigType DEF Backups
  <2>2. [l.votes EXCEPT ![l.turn] = vote] \in [Backups -> Vote]
    BY DEF Call
  <2>. QED
    BY <1>1, <2>1, <2>2 DEF Call
<1>5. OwnCall(m) /\ Same(n, m)
  BY <1>2, <1>3, <1>4, OwnGo DEF OwnProp, Probing
<1>. QED
  BY <1>4, <1>5 DEF Same

(* A write makes its proposal. *)
LEMMA OwnPrepared ==
  ASSUME config \in Configs, NEW l \in Call, l.answer.kind = "none", OwnProp(l),
         l.op.op # "read", NEW m, m = Prepared(l)
  PROVE  OwnCall(m) /\ Same(l, m)
<1>1. CASE Full(l) \/ NotUpdatable(l)
  BY <1>1, OwnFail DEF Prepared
<1>2. CASE ~ (Full(l) \/ NotUpdatable(l))
  <2>1. PICK n : n = [l EXCEPT !.prime = l.probe, !.turn = 1,
                               !.prop = Proposal(l.op, l.probe.slot.guard)]
    OBVIOUS
  <2>2. PICK pc \in {"evaluate", "vote"} : pc = IF BackupCount = 0 THEN "evaluate" ELSE "vote"
    OBVIOUS
  <2>3. m = Go(n, pc)
    BY <1>2, <2>1, <2>2 DEF Prepared
  <2>4. l.op \in Ops /\ l.probe.slot.guard \in Nat
    BY DEF Call, Probe, Slot
  <2>5. /\ Proposal(l.op, l.probe.slot.guard) \in Slot
        /\ Proposal(l.op, l.probe.slot.guard).guard = Proposal(l.op, l.probe.slot.guard).visible
        /\ Proposal(l.op, l.probe.slot.guard).key = l.op.key
    BY <2>4, ProposalType
  <2>6. /\ Proposal(l.op, l.probe.slot.guard).value = l.op.value
        /\ Proposal(l.op, l.probe.slot.guard).flag = "valid" => l.op.op # "delete"
    BY DEF Proposal
  <2>7. Own(Proposal(l.op, l.probe.slot.guard), l.op)
    <3>1. l.op.op # "delete" => l.op.op \in {"write", "update"}
      BY <2>4 DEF Ops
    <3>. QED
      BY <2>5, <2>6, <3>1 DEF Own, Makes, Whole
  <2>8. 1 \in 0 .. BackupCount + 1
    BY ConfigType
  <2>9. /\ n \in Call /\ n.op = l.op /\ n.calls = l.calls /\ n.answer = l.answer
        /\ n.prop = Proposal(l.op, l.probe.slot.guard)
    BY <2>1, <2>5, <2>8 DEF Call
  <2>10. OwnCall(m) /\ Same(n, m)
    BY <2>2, <2>3, <2>7, <2>9, OwnGo DEF OwnProp, Probing
  <2>. QED
    BY <2>9, <2>10 DEF Same
<1>. QED
  BY <1>1, <1>2

(* What is left of the steps of a call once they are known to keep its part *)
(* of the invariant                                                        *)
LEMMA WinnersKept ==
  ASSUME TypeOK, WinnersInv, ~ Direct, faults = 0, config' = config, stray' = stray,
         NEW c \in Clients, NEW m, cn' = [cn EXCEPT ![c] = m],
         OwnCall(m), FromWorkload(c, m), cn[c].calls <= m.calls,
         m.calls = cn[c].calls /\ Past(cn[c]) => Past(m),
         NEW new, installed' \subseteq installed \cup new,
         \A e \in new : Past(m) /\ (e.prop.flag = "valid" => Makes(m.op, e.prop))
  PROVE  WinnersInv'
<1>1. /\ stray = {} /\ \A d \in Clients : OwnCall(cn[d]) /\ FromWorkload(d, cn[d])
      /\ \A e \in installed : e.prop.flag = "valid" => Written(e.prop)
      /\ cn \in [Clients -> Call]
  BY DEF WinnersInv, TypeOK
<1>2. cn'[c] = m /\ \A d \in Clients \ {c} : cn'[d] = cn[d]
  BY <1>1
<1>3. Workload' = Workload
  BY DEF Workload
<1>4. m.calls \in Nat /\ cn[c].calls \in Nat
  <2>1. Len(Workload[c]) \in Nat
    BY ConfigType DEF TypeOK
  <2>. QED
    BY <1>1, <2>1 DEF FromWorkload
<1>5. ASSUME NEW d \in Clients PROVE (OwnCall(cn[d]) /\ FromWorkload(d, cn[d]))'
  <2>1. OwnCall(cn'[d]) /\ FromWorkload(d, cn'[d])
    BY <1>1, <1>2
  <2>. QED
    BY <1>3, <2>1 DEF OwnCall, OwnProp, FromWorkload
<1>6. ASSUME NEW e \in installed', e.prop.flag = "valid" PROVE Written(e.prop)'
  <2>1. PICK s : s = e.prop
    OBVIOUS
  <2>2. SUFFICES \E d \in Clients : \E i \in 1 .. cn'[d].calls : \E o \in Workload[d][i] :
                   Makes(o, s) /\ (i = cn'[d].calls => Past(cn'[d]))
    BY <1>3, <2>1 DEF Written, Past
  <2>3. CASE e \in installed
    <3>0. PICK d \in Clients :
            \E i \in 1 .. cn[d].calls : \E o \in Workload[d][i] :
              Makes(o, s) /\ (i = cn[d].calls => Past(cn[d]))
      BY <1>1, <1>6, <2>1, <2>3 DEF Written
    <3>1. PICK i \in 1 .. cn[d].calls :
            \E o \in Workload[d][i] : Makes(o, s) /\ (i = cn[d].calls => Past(cn[d]))
      BY <3>0
    <3>2. CASE d # c
      BY <1>2, <3>1, <3>2
    <3>3. CASE d = c
      <4>1. i \in 1 .. m.calls /\ (i = m.calls => i = cn[c].calls)
        BY <1>4, <3>3
      <4>2. i = m.calls => Past(m)
        BY <3>1, <3>3, <4>1
      <4>. QED
        BY <1>2, <3>1, <3>3, <4>1, <4>2
    <3>. QED
      BY <3>2, <3>3
  <2>4. CASE e \in new
    <3>1. Past(m) /\ Makes(m.op, s)
      BY <1>6, <2>1, <2>4
    <3>2. m.calls > 0 /\ m.op \in Workload[c][m.calls]
      BY <3>1 DEF Past, FromWorkload
    <3>3. m.calls \in 1 .. m.calls
      BY <1>4, <3>2
    <3>. QED
      BY <1>2, <3>1, <3>2, <3>3
  <2>. QED
    BY <2>3, <2>4
<1>. QED
  BY <1>1, <1>5, <1>6 DEF WinnersInv

(* A call of the workload stays one. *)
LEMMA SameWorkload ==
  ASSUME NEW c \in Clients, NEW l, NEW m, FromWorkload(c, l), Same(l, m), l.pc # "idle"
  PROVE  FromWorkload(c, m)
  BY DEF FromWorkload, Same

(* The steps of a call that commit nothing to a primary *)
LEMMA WinnersLocal ==
  ASSUME IInv, WinnersInv, ~ Direct, faults = 0, NEW c \in Clients,
         \/ ReadSlot(c) \/ NoCandidate(c) \/ ReadPrime(c) \/ ReadCache(c) \/ Prepare(c)
         \/ EvaluateVotes(c) \/ CommitBody(c)
         \/ CommitBackup(c) \/ RepairBackup(c) \/ RefreshCache(c)
  PROVE  WinnersInv'
<1>1. PICK l \in Call : l = cn[c] /\ CallInv(l)
  BY DEF IInv, TypeOK, Inv
<1>2. /\ config' = config /\ stray' = stray /\ installed' = installed /\ l.pc # "idle"
  BY <1>1 DEF ReadSlot, NoCandidate, ReadPrime, ReadCache, Prepare, EvaluateVotes, CommitBody,
              CommitBackup, RepairBackup, RefreshCache, others, history, Committing, Probing
<1>3. /\ TypeOK /\ config \in Configs /\ OwnCall(l) /\ FromWorkload(c, l)
      /\ l.answer.kind = "none" /\ OwnProp(l) /\ l.calls \in Nat
  BY <1>1, <1>2 DEF WinnersInv, OwnCall, IInv, TypeOK, Call
<1>4. ASSUME NEW m, Becomes(c, m), OwnCall(m), Same(l, m), Past(l) => Past(m)
      PROVE  WinnersInv'
  <2>1. FromWorkload(c, m)
    BY <1>2, <1>3, <1>4, SameWorkload
  <2>2. PICK new : new = {}
    OBVIOUS
  <2>3. /\ cn[c].calls <= m.calls /\ (m.calls = cn[c].calls /\ Past(cn[c]) => Past(m))
        /\ cn' = [cn EXCEPT ![c] = m] /\ installed' \subseteq installed \cup new
        /\ \A e \in new : Past(m) /\ (e.prop.flag = "valid" => Makes(m.op, e.prop))
    BY <1>1, <1>2, <1>3, <1>4, <2>2 DEF Same, Becomes
  <2>. QED
    BY <1>2, <1>3, <1>4, <2>1, <2>3, WinnersKept
<1>5. Past(l) => l.pc \in {"repair", "refresh"} /\ l.op.op # "read"
  BY <1>3 DEF Past
<1>6. ASSUME NEW m, m.pc = l.pc, m.op = l.op, m.calls = l.calls, m.answer = l.answer,
             m.prop = l.prop
      PROVE  OwnCall(m) /\ Same(l, m) /\ (Past(l) => Past(m))
  BY <1>3, <1>6 DEF OwnCall, OwnProp, Same, Past
<1>7. CASE ReadSlot(c)
  <2>1. PICK m : m = [l EXCEPT !.probe =
                       Examined(@, slot[<<NodeOf(l), KindOf(l), ReadIndex(l)>>],
                                ReadIndex(l), l.op.key)]
    OBVIOUS
  <2>2. Becomes(c, m)
    BY <1>1, <1>7, <2>1 DEF ReadSlot
  <2>3. m.pc = l.pc /\ m.op = l.op /\ m.calls = l.calls /\ m.answer = l.answer /\ m.prop = l.prop
    BY <2>1 DEF Call
  <2>. QED
    BY <1>4, <1>6, <2>2, <2>3
<1>8. CASE CommitBody(c)
  <2>1. PICK m : m = [l EXCEPT !.half = TRUE]
    OBVIOUS
  <2>2. Becomes(c, m)
    BY <1>1, <1>8, <2>1 DEF CommitBody
  <2>3. m.pc = l.pc /\ m.op = l.op /\ m.calls = l.calls /\ m.answer = l.answer /\ m.prop = l.prop
    BY <2>1 DEF Call
  <2>. QED
    BY <1>4, <1>6, <2>2, <2>3
<1>9. ASSUME l.pc = "repair", NEW m, Becomes(c, m), m = RepairFrom(l, l.turn + 1)
      PROVE  WinnersInv'
  <2>1. l.op.op # "read" /\ l.turn + 1 \in Nat
    BY <1>1, <1>3, <1>9, ConfigType DEF CallInv, ControlOK, Backups
  <2>. QED
    BY <1>3, <1>4, <1>9, <2>1, OwnRepair
<1>10. ASSUME l.pc = "refresh", NEW m, Becomes(c, m), m = Finish(l)
       PROVE  WinnersInv'
  BY <1>4, <1>5, <1>10, OwnFinish
<1>11. ASSUME l.pc \notin {"repair", "refresh"}, NEW m, Becomes(c, m), OwnCall(m), Same(l, m)
       PROVE  WinnersInv'
  BY <1>4, <1>5, <1>11
<1>12. CASE NoCandidate(c)
  <2>1. CASE l.pc = "vote"
    BY <1>1, <1>3, <1>11, <1>12, <2>1, OwnFail DEF NoCandidate
  <2>2. CASE l.pc = "repair"
    BY <1>1, <1>9, <1>12, <2>2 DEF NoCandidate
  <2>3. CASE l.pc = "refresh"
    BY <1>1, <1>10, <1>12, <2>3 DEF NoCandidate
  <2>. QED
    BY <1>1, <1>12, <2>1, <2>2, <2>3 DEF NoCandidate
<1>13. CASE ReadPrime(c)
  <2>1. l.op.op = "read" /\ l.pc = "readPrime"
    BY <1>1, <1>13 DEF ReadPrime, CallInv, ControlOK
  <2>2. PICK n : n = [l EXCEPT !.prime = l.probe]
    OBVIOUS
  <2>3. /\ n \in Call /\ n.op = l.op /\ n.calls = l.calls /\ n.answer = l.answer
        /\ n.prop = l.prop
    BY <2>2 DEF Call
  <2>4. OwnProp(n) /\ n.answer.kind = "none" /\ n.op.op = "read"
    BY <1>3, <2>1, <2>3 DEF OwnProp
  <2>5. PICK m : Becomes(c, m) /\ m \in {Fail(l), Go(n, "readCache"), FromPrime(n)}
    BY <1>1, <1>13, <2>2 DEF ReadPrime
  <2>6. CASE m = Fail(l)
    BY <1>3, <1>11, <2>1, <2>5, <2>6, OwnFail
  <2>7. CASE m = Go(n, "readCache")
    <3>1. OwnCall(m) /\ Same(n, m)
      BY <2>3, <2>4, <2>7, OwnGo DEF Probing
    <3>. QED
      BY <1>11, <2>1, <2>3, <2>5, <3>1 DEF Same
  <2>8. CASE m = FromPrime(n)
    <3>1. OwnCall(m) /\ Same(n, m)
      BY <2>3, <2>4, <2>8, OwnFromPrime
    <3>. QED
      BY <1>11, <2>1, <2>3, <2>5, <3>1 DEF Same
  <2>. QED
    BY <2>5, <2>6, <2>7, <2>8
<1>14. CASE ReadCache(c)
  <2>1. l.op.op = "read" /\ l.pc = "readCache"
    BY <1>1, <1>14 DEF ReadCache, CallInv, ControlOK
  <2>2. PICK m : Becomes(c, m) /\ m \in {Return(l, "value", l.probe.slot), FromPrime(l)}
    BY <1>1, <1>14 DEF ReadCache
  <2>3. OwnCall(m) /\ Same(l, m)
    BY <1>3, <2>1, <2>2, OwnReturn, OwnFromPrime
  <2>. QED
    BY <1>11, <2>1, <2>2, <2>3
<1>15. CASE Prepare(c)
  <2>1. PICK m : m = Prepared(l)
    OBVIOUS
  <2>2. l.pc = "writePrime" /\ Becomes(c, m) /\ l.op.op # "read"
    BY <1>1, <1>15, <2>1 DEF Prepare, Prepared, CallInv, ControlOK
  <2>. QED
    BY <1>3, <1>11, <2>1, <2>2, OwnPrepared
<1>16. CASE EvaluateVotes(c)
  <2>1. l.pc = "evaluate" /\ l.op.op # "read" /\ Own(l.prop, l.op)
    BY <1>1, <1>3, <1>16 DEF EvaluateVotes, CallInv, ControlOK, OwnProp
  <2>2. PICK m : Becomes(c, m) /\ m \in {Return(l, "lost", l.prop), Go(l, "commit")}
    BY <1>1, <1>16 DEF EvaluateVotes
  <2>3. OwnCall(m) /\ Same(l, m)
    BY <1>3, <2>1, <2>2, OwnReturn, OwnGo
  <2>. QED
    BY <1>11, <2>1, <2>2, <2>3
<1>17. CASE CommitBackup(c)
  <2>1. l.pc = "vote" /\ l.turn \in Backups
    BY <1>1, <1>17 DEF CommitBackup, CallInv, ControlOK
  <2>2. PICK vote \in Vote : Becomes(c, NextVote(l, vote))
    <3>1. l.probe.slot.tie \in Nat
      BY DEF Call, Probe, Slot
    <3>2. /\ [ok |-> TRUE, tie |-> 0] \in Vote
          /\ [ok |-> FALSE, tie |-> l.probe.slot.tie] \in Vote
      BY <3>1 DEF Vote
    <3>3. \E accepted \in BOOLEAN :
            Becomes(c, NextVote(l, IF accepted THEN [ok |-> TRUE, tie |-> 0]
                                   ELSE [ok |-> FALSE, tie |-> l.probe.slot.tie]))
      BY <1>1, <1>17 DEF CommitBackup
    <3>. QED
      BY <3>2, <3>3
  <2>3. PICK m : m = NextVote(l, vote)
    OBVIOUS
  <2>. QED
    BY <1>3, <1>11, <2>1, <2>2, <2>3, OwnVote
<1>18. CASE RepairBackup(c)
  BY <1>1, <1>9, <1>18 DEF RepairBackup
<1>19. CASE RefreshCache(c)
  BY <1>1, <1>10, <1>19 DEF RefreshCache
<1>. QED
  BY <1>7, <1>8, <1>12, <1>13, <1>14, <1>15, <1>16, <1>17, <1>18, <1>19

(* A call begins. *)
LEMMA WinnersBegin ==
  ASSUME IInv, WinnersInv, ~ Direct, faults = 0, NEW c \in Clients, Begin(c)
  PROVE  WinnersInv'
<1>1. PICK l \in Call : l = cn[c]
  BY DEF IInv, TypeOK
<1>2. PICK o \in Workload[c][l.calls + 1] :
        Becomes(c, [Idle(l.calls + 1, o, NoAnswer) EXCEPT
                      !.pc = IF o.op = "read" THEN "readPrime" ELSE "writePrime"])
  BY <1>1 DEF Begin
<1>3. PICK m : m = [Idle(l.calls + 1, o, NoAnswer) EXCEPT
                      !.pc = IF o.op = "read" THEN "readPrime" ELSE "writePrime"]
  OBVIOUS
<1>4. /\ m.calls = l.calls + 1 /\ m.op = o /\ m.prop = ZeroSlot /\ m.answer.kind = "none"
      /\ m.pc # "idle"
  BY <1>3 DEF Idle, NoAnswer
<1>5. /\ config' = config /\ stray' = stray /\ installed' = installed /\ TypeOK
      /\ l.calls \in Nat /\ l.calls < Len(Workload[c])
      /\ Len(Workload[c]) \in Nat
  BY <1>1, ConfigType DEF Begin, others, IInv, TypeOK, Call
<1>6. OwnCall(m) /\ FromWorkload(c, m)
  BY <1>2, <1>4, <1>5 DEF OwnCall, OwnProp, Own, ZeroSlot, FromWorkload
<1>7. PICK new : new = {}
  OBVIOUS
<1>8. /\ cn[c].calls <= m.calls /\ (m.calls = cn[c].calls /\ Past(cn[c]) => Past(m))
      /\ cn' = [cn EXCEPT ![c] = m] /\ installed' \subseteq installed \cup new
      /\ \A e \in new : Past(m) /\ (e.prop.flag = "valid" => Makes(m.op, e.prop))
  BY <1>1, <1>2, <1>3, <1>4, <1>5, <1>7 DEF Becomes
<1>. QED
  BY <1>5, <1>6, <1>8, WinnersKept

(* The answer to the commit of a primary *)
LEMMA WinnersPrime ==
  ASSUME IInv, WinnersInv, ~ Direct, faults = 0, NEW c \in Clients, CommitPrime(c)
  PROVE  WinnersInv'
<1>1. PICK l \in Call : l = cn[c] /\ CallInv(l)
  BY DEF IInv, TypeOK, Inv
<1>2. config' = config /\ stray' = stray /\ l.pc = "commit" /\ l.op.op # "read"
  BY <1>1 DEF CommitPrime, others, CallInv, ControlOK
<1>3. /\ TypeOK /\ config \in Configs /\ OwnCall(l) /\ FromWorkload(c, l)
      /\ l.answer.kind = "none" /\ OwnProp(l) /\ l.calls \in Nat
  BY <1>1, <1>2 DEF WinnersInv, OwnCall, IInv, TypeOK, Call
<1>4. ~ Past(l)
  BY <1>2, <1>3 DEF Past
<1>5. \/ Install(CommitTo(l), l.prop) /\ Becomes(c, RepairFrom(l, 1))
      \/ UNCHANGED history /\ Becomes(c, Fail(l))
  BY <1>1 DEF CommitPrime
<1>6. CASE Install(CommitTo(l), l.prop) /\ Becomes(c, RepairFrom(l, 1))
  <2>1. PICK m : m = RepairFrom(l, 1)
    OBVIOUS
  <2>2. PICK new : new = {[at |-> CommitTo(l), prop |-> l.prop]}
    OBVIOUS
  <2>3. 1 \in Nat
    OBVIOUS
  <2>4. OwnCall(m) /\ Same(l, m) /\ Past(m)
    BY <1>2, <1>3, <2>1, <2>3, OwnRepair
  <2>5. FromWorkload(c, m)
    BY <1>2, <1>3, <2>4, SameWorkload
  <2>6. \A e \in new : Past(m) /\ (e.prop.flag = "valid" => Makes(m.op, e.prop))
    BY <1>2, <1>3, <2>2, <2>4 DEF OwnProp, Own, Same
  <2>7. /\ cn[c].calls <= m.calls /\ (m.calls = cn[c].calls /\ Past(cn[c]) => Past(m))
        /\ cn' = [cn EXCEPT ![c] = m] /\ installed' \subseteq installed \cup new
    BY <1>1, <1>3, <1>6, <2>1, <2>2, <2>4 DEF Same, Becomes, Install
  <2>. QED
    BY <1>2, <1>3, <2>4, <2>5, <2>6, <2>7, WinnersKept
<1>7. CASE UNCHANGED history /\ Becomes(c, Fail(l))
  <2>1. PICK m : m = Fail(l)
    OBVIOUS
  <2>2. OwnCall(m) /\ Same(l, m)
    BY <1>3, <2>1, OwnFail
  <2>3. FromWorkload(c, m)
    BY <1>2, <1>3, <2>2, SameWorkload
  <2>4. PICK new : new = {}
    OBVIOUS
  <2>5. /\ cn[c].calls <= m.calls /\ (m.calls = cn[c].calls /\ Past(cn[c]) => Past(m))
        /\ cn' = [cn EXCEPT ![c] = m] /\ installed' \subseteq installed \cup new
        /\ \A e \in new : Past(m) /\ (e.prop.flag = "valid" => Makes(m.op, e.prop))
    BY <1>1, <1>3, <1>4, <1>7, <2>1, <2>2, <2>4 DEF Same, Becomes, history
  <2>. QED
    BY <1>2, <1>3, <2>2, <2>3, <2>5, WinnersKept
<1>. QED
  BY <1>5, <1>6, <1>7

(* A failure ends what is claimed; nothing else touches it. *)
LEMMA WinnersNext == IInv /\ WinnersInv /\ [Next]_vars => WinnersInv'
<1> SUFFICES ASSUME IInv, WinnersInv, [Next]_vars, ~ Direct', faults' = 0
             PROVE  WinnersInv'
  BY DEF WinnersInv
<1>1. faults \in Nat
  BY DEF IInv, TypeOK
<1>2. ASSUME NEW c \in Clients, Begin(c) \/ Step(c) PROVE WinnersInv'
  <2>1. faults = 0 /\ ~ Direct
    BY <1>2 DEF Step, others, Begin, ReadSlot, NoCandidate, ReadPrime, ReadCache, Prepare,
                EvaluateVotes, CommitBody, CommitBackup, CommitPrime, RepairBackup,
                RefreshCache, Direct
  <2>. QED
    BY <1>2, <2>1, WinnersBegin, WinnersLocal, WinnersPrime DEF Step
<1>3. ASSUME NEW c \in Clients, ReadFails(c) \/ CommitFails(c) \/ Crash(c) PROVE WinnersInv'
  <2>1. faults' = faults + 1
    BY <1>3 DEF ReadFails, CommitFails, Crash
  <2>. QED
    BY <1>1, <2>1
<1>4. ASSUME UNCHANGED <<config, cn, stray, faults, installed>> PROVE WinnersInv'
  BY <1>4 DEF WinnersInv, OwnCall, OwnProp, FromWorkload, Written, Past, Workload, Direct
<1>5. ASSUME ExecuteStray PROVE WinnersInv'
  <2>1. config' = config /\ faults' = faults /\ stray # {}
    BY <1>5 DEF ExecuteStray
  <2>. QED
    BY <2>1 DEF WinnersInv, Direct
<1>6. ASSUME NEW n \in Nodes, Evict(n) PROVE WinnersInv'
  BY <1>4, <1>6 DEF Evict, history
<1>7. ASSUME UNCHANGED vars PROVE WinnersInv'
  BY <1>4, <1>7 DEF vars
<1>. QED
  BY <1>2, <1>3, <1>5, <1>6, <1>7 DEF Next, Done

(* Ring path, while no operation fails: whatever was committed with a value *)
(* was written by a call that is over or that can only succeed any more.   *)
THEOREM WinnersSucceed == Spec => []WinnersInv
<1>1. Init => WinnersInv
  <2>1. SUFFICES ASSUME Init PROVE WinnersInv
    OBVIOUS
  <2>2. PICK l : l = Idle(0, NoOp, NoAnswer)
    OBVIOUS
  <2>3. /\ l.pc = "idle" /\ l.calls = 0 /\ l.answer.kind = "none" /\ l.prop = ZeroSlot
    BY <2>2 DEF Idle, NoAnswer
  <2>4. OwnCall(l)
    BY <2>3 DEF OwnCall, OwnProp, Own, ZeroSlot
  <2>5. ASSUME NEW c \in Clients PROVE FromWorkload(c, l)
    <3>1. Len(Workload[c]) \in Nat
      BY <2>1, ConfigType DEF Init
    <3>. QED
      BY <2>3, <3>1 DEF FromWorkload
  <2>6. cn = [c \in Clients |-> l] /\ stray = {} /\ installed = {}
    BY <2>1, <2>2 DEF Init
  <2>. QED
    BY <2>4, <2>5, <2>6 DEF WinnersInv
<1>. QED
  BY <1>1, WinnersNext, Invariant, PTL DEF Spec

(* A slot of a PRIME or CACHE region that is whole and live was committed, *)
(* up to the epoch in its guard.                                           *)
LEMMA LiveIsCommitted ==
  ASSUME IInv, ~ Direct, NEW l \in DOMAIN slot, l[2] # "BACKUP", Whole(slot[l]),
         slot[l].flag = "valid"
  PROVE  Committed(slot[l])
<1>1. l \in Locations /\ slot[l] \in Slot /\ slot[l] # ZeroSlot
  BY DEF IInv, TypeOK, ZeroSlot
<1>2. l[2] \in {"PRIME", "CACHE"}
  BY <1>1, LocationType DEF Kinds
<1>3. CASE l[2] = "PRIME"
  <2>1. [at |-> l, prop |-> slot[l]] \in installed
    BY <1>1, <1>3 DEF IInv, Inv, RingInv, PrimeInv, PrimeSlots
  <2>. QED
    BY <2>1 DEF Committed
<1>4. CASE l[2] = "CACHE"
  <2>1. PICK e \in installed : slot[l] = [e.prop EXCEPT !.guard = slot[l].guard]
    BY <1>4 DEF IInv, Inv, RingInv, CacheInv, CacheSlots
  <2>2. e.prop \in Slot /\ e.prop.guard = e.prop.visible
    BY DEF IInv, Inv, InstalledInv, TypeOK
  <2>3. slot[l].visible = e.prop.visible
    BY <2>1, <2>2 DEF Slot
  <2>4. e.prop = [e.prop EXCEPT !.guard = slot[l].guard]
    BY <2>2, <2>3 DEF Slot, Whole
  <2>. QED
    BY <2>1, <2>4 DEF Committed
<1>. QED
  BY <1>2, <1>3, <1>4

(* A write that answered with an error has no part in what was committed. *)
LEMMA LoserNotCommitted ==
  ASSUME IInv, WinnersInv, DistinctWrites, ~ Direct, faults = 0, NEW c \in Clients,
         cn[c].answer.kind \in {"error", "lost"}, cn[c].answer.slot.flag = "valid",
         NEW e \in installed
  PROVE  e.prop # cn[c].answer.slot
<1>1. SUFFICES ASSUME e.prop = cn[c].answer.slot PROVE FALSE
  OBVIOUS
<1>2. PICK s : s = e.prop
  OBVIOUS
<1>3. /\ OwnCall(cn[c]) /\ FromWorkload(c, cn[c]) /\ Written(s)
      /\ \A d \in Clients : FromWorkload(d, cn[d])
  BY <1>1, <1>2 DEF WinnersInv
<1>4. Makes(cn[c].op, s) /\ cn[c].pc = "idle" /\ cn[c].calls > 0
      /\ cn[c].op \in Workload[c][cn[c].calls]
  BY <1>1, <1>2, <1>3 DEF OwnCall, Own, FromWorkload
<1>5. PICK d \in Clients :
        \E i \in 1 .. cn[d].calls : \E o \in Workload[d][i] :
          Makes(o, s) /\ (i = cn[d].calls => Past(cn[d]))
  BY <1>3 DEF Written
<1>6. PICK i \in 1 .. cn[d].calls :
        \E o \in Workload[d][i] : Makes(o, s) /\ (i = cn[d].calls => Past(cn[d]))
  BY <1>5
<1>7. PICK o \in Workload[d][i] : Makes(o, s) /\ (i = cn[d].calls => Past(cn[d]))
  BY <1>6
<1>8. /\ config \in Configs
      /\ Workload[c] \in Seq(SUBSET Ops) /\ Workload[d] \in Seq(SUBSET Ops)
  BY ConfigType DEF IInv, TypeOK
<1>9. i \in DOMAIN Workload[d] /\ cn[c].calls \in DOMAIN Workload[c]
  <2>1. /\ cn[d].calls \in 0 .. Len(Workload[d]) /\ cn[c].calls \in 0 .. Len(Workload[c])
        /\ Len(Workload[c]) \in Nat /\ Len(Workload[d]) \in Nat
    BY <1>3, <1>8 DEF FromWorkload
  <2>2. i \in 1 .. Len(Workload[d]) /\ cn[c].calls \in 1 .. Len(Workload[c])
    BY <1>4, <2>1
  <2>. QED
    BY <1>8, <2>2
<1>10. d = c /\ i = cn[c].calls
  <2>1. PICK p, j : p = cn[c].op /\ j = cn[c].calls
    OBVIOUS
  <2>2. PICK g \in Configs : g.workload = Workload
    BY <1>8 DEF Workload
  <2>3. o \in g.workload[d][i] /\ p \in g.workload[c][j]
    BY <1>4, <1>7, <2>1, <2>2
  <2>4. i \in DOMAIN g.workload[d] /\ j \in DOMAIN g.workload[c]
    BY <1>9, <2>1, <2>2
  <2>5. /\ o.op \in {"write", "update"} /\ p.op \in {"write", "update"}
        /\ o.key = p.key /\ o.value = p.value
    BY <1>4, <1>7, <2>1 DEF Makes
  <2>6. \A i1 \in DOMAIN g.workload[d], j1 \in DOMAIN g.workload[c] :
          \A o1 \in g.workload[d][i1], p1 \in g.workload[c][j1] :
            /\ o1.op \in {"write", "update"} /\ p1.op \in {"write", "update"}
            /\ o1.key = p1.key /\ o1.value = p1.value
            => d = c /\ i1 = j1
    BY Zenon DEF DistinctWrites
  <2>7. /\ o.op \in {"write", "update"} /\ p.op \in {"write", "update"}
        /\ o.key = p.key /\ o.value = p.value
        => d = c /\ i = j
    BY <2>3, <2>4, <2>6, Zenon
  <2>. QED
    BY <2>1, <2>5, <2>7
<1>11. Past(cn[c])
  BY <1>7, <1>10
<1>. QED
  BY <1>4, <1>11 DEF Past

(* Ring path: a write that is answered with an error, though no operation  *)
(* failed, has not been committed, and no reader finds it in a PRIME or    *)
(* CACHE region.  Two writes of the same value make the same slot, so the  *)
(* writes have to be distinct for this to be seen in the slots.            *)
THEOREM LosersStayInvisible == ASSUME DistinctWrites PROVE Spec => []LosersInvisible
<1>1. IInv /\ WinnersInv => LosersInvisible
  <2>1. SUFFICES ASSUME IInv, WinnersInv, ~ Direct, NEW c \in Clients, faults = 0,
                        cn[c].answer.kind \in {"error", "lost"},
                        cn[c].answer.slot.flag = "valid"
                 PROVE  /\ \A e \in installed : e.prop # cn[c].answer.slot
                        /\ \A l \in DOMAIN slot :
                             l[2] # "BACKUP" => slot[l] # cn[c].answer.slot
    BY DEF LosersInvisible
  <2>2. \A e \in installed : e.prop # cn[c].answer.slot
    BY <2>1, LoserNotCommitted
  <2>3. ASSUME NEW l \in DOMAIN slot, l[2] # "BACKUP", slot[l] = cn[c].answer.slot
        PROVE  FALSE
    <3>1. Whole(slot[l])
      BY <2>1, <2>3 DEF WinnersInv, OwnCall, Own
    <3>2. Committed(slot[l])
      BY <2>1, <2>3, <3>1, LiveIsCommitted
    <3>. QED
      BY <2>2, <2>3, <3>2 DEF Committed
  <2>. QED
    BY <2>2, <2>3
<1>. QED
  BY <1>1, Invariant, WinnersSucceed, PTL

-----------------------------------------------------------------------------
(* What readers answer                                                     *)
(* As long as every key has been committed to one slot only, that slot     *)
(* holds what was last committed for the key, and readers answer it.       *)

(* No key has been committed to two slots. *)
KeysStay ==
  \A d, e \in installed : d.prop.key = e.prop.key => d.at = e.at

(* cur is the commit of the key with the highest epoch. *)
CurrentInv ==
  \A e \in installed : \E d \in installed :
    /\ d.prop = cur[e.prop.key] /\ d.prop.key = e.prop.key
    /\ e.prop.visible <= d.prop.visible

(* The commit that is current now was current during every open call. *)
FreshInv ==
  \A c \in Clients : cn[c].pc # "idle" => cur[cn[c].op.key] \in fresh[c]

(* What a reader answered was current during its call. *)
AnswerFresh(l, F) == l.answer.kind = "value" => l.answer.slot \in F

(* What a reader found and still holds, and what it answered *)
ReaderOK(l, F) ==
  /\ l.pc = "readPrime" /\ l.probe.found => l.probe.slot \in F
  /\ l.pc = "readCache" =>
       /\ l.prime.found => l.prime.slot \in F
       /\ l.probe.found => Committed(l.probe.slot)
  /\ l.pc = "refresh" /\ l.op.op = "read" => l.prop \in F
  /\ AnswerFresh(l, F)

ReadersInv ==
  ~ Direct /\ KeysStay =>
    CurrentInv /\ FreshInv /\ \A c \in Clients : ReaderOK(cn[c], fresh[c])

(* The slot of a key holds what was last committed for the key. *)
LEMMA CurrentSlot ==
  ASSUME IInv, ~ Direct, KeysStay, CurrentInv, NEW l \in PrimeSlots, NEW k \in Keys,
         Whole(slot[l]), slot[l].flag # "none", slot[l].key = k
  PROVE  slot[l] = cur[k]
<1>1. PrimeInv /\ OneWinner /\ \A e \in installed : e.prop \in Slot
  BY DEF IInv, Inv, RingInv, InstalledInv, TypeOK
<1>2. [at |-> l, prop |-> slot[l]] \in installed
  BY <1>1 DEF PrimeInv, ZeroSlot
<1>3. PICK e \in installed : e.at = l /\ e.prop = slot[l]
  BY <1>2
<1>4. PICK d \in installed :
        d.prop = cur[k] /\ d.prop.key = k /\ e.prop.visible <= d.prop.visible
  BY <1>3 DEF CurrentInv
<1>5. d.at = l
  BY <1>3, <1>4 DEF KeysStay
<1>6. slot[l] = d.prop \/ slot[l].visible > d.prop.visible
  BY <1>1, <1>5 DEF PrimeInv
<1>7. e.prop.visible \in Nat /\ d.prop.visible \in Nat
  BY <1>1 DEF Slot
<1>. QED
  BY <1>3, <1>4, <1>6, <1>7

(* A whole slot of the cache was committed. *)
LEMMA CachedIsCommitted ==
  ASSUME IInv, ~ Direct, NEW l \in CacheSlots, Whole(slot[l]), slot[l].flag # "none"
  PROVE  Committed(slot[l])
<1>1. PICK e \in installed : slot[l] = [e.prop EXCEPT !.guard = slot[l].guard]
  BY DEF IInv, Inv, RingInv, CacheInv
<1>2. e.prop \in Slot /\ e.prop.guard = e.prop.visible
  BY DEF IInv, Inv, InstalledInv, TypeOK
<1>3. slot[l].visible = e.prop.visible
  BY <1>1, <1>2 DEF Slot
<1>4. e.prop = [e.prop EXCEPT !.guard = slot[l].guard]
  BY <1>2, <1>3 DEF Slot, Whole
<1>. QED
  BY <1>1, <1>4 DEF Committed

(* A copy in the cache of the epoch that the primary has is a copy of what *)
(* the primary has.                                                        *)
LEMMA CacheHit ==
  ASSUME IInv, ~ Direct, KeysStay, NEW l \in Call, CallInv(l), CacheConsistent(l),
         Committed(l.probe.slot)
  PROVE  l.probe.slot = l.prime.slot
<1>1. /\ l.prime.found /\ l.probe.slot.visible = l.prime.slot.visible
      /\ l.probe.slot.key = l.op.key
  BY DEF CacheConsistent, Present
<1>2. l.prime.valid /\ l.prime.slot.key = l.op.key /\ l.prime.slot # ZeroSlot
  BY <1>1 DEF CallInv, PrimeOK, ChosenPrime, Chosen, ZeroSlot
<1>3. [at |-> Home(l.op.key, l.prime.at), prop |-> l.prime.slot] \in installed
  BY <1>2 DEF CallInv, PrimeOK, ChosenPrime
<1>4. PICK d \in installed : d.prop = l.prime.slot
  BY <1>3
<1>5. PICK e \in installed : e.prop = l.probe.slot
  BY DEF Committed
<1>6. d.at = e.at
  BY <1>1, <1>2, <1>4, <1>5 DEF KeysStay
<1>. QED
  BY <1>1, <1>4, <1>5, <1>6 DEF IInv, Inv, InstalledInv, OneWinner

(* What a reader knows stays true while the history goes on. *)
LEMMA ReaderStays ==
  ASSUME NEW l, NEW F, NEW G, ReaderOK(l, F), F \subseteq G, installed \subseteq installed'
  PROVE  ReaderOK(l, G)'
<1>1. \A s : Committed(s) => Committed(s)'
  BY DEF Committed
<1>. QED
  BY <1>1 DEF ReaderOK, AnswerFresh

(* A call that begins its next loop *)
LEMMA ReaderGo ==
  ASSUME NEW l \in Call, NEW F, AnswerFresh(l, F),
         NEW pc \in Probing \cup {"evaluate", "commit", "down"}, NEW m, m = Go(l, pc),
         pc = "readCache" /\ l.prime.found => l.prime.slot \in F,
         pc = "refresh" /\ l.op.op = "read" => l.prop \in F
  PROVE  ReaderOK(m, F) /\ m.op = l.op
<1>1. /\ m.pc = pc /\ m.op = l.op /\ m.answer = l.answer /\ m.prop = l.prop
      /\ m.prime = l.prime /\ m.probe = NewProbe
  BY DEF Go, Call
<1>2. NewProbe.found = FALSE
  BY DEF NewProbe
<1>. QED
  BY <1>1, <1>2 DEF ReaderOK, AnswerFresh

(* A call that returns *)
LEMMA ReaderReturn ==
  ASSUME NEW l \in Call, NEW F, NEW kind, NEW s, kind = "value" => s \in F,
         NEW m, m = Return(l, kind, s)
  PROVE  ReaderOK(m, F) /\ m.op = l.op
<1>1. m.pc = "idle" /\ m.op = l.op /\ m.answer.kind = kind /\ m.answer.slot = s
  BY DEF Return, Idle
<1>. QED
  BY <1>1 DEF ReaderOK, AnswerFresh

(* ... with its result *)
LEMMA ReaderFinish ==
  ASSUME NEW l \in Call, NEW F, l.op.op = "read" => l.prop \in F, NEW m, m = Finish(l)
  PROVE  ReaderOK(m, F) /\ m.op = l.op
<1>1. PICK kind \in {"value", "ok"} : kind = IF l.op.op = "read" THEN "value" ELSE "ok"
  OBVIOUS
<1>2. PICK s : s = l.prop
  OBVIOUS
<1>3. m = Return(l, kind, s) /\ (kind = "value" => s \in F)
  BY <1>1, <1>2 DEF Finish
<1>. QED
  BY <1>3, ReaderReturn

(* A call that fills the cache if there is one *)
LEMMA ReaderRefresh ==
  ASSUME NEW l \in Call, NEW F, AnswerFresh(l, F), l.op.op = "read" => l.prop \in F,
         NEW m, m = Refresh(l)
  PROVE  ReaderOK(m, F) /\ m.op = l.op
<1>1. CASE m = Go(l, "refresh")
  <2>1. PICK pc \in {"refresh"} : pc = "refresh"
    OBVIOUS
  <2>2. /\ pc \in Probing \cup {"evaluate", "commit", "down"} /\ m = Go(l, pc)
        /\ pc = "readCache" /\ l.prime.found => l.prime.slot \in F
        /\ pc = "refresh" /\ l.op.op = "read" => l.prop \in F
    BY <1>1 DEF Probing
  <2>. QED
    BY <2>2, ReaderGo
<1>2. CASE m = Finish(l)
  BY <1>2, ReaderFinish
<1>. QED
  BY <1>1, <1>2 DEF Refresh

(* A read that answers from the PRIME region *)
LEMMA ReaderFromPrime ==
  ASSUME NEW l \in Call, NEW F, AnswerFresh(l, F), l.prime.found => l.prime.slot \in F,
         NEW m, m = FromPrime(l)
  PROVE  ReaderOK(m, F) /\ m.op = l.op
<1>1. CASE l.prime.found /\ Present(l.prime.slot, l.op.key)
  <2>1. PICK n : n = [l EXCEPT !.prop = l.prime.slot]
    OBVIOUS
  <2>2. n \in Call /\ n.op = l.op /\ n.answer = l.answer /\ n.prop = l.prime.slot
    BY <2>1 DEF Call, Probe
  <2>3. m = Refresh(n) /\ AnswerFresh(n, F) /\ (n.op.op = "read" => n.prop \in F)
    BY <1>1, <2>1, <2>2 DEF FromPrime, AnswerFresh
  <2>4. ReaderOK(m, F) /\ m.op = n.op
    BY <2>2, <2>3, ReaderRefresh
  <2>. QED
    BY <2>2, <2>4
<1>2. CASE ~ (l.prime.found /\ Present(l.prime.slot, l.op.key))
  <2>1. PICK kind, s : kind = "notFound" /\ s = ZeroSlot
    OBVIOUS
  <2>2. m = Return(l, kind, s) /\ kind # "value"
    BY <1>2, <2>1 DEF FromPrime
  <2>. QED
    BY <2>2, ReaderReturn
<1>. QED
  BY <1>1, <1>2

(* A call that fails *)
LEMMA ReaderFail ==
  ASSUME NEW l \in Call, NEW F, NEW m, m = Fail(l)
  PROVE  ReaderOK(m, F) /\ m.op = l.op
<1>1. PICK kind, s : kind = "error" /\ m = Return(l, kind, s)
  BY DEF Fail
<1>2. kind = "value" => s \in F
  BY <1>1
<1>. QED
  BY <1>1, <1>2, ReaderReturn

(* A write that repairs its backups *)
LEMMA ReaderRepair ==
  ASSUME config \in Configs, NEW l \in Call, NEW F, AnswerFresh(l, F), l.op.op # "read",
         NEW b \in Nat, NEW m, m = RepairFrom(l, b)
  PROVE  ReaderOK(m, F) /\ m.op = l.op
<1> DEFINE lost == {i \in Backups : i >= b /\ ~ l.votes[i].ok}
           next == CHOOSE i \in lost : \A j \in lost : i <= j
<1>1. CASE lost = {}
  <2>1. m = Refresh(l)
    BY <1>1 DEF RepairFrom
  <2>. QED
    BY <2>1, ReaderRefresh
<1>2. CASE lost # {}
  <2>1. next \in Backups
    <3>1. lost \subseteq Nat
      BY ConfigType DEF Backups
    <3>2. \E i \in lost : \A j \in lost : i <= j
      BY <1>2, <3>1, Least
    <3>. QED
      BY <3>2
  <2>2. PICK n : n = [l EXCEPT !.turn = next]
    OBVIOUS
  <2>3. PICK pc \in {"repair"} : m = Go(n, pc)
    BY <1>2, <2>2 DEF RepairFrom
  <2>4. next \in 0 .. BackupCount + 1
    BY <2>1, ConfigType DEF Backups
  <2> HIDE DEF lost, next
  <2>5. n \in Call /\ n.op = l.op /\ n.answer = l.answer
    BY <2>2, <2>4 DEF Call
  <2>6. /\ AnswerFresh(n, F) /\ pc \in Probing \cup {"evaluate", "commit", "down"}
        /\ pc = "readCache" /\ n.prime.found => n.prime.slot \in F
        /\ pc = "refresh" /\ n.op.op = "read" => n.prop \in F
    BY <2>3, <2>5 DEF AnswerFresh, Probing
  <2>7. ReaderOK(m, F) /\ m.op = n.op
    BY <2>3, <2>5, <2>6, ReaderGo
  <2>. QED
    BY <2>5, <2>7
<1>. QED
  BY <1>1, <1>2

(* A call asks its next backup, or counts the votes. *)
LEMMA ReaderVote ==
  ASSUME config \in Configs, NEW l \in Call, NEW F, AnswerFresh(l, F),
         l.turn \in Backups, NEW vote \in Vote, NEW m, m = NextVote(l, vote)
  PROVE  ReaderOK(m, F) /\ m.op = l.op
<1>1. PICK n : n = [l EXCEPT !.votes[l.turn] = vote, !.turn = @ + 1]
  OBVIOUS
<1>2. PICK pc \in {"vote", "evaluate"} : pc = IF l.turn < BackupCount THEN "vote" ELSE "evaluate"
  OBVIOUS
<1>3. m = Go(n, pc)
  BY <1>1, <1>2 DEF NextVote
<1>4. n \in Call /\ n.op = l.op /\ n.answer = l.answer
  <2>1. l.turn + 1 \in 0 .. BackupCount + 1
    BY ConfigType DEF Backups
  <2>2. [l.votes EXCEPT ![l.turn] = vote] \in [Backups -> Vote]
    BY DEF Call
  <2>. QED
    BY <1>1, <2>1, <2>2 DEF Call
<1>5. /\ AnswerFresh(n, F) /\ pc \in Probing \cup {"evaluate", "commit", "down"}
      /\ pc = "readCache" /\ n.prime.found => n.prime.slot \in F
      /\ pc = "refresh" /\ n.op.op = "read" => n.prop \in F
  BY <1>2, <1>4 DEF AnswerFresh, Probing
<1>6. ReaderOK(m, F) /\ m.op = n.op
  BY <1>3, <1>4, <1>5, ReaderGo
<1>. QED
  BY <1>4, <1>6

(* A write makes its proposal. *)
LEMMA ReaderPrepared ==
  ASSUME config \in Configs, NEW l \in Call, NEW F, AnswerFresh(l, F), NEW m, m = Prepared(l)
  PROVE  ReaderOK(m, F) /\ m.op = l.op
<1>1. CASE Full(l) \/ NotUpdatable(l)
  BY <1>1, ReaderFail DEF Prepared
<1>2. CASE ~ (Full(l) \/ NotUpdatable(l))
  <2>1. PICK n : n = [l EXCEPT !.prime = l.probe, !.turn = 1,
                               !.prop = Proposal(l.op, l.probe.slot.guard)]
    OBVIOUS
  <2>2. PICK pc \in {"evaluate", "vote"} : pc = IF BackupCount = 0 THEN "evaluate" ELSE "vote"
    OBVIOUS
  <2>3. m = Go(n, pc)
    BY <1>2, <2>1, <2>2 DEF Prepared
  <2>4. l.op \in Ops /\ l.probe.slot.guard \in Nat
    BY DEF Call, Probe, Slot
  <2>5. Proposal(l.op, l.probe.slot.guard) \in Slot /\ 1 \in 0 .. BackupCount + 1
    <3>1. Proposal(l.op, l.probe.slot.guard) \in Slot
      BY <2>4, ProposalType
    <3>2. BackupCount \in Nat
      BY ConfigType
    <3>. QED
      BY <3>1, <3>2
  <2>6. n \in Call /\ n.op = l.op /\ n.answer = l.answer
    BY <2>1, <2>5 DEF Call
  <2>7. /\ AnswerFresh(n, F) /\ pc \in Probing \cup {"evaluate", "commit", "down"}
        /\ pc = "readCache" /\ n.prime.found => n.prime.slot \in F
        /\ pc = "refresh" /\ n.op.op = "read" => n.prop \in F
    BY <2>2, <2>6 DEF AnswerFresh, Probing
  <2>8. ReaderOK(m, F) /\ m.op = n.op
    BY <2>3, <2>6, <2>7, ReaderGo
  <2>. QED
    BY <2>6, <2>8
<1>. QED
  BY <1>1, <1>2

(* A reader reads a slot. *)
LEMMA ReaderReads ==
  ASSUME IInv, ~ Direct, KeysStay, CurrentInv, NEW l \in Call, CallInv(l),
         l.pc \in Probing, ~ Over(l), NEW F, ReaderOK(l, F), cur[l.op.key] \in F,
         NEW m, m = [l EXCEPT !.probe =
                       Examined(@, slot[<<NodeOf(l), KindOf(l), ReadIndex(l)>>],
                                ReadIndex(l), l.op.key)]
  PROVE  ReaderOK(m, F) /\ m.op = l.op
<1> DEFINE k  == l.op.key
           i  == ReadIndex(l)
           at == <<NodeOf(l), KindOf(l), i>>
           s  == slot[at]
           n  == Examined(l.probe, s, i, k)
<1>1. /\ k \in Keys /\ l.probe \in Probe /\ l.turn \in Nat /\ KindOf(l) \in Kinds /\ TypeOK
      /\ config \in Configs /\ l.probe.examined \in Nat
  BY ConfigType, SMTT(30) DEF Call, Ops, IInv, TypeOK, Probing, KindOf, Kinds, Probe
<1>2. i \in 0 .. Count[KindOf(l)] - 1
  BY <1>1, IndexType DEF ReadIndex
<1>3. at \in Locations /\ s \in Slot /\ i \in Nat
  <2>1. NodeOf(l) \in Nodes
    BY <1>1, NodeType DEF NodeOf
  <2>2. at \in Locations
    BY <1>1, <1>2, <2>1, LocationType
  <2>3. Count[KindOf(l)] \in Nat
    BY <1>1, ConfigType
  <2>. QED
    BY <1>1, <1>2, <2>2, <2>3 DEF TypeOK
<1>4. /\ m.pc = l.pc /\ m.op = l.op /\ m.answer = l.answer /\ m.prop = l.prop
      /\ m.prime = l.prime /\ m.probe = n
  BY DEF Call
<1>5. l.probe.found => l.probe.valid
  BY DEF CallInv, ProbeOK, Chosen
<1>6. n.found =>
        \/ l.probe.found /\ n.slot = l.probe.slot
        \/ n.slot = s /\ Whole(s) /\ s.flag # "none" /\ s.key = k
  <2>1. PICK t : t = n
    OBVIOUS
  <2>2. \/ t.slot = l.probe.slot /\ t.found = l.probe.found
        \/ /\ t.slot = s /\ Whole(s)
           /\ \/ t.found = l.probe.found /\ ~ l.probe.valid
              \/ t.found /\ s.flag # "none" /\ s.key = k
    BY <1>1, <1>3, <2>1, SeenCases
  <2>. QED
    BY <1>5, <2>1, <2>2
<1> HIDE DEF n
<1>7. CASE l.pc = "readPrime"
  <2>1. KindOf(l) = "PRIME" /\ at \in PrimeSlots
    BY <1>1, <1>3, <1>7 DEF KindOf, PrimeSlots, TypeOK
  <2>2. Whole(s) /\ s.flag # "none" /\ s.key = k => s \in F
    BY <1>1, <2>1, CurrentSlot
  <2>3. n.found => n.slot \in F
    BY <1>6, <1>7, <2>2 DEF ReaderOK
  <2>. QED
    BY <1>4, <1>7, <2>3 DEF ReaderOK, AnswerFresh
<1>8. CASE l.pc = "readCache"
  <2>1. KindOf(l) = "CACHE" /\ at \in CacheSlots
    BY <1>1, <1>3, <1>8 DEF KindOf, CacheSlots, TypeOK
  <2>2. Whole(s) /\ s.flag # "none" => Committed(s)
    BY <2>1, CachedIsCommitted
  <2>3. n.found => Committed(n.slot)
    BY <1>6, <1>8, <2>2 DEF ReaderOK
  <2>. QED
    BY <1>4, <1>8, <2>3 DEF ReaderOK, AnswerFresh
<1>9. CASE l.pc \notin {"readPrime", "readCache"}
  BY <1>4, <1>9 DEF ReaderOK, AnswerFresh
<1>. QED
  BY <1>4, <1>7, <1>8, <1>9

(* A call whose operation failed *)
LEMMA ReaderFailed ==
  ASSUME config \in Configs, NEW l \in Call, CallInv(l), NEW F, ReaderOK(l, F),
         NEW m, m = Failed(l)
  PROVE  ReaderOK(m, F) /\ m.op = l.op
<1>1. AnswerFresh(l, F)
  BY DEF ReaderOK
<1>2. CASE l.pc = "readCache"
  <2>1. m = FromPrime(l) /\ (l.prime.found => l.prime.slot \in F)
    BY <1>2 DEF Failed, ReaderOK
  <2>. QED
    BY <1>1, <2>1, ReaderFromPrime
<1>3. CASE l.pc = "repair"
  <2>1. PICK b \in Nat : b = l.turn + 1
    BY ConfigType DEF Call
  <2>2. m = RepairFrom(l, b) /\ l.op.op # "read"
    BY <1>3, <2>1 DEF Failed, CallInv, ControlOK
  <2>. QED
    BY <1>1, <2>2, ReaderRepair
<1>4. CASE l.pc = "refresh"
  <2>1. m = Finish(l) /\ (l.op.op = "read" => l.prop \in F)
    BY <1>4 DEF Failed, ReaderOK
  <2>. QED
    BY <2>1, ReaderFinish
<1>5. CASE l.pc = "vote" /\ Committing(l)
  <2>1. PICK vote \in Vote : vote = [ok |-> FALSE, tie |-> l.probe.slot.tie]
    BY DEF Call, Probe, Slot, Vote
  <2>2. m = NextVote(l, vote) /\ l.turn \in Backups
    BY <1>5, <2>1 DEF Failed, CallInv, ControlOK
  <2>. QED
    BY <1>1, <2>2, ReaderVote
<1>6. CASE l.pc \notin {"readCache", "repair", "refresh"} /\ ~ (l.pc = "vote" /\ Committing(l))
  <2>1. m = Fail(l)
    BY <1>6 DEF Failed
  <2>. QED
    BY <2>1, ReaderFail
<1>. QED
  BY <1>2, <1>3, <1>4, <1>5, <1>6

(* A step of a call that adds nothing to the history *)
LEMMA ReadersKept ==
  ASSUME TypeOK, ReadersInv, ~ Direct, KeysStay, config' = config, installed' = installed,
         cur' = cur, fresh' = fresh, NEW c \in Clients, cn[c].pc # "idle",
         NEW m, cn' = [cn EXCEPT ![c] = m], m.op = cn[c].op, ReaderOK(m, fresh[c])
  PROVE  ReadersInv'
<1>1. CurrentInv /\ FreshInv /\ \A d \in Clients : ReaderOK(cn[d], fresh[d])
  BY DEF ReadersInv
<1>2. cn'[c] = m /\ \A d \in Clients \ {c} : cn'[d] = cn[d]
  BY DEF TypeOK
<1>3. CurrentInv'
  BY <1>1 DEF CurrentInv
<1>4. FreshInv'
  BY <1>1, <1>2 DEF FreshInv
<1>5. ASSUME NEW d \in Clients PROVE ReaderOK(cn[d], fresh[d])'
  <2>1. PICK l, F : l = cn'[d] /\ F = fresh[d] /\ ReaderOK(l, F)
    BY <1>1, <1>2
  <2>2. ReaderOK(l, F)'
    BY <2>1, ReaderStays
  <2>3. cn'[d] = l /\ fresh'[d] = F
    BY <2>1
  <2>. QED
    BY <2>2, <2>3
<1>. QED
  BY <1>3, <1>4, <1>5 DEF ReadersInv

(* The steps of a call that commit nothing to a primary *)
LEMMA ReadersLocal ==
  ASSUME IInv, ReadersInv, ~ Direct, KeysStay, NEW c \in Clients,
         \/ ReadSlot(c) \/ NoCandidate(c) \/ ReadPrime(c) \/ ReadCache(c) \/ Prepare(c)
         \/ EvaluateVotes(c) \/ CommitBody(c)
         \/ CommitBackup(c) \/ RepairBackup(c) \/ RefreshCache(c)
         \/ ReadFails(c) \/ CommitFails(c) \/ Crash(c)
  PROVE  ReadersInv'
<1>1. PICK l \in Call : l = cn[c] /\ CallInv(l)
  BY DEF IInv, TypeOK, Inv
<1>2. PICK F : F = fresh[c]
  OBVIOUS
<1>3. /\ config' = config /\ installed' = installed /\ cur' = cur /\ fresh' = fresh
      /\ l.pc # "idle"
  BY <1>1 DEF ReadSlot, NoCandidate, ReadPrime, ReadCache, Prepare, EvaluateVotes, CommitBody,
              CommitBackup, RepairBackup, RefreshCache, ReadFails, CommitFails, Crash,
              others, history, Committing, Probing
<1>4. /\ TypeOK /\ config \in Configs /\ CurrentInv /\ ReaderOK(l, F) /\ AnswerFresh(l, F)
      /\ cur[l.op.key] \in F
  BY <1>1, <1>2, <1>3 DEF ReadersInv, FreshInv, ReaderOK, IInv, TypeOK
<1>5. ASSUME NEW m, Becomes(c, m), ReaderOK(m, F), m.op = l.op
      PROVE  ReadersInv'
  BY <1>1, <1>2, <1>3, <1>4, <1>5, ReadersKept DEF Becomes
<1>6. CASE ReadSlot(c)
  <2>1. PICK m : m = [l EXCEPT !.probe =
                       Examined(@, slot[<<NodeOf(l), KindOf(l), ReadIndex(l)>>],
                                ReadIndex(l), l.op.key)]
    OBVIOUS
  <2>2. Becomes(c, m) /\ l.pc \in Probing /\ ~ Over(l)
    BY <1>1, <1>6, <2>1 DEF ReadSlot
  <2>. QED
    BY <1>1, <1>4, <1>5, <2>1, <2>2, ReaderReads
<1>7. CASE CommitBody(c)
  <2>1. PICK m : m = [l EXCEPT !.half = TRUE]
    OBVIOUS
  <2>2. Becomes(c, m)
    BY <1>1, <1>7, <2>1 DEF CommitBody
  <2>3. /\ m.pc = l.pc /\ m.op = l.op /\ m.answer = l.answer /\ m.prop = l.prop
        /\ m.prime = l.prime /\ m.probe = l.probe
    BY <2>1 DEF Call
  <2>4. ReaderOK(m, F)
    BY <1>4, <2>3 DEF ReaderOK, AnswerFresh
  <2>. QED
    BY <1>5, <2>2, <2>3, <2>4
<1>8. ASSUME l.pc = "repair", NEW m, Becomes(c, m), m = RepairFrom(l, l.turn + 1)
      PROVE  ReadersInv'
  <2>1. PICK b \in Nat : b = l.turn + 1
    BY <1>4, ConfigType DEF Call
  <2>2. m = RepairFrom(l, b) /\ l.op.op # "read"
    BY <1>1, <1>8, <2>1 DEF CallInv, ControlOK
  <2>. QED
    BY <1>4, <1>5, <1>8, <2>2, ReaderRepair
<1>9. ASSUME l.pc = "refresh", NEW m, Becomes(c, m), m = Finish(l)
      PROVE  ReadersInv'
  <2>1. l.op.op = "read" => l.prop \in F
    BY <1>4, <1>9 DEF ReaderOK
  <2>. QED
    BY <1>5, <1>9, <2>1, ReaderFinish
<1>10. ASSUME NEW m, Becomes(c, m), m = Fail(l)
       PROVE  ReadersInv'
  BY <1>5, <1>10, ReaderFail
<1>11. CASE NoCandidate(c)
  <2>1. CASE l.pc = "vote"
    BY <1>1, <1>10, <1>11, <2>1 DEF NoCandidate
  <2>2. CASE l.pc = "repair"
    BY <1>1, <1>8, <1>11, <2>2 DEF NoCandidate
  <2>3. CASE l.pc = "refresh"
    BY <1>1, <1>9, <1>11, <2>3 DEF NoCandidate
  <2>. QED
    BY <1>1, <1>11, <2>1, <2>2, <2>3 DEF NoCandidate
<1>12. CASE ReadPrime(c)
  <2>1. PICK n : n = [l EXCEPT !.prime = l.probe]
    OBVIOUS
  <2>2. n \in Call /\ n.op = l.op /\ n.answer = l.answer /\ n.prime = l.probe
    BY <2>1 DEF Call
  <2>3. l.pc = "readPrime" /\ l.op.op = "read"
    BY <1>1, <1>12 DEF ReadPrime, CallInv, ControlOK
  <2>4. AnswerFresh(n, F) /\ (n.prime.found => n.prime.slot \in F)
    BY <1>4, <2>2, <2>3 DEF ReaderOK, AnswerFresh
  <2>5. PICK m : Becomes(c, m) /\ m \in {Fail(l), Go(n, "readCache"), FromPrime(n)}
    BY <1>1, <1>12, <2>1 DEF ReadPrime
  <2>6. CASE m = Fail(l)
    BY <1>10, <2>5, <2>6
  <2>7. CASE m = Go(n, "readCache")
    <3>1. PICK pc \in {"readCache"} : m = Go(n, pc)
      BY <2>7
    <3>2. /\ pc \in Probing \cup {"evaluate", "commit", "down"}
          /\ pc = "readCache" /\ n.prime.found => n.prime.slot \in F
          /\ pc = "refresh" /\ n.op.op = "read" => n.prop \in F
      BY <2>4, <3>1 DEF Probing
    <3>3. ReaderOK(m, F) /\ m.op = n.op
      BY <2>2, <2>4, <3>1, <3>2, ReaderGo
    <3>. QED
      BY <1>5, <2>2, <2>5, <3>3
  <2>8. CASE m = FromPrime(n)
    <3>1. ReaderOK(m, F) /\ m.op = n.op
      BY <2>2, <2>4, <2>8, ReaderFromPrime
    <3>. QED
      BY <1>5, <2>2, <2>5, <3>1
  <2>. QED
    BY <2>5, <2>6, <2>7, <2>8
<1>13. CASE ReadCache(c)
  <2>1. l.pc = "readCache" /\ (l.prime.found => l.prime.slot \in F)
        /\ (l.probe.found => Committed(l.probe.slot))
    BY <1>1, <1>4, <1>13 DEF ReadCache, ReaderOK
  <2>2. PICK m : /\ Becomes(c, m)
                 /\ \/ CacheConsistent(l) /\ m = Return(l, "value", l.probe.slot)
                    \/ m = FromPrime(l)
    BY <1>1, <1>13 DEF ReadCache
  <2>3. CASE CacheConsistent(l) /\ m = Return(l, "value", l.probe.slot)
    <3>1. l.probe.found /\ l.prime.found
      BY <2>3 DEF CacheConsistent
    <3>2. l.probe.slot = l.prime.slot
      BY <1>1, <2>1, <2>3, <3>1, CacheHit
    <3>3. PICK kind, s : kind = "value" /\ s = l.probe.slot
      OBVIOUS
    <3>4. m = Return(l, kind, s) /\ s \in F
      BY <2>1, <2>3, <3>1, <3>2, <3>3
    <3>5. ReaderOK(m, F) /\ m.op = l.op
      BY <3>4, ReaderReturn
    <3>. QED
      BY <1>5, <2>2, <3>5
  <2>4. CASE m = FromPrime(l)
    BY <1>4, <1>5, <2>1, <2>2, <2>4, ReaderFromPrime
  <2>. QED
    BY <2>2, <2>3, <2>4
<1>14. CASE Prepare(c)
  <2>1. PICK m : m = Prepared(l)
    OBVIOUS
  <2>2. Becomes(c, m)
    BY <1>1, <1>14, <2>1 DEF Prepare, Prepared
  <2>. QED
    BY <1>4, <1>5, <2>1, <2>2, ReaderPrepared
<1>15. CASE EvaluateVotes(c)
  <2>1. PICK m : Becomes(c, m) /\ m \in {Return(l, "lost", l.prop), Go(l, "commit")}
    BY <1>1, <1>15 DEF EvaluateVotes
  <2>2. CASE m = Return(l, "lost", l.prop)
    <3>1. PICK kind, s : kind = "lost" /\ s = l.prop
      OBVIOUS
    <3>2. m = Return(l, kind, s) /\ (kind = "value" => s \in F)
      BY <2>2, <3>1
    <3>3. ReaderOK(m, F) /\ m.op = l.op
      BY <3>2, ReaderReturn
    <3>. QED
      BY <1>5, <2>1, <3>3
  <2>3. CASE m = Go(l, "commit")
    <3>1. PICK pc \in {"commit"} : m = Go(l, pc)
      BY <2>3
    <3>2. /\ pc \in Probing \cup {"evaluate", "commit", "down"}
          /\ pc = "readCache" /\ l.prime.found => l.prime.slot \in F
          /\ pc = "refresh" /\ l.op.op = "read" => l.prop \in F
      BY <3>1
    <3>3. ReaderOK(m, F) /\ m.op = l.op
      BY <1>4, <3>1, <3>2, ReaderGo
    <3>. QED
      BY <1>5, <2>1, <3>3
  <2>. QED
    BY <2>1, <2>2, <2>3
<1>16. CASE CommitBackup(c)
  <2>1. l.pc = "vote" /\ l.turn \in Backups
    BY <1>1, <1>16 DEF CommitBackup, CallInv, ControlOK
  <2>2. PICK vote \in Vote : Becomes(c, NextVote(l, vote))
    <3>1. l.probe.slot.tie \in Nat
      BY DEF Call, Probe, Slot
    <3>2. /\ [ok |-> TRUE, tie |-> 0] \in Vote
          /\ [ok |-> FALSE, tie |-> l.probe.slot.tie] \in Vote
      BY <3>1 DEF Vote
    <3>3. \E accepted \in BOOLEAN :
            Becomes(c, NextVote(l, IF accepted THEN [ok |-> TRUE, tie |-> 0]
                                   ELSE [ok |-> FALSE, tie |-> l.probe.slot.tie]))
      BY <1>1, <1>16 DEF CommitBackup
    <3>. QED
      BY <3>2, <3>3
  <2>3. PICK m : m = NextVote(l, vote)
    OBVIOUS
  <2>. QED
    BY <1>4, <1>5, <2>1, <2>2, <2>3, ReaderVote
<1>17. CASE RepairBackup(c)
  BY <1>1, <1>8, <1>17 DEF RepairBackup
<1>18. CASE RefreshCache(c)
  BY <1>1, <1>9, <1>18 DEF RefreshCache
<1>19. CASE ReadFails(c) \/ CommitFails(c)
  <2>1. PICK m : m = Failed(l)
    OBVIOUS
  <2>2. Becomes(c, m)
    BY <1>1, <1>19, <2>1 DEF ReadFails, CommitFails
  <2>. QED
    BY <1>1, <1>4, <1>5, <2>1, <2>2, ReaderFailed
<1>20. CASE Crash(c)
  <2>1. PICK pc \in {"down"} : pc = "down"
    OBVIOUS
  <2>2. PICK m : m = Go(l, pc)
    OBVIOUS
  <2>3. /\ Becomes(c, m) /\ pc \in Probing \cup {"evaluate", "commit", "down"}
        /\ pc = "readCache" /\ l.prime.found => l.prime.slot \in F
        /\ pc = "refresh" /\ l.op.op = "read" => l.prop \in F
    BY <1>1, <1>20, <2>1, <2>2 DEF Crash
  <2>4. ReaderOK(m, F) /\ m.op = l.op
    BY <1>4, <2>2, <2>3, ReaderGo
  <2>. QED
    BY <1>5, <2>3, <2>4
<1>. QED
  BY <1>6, <1>7, <1>11, <1>12, <1>13, <1>14, <1>15, <1>16, <1>17, <1>18, <1>19, <1>20

(* A commit to a primary is the current content of its key, and is fresh   *)
(* for every call that is under way.                                       *)
LEMMA ReadersInstall ==
  ASSUME IInv, ReadersInv, ~ Direct, KeysStay', config' = config,
         NEW to, NEW prop \in Slot, prop.key \in Keys, Install(to, prop),
         \A e \in installed : e.at = to => e.prop.visible < prop.visible,
         \A d \in Clients :
           \/ cn'[d] = cn[d]
           \/ cn[d].pc # "idle" /\ cn'[d].op = cn[d].op /\ ReaderOK(cn'[d], fresh'[d])
  PROVE  ReadersInv'
<1> DEFINE new == [at |-> to, prop |-> prop]
<1>1. /\ installed' = installed \cup {new} /\ cur' = [cur EXCEPT ![prop.key] = prop]
      /\ fresh' = [d \in Clients |->
                     IF cn[d].pc # "idle" /\ cn[d].op.key = prop.key
                     THEN fresh[d] \cup {prop} ELSE fresh[d]]
  BY DEF Install
<1>2. KeysStay
  BY <1>1 DEF KeysStay
<1>3. /\ CurrentInv /\ FreshInv /\ (\A d \in Clients : ReaderOK(cn[d], fresh[d]))
      /\ cur \in [Keys -> Slot] /\ \A e \in installed : e.prop \in Slot /\ e.prop.key \in Keys
  BY <1>2 DEF ReadersInv, IInv, Inv, InstalledInv, TypeOK
<1>4. cur'[prop.key] = prop /\ \A k : k # prop.key => cur'[k] = cur[k]
  BY <1>1, <1>3
<1>5. CurrentInv'
  <2>1. SUFFICES ASSUME NEW e \in installed'
                 PROVE  \E d \in installed' :
                          /\ d.prop = cur'[e.prop.key] /\ d.prop.key = e.prop.key
                          /\ e.prop.visible <= d.prop.visible
    BY DEF CurrentInv
  <2>2. new \in installed' /\ new.prop = prop /\ new.at = to /\ prop.visible \in Nat
    BY <1>1 DEF Slot
  <2>3. CASE e.prop.key = prop.key
    <3>1. e.at = to
      BY <2>2, <2>3 DEF KeysStay
    <3>2. e.prop.visible <= prop.visible
      <4>1. CASE e \in installed
        <5>1. e.prop.visible < prop.visible /\ e.prop.visible \in Nat
          BY <1>3, <3>1, <4>1 DEF Slot
        <5>. QED
          BY <2>2, <5>1
      <4>2. CASE e = new
        BY <2>2, <4>2
      <4>. QED
        BY <1>1, <4>1, <4>2
    <3>. QED
      BY <1>4, <2>2, <2>3, <3>2
  <2>4. CASE e.prop.key # prop.key
    <3>1. e \in installed
      BY <1>1, <2>2, <2>4
    <3>2. PICK d \in installed :
            /\ d.prop = cur[e.prop.key] /\ d.prop.key = e.prop.key
            /\ e.prop.visible <= d.prop.visible
      BY <1>3, <3>1 DEF CurrentInv
    <3>. QED
      BY <1>1, <1>4, <2>4, <3>2
  <2>. QED
    BY <2>3, <2>4
<1>6. ASSUME NEW d \in Clients PROVE fresh[d] \subseteq fresh'[d]
  BY <1>1
<1>7. FreshInv'
  <2>1. SUFFICES ASSUME NEW d \in Clients, cn'[d].pc # "idle"
                 PROVE  cur'[cn'[d].op.key] \in fresh'[d]
    BY DEF FreshInv
  <2>2. cn[d].pc # "idle" /\ cn'[d].op = cn[d].op /\ cur[cn[d].op.key] \in fresh[d]
    BY <1>3, <2>1 DEF FreshInv
  <2>3. CASE cn[d].op.key = prop.key
    BY <1>1, <1>4, <2>2, <2>3
  <2>4. CASE cn[d].op.key # prop.key
    BY <1>4, <1>6, <2>2, <2>4
  <2>. QED
    BY <2>3, <2>4
<1>8. installed \subseteq installed'
  BY <1>1
<1>9. ASSUME NEW d \in Clients PROVE ReaderOK(cn[d], fresh[d])'
  <2>1. \E l, F : /\ l = cn'[d] /\ F \subseteq fresh'[d] /\ ReaderOK(l, F)
    BY <1>3, <1>6
  <2>2. PICK l, F, G : l = cn'[d] /\ G = fresh'[d] /\ F \subseteq G /\ ReaderOK(l, F)
    BY <2>1
  <2>3. ReaderOK(l, G)'
    BY <1>8, <2>2, ReaderStays
  <2>4. cn'[d] = l /\ fresh'[d] = G
    BY <2>2
  <2>. QED
    BY <2>3, <2>4
<1>. QED
  BY <1>5, <1>7, <1>9 DEF ReadersInv

(* A commit that is justified has a higher epoch than those before it. *)
LEMMA EpochIsNew ==
  ASSUME IInv, NEW to, NEW compare \in Nat, NEW prop \in Slot,
         Justified(to, compare, prop), to[2] = "PRIME", slot[to].guard = compare,
         NEW e \in installed, e.at = to
  PROVE  e.prop.visible < prop.visible
<1>1. e.prop.visible <= compare /\ prop.visible = compare + 1
  BY DEF IInv, Inv, InstalledInv, Justified
<1>2. e.prop.visible \in Nat
  BY DEF IInv, TypeOK, Slot
<1>. QED
  BY <1>1, <1>2

(* The answer to the commit of a primary *)
LEMMA ReadersPrime ==
  ASSUME IInv, ReadersInv, ~ Direct, KeysStay, KeysStay', NEW c \in Clients, CommitPrime(c)
  PROVE  ReadersInv'
<1>1. PICK l \in Call : l = cn[c] /\ CallInv(l)
  BY DEF IInv, TypeOK, Inv
<1>2. /\ config' = config /\ l.pc = "commit" /\ l.op.op # "read" /\ KindOf(l) = "PRIME"
      /\ Committing(l) /\ cn \in [Clients -> Call] /\ TypeOK /\ InstalledInv
      /\ config \in Configs
  BY <1>1 DEF CommitPrime, others, CallInv, ControlOK, KindOf, Committing, IInv, Inv, TypeOK
<1>3. ReaderOK(l, fresh[c])
  BY <1>1 DEF ReadersInv
<1>4. \/ Accepted(l) /\ Install(CommitTo(l), l.prop) /\ Becomes(c, RepairFrom(l, 1))
      \/ UNCHANGED history /\ Becomes(c, Fail(l))
  BY <1>1 DEF CommitPrime, Resolved
<1>5. CASE Accepted(l) /\ Install(CommitTo(l), l.prop) /\ Becomes(c, RepairFrom(l, 1))
  <2>1. /\ Justified(CommitTo(l), CompareTo(l), l.prop) /\ CompareTo(l) \in Nat
        /\ CommitTo(l)[2] = "PRIME" /\ l.prop \in Slot
    BY <1>1, <1>2, CommitJustified DEF Call
  <2>2. PICK to, compare, prop :
          to = CommitTo(l) /\ compare = CompareTo(l) /\ prop = l.prop
    OBVIOUS
  <2>3. /\ Justified(to, compare, prop) /\ compare \in Nat /\ prop \in Slot
        /\ to[2] = "PRIME" /\ slot[to].guard = compare /\ Install(to, prop)
    BY <1>5, <2>1, <2>2 DEF Accepted, Matches
  <2>4. prop.key \in Keys /\ \A e \in installed : e.at = to => e.prop.visible < prop.visible
    BY <2>3, EpochIsNew DEF Justified
  <2>5. PICK m : m = RepairFrom(l, 1)
    OBVIOUS
  <2>6. cn'[c] = m /\ \A d \in Clients \ {c} : cn'[d] = cn[d]
    BY <1>2, <1>5, <2>5 DEF Becomes
  <2>7. PICK G : G = fresh'[c]
    OBVIOUS
  <2>8. fresh[c] \subseteq G
    BY <1>5, <2>7 DEF Install
  <2>9. AnswerFresh(l, G)
    BY <1>3, <2>8 DEF ReaderOK, AnswerFresh
  <2>10. ReaderOK(m, G) /\ m.op = l.op
    <3>1. 1 \in Nat
      OBVIOUS
    <3>. QED
      BY <1>2, <2>5, <2>9, <3>1, ReaderRepair
  <2>11. \A d \in Clients :
           \/ cn'[d] = cn[d]
           \/ cn[d].pc # "idle" /\ cn'[d].op = cn[d].op /\ ReaderOK(cn'[d], fresh'[d])
    BY <1>1, <1>2, <2>6, <2>7, <2>10
  <2>. QED
    BY <1>2, <2>3, <2>4, <2>11, ReadersInstall
<1>6. CASE UNCHANGED history /\ Becomes(c, Fail(l))
  <2>1. PICK m, F : m = Fail(l) /\ F = fresh[c]
    OBVIOUS
  <2>2. ReaderOK(m, F) /\ m.op = l.op
    BY <2>1, ReaderFail
  <2>3. installed' = installed /\ cur' = cur /\ fresh' = fresh /\ cn' = [cn EXCEPT ![c] = m]
    BY <1>6, <2>1 DEF history, Becomes
  <2>4. cn[c].pc # "idle" /\ m.op = cn[c].op /\ ReaderOK(m, fresh[c])
    BY <1>1, <1>2, <2>1, <2>2
  <2>. QED
    BY <1>2, <2>3, <2>4, ReadersKept
<1>. QED
  BY <1>4, <1>5, <1>6

(* A request whose caller has given up is executed. *)
LEMMA ReadersStray ==
  ASSUME IInv, ReadersInv, ~ Direct, KeysStay, KeysStay', ExecuteStray
  PROVE  ReadersInv'
<1>1. cn' = cn /\ config' = config
  BY DEF ExecuteStray
<1>2. PICK r \in stray :
        \/ UNCHANGED history
        \/ r.half /\ r.to[2] = "PRIME" /\ Install(r.to, r.prop)
  BY DEF ExecuteStray, StrayBody, StrayGuard
<1>3. PICK to, compare, prop : to = r.to /\ compare = r.compare /\ prop = r.prop
  OBVIOUS
<1>4. compare \in Nat /\ prop \in Slot /\ Justified(to, compare, prop)
  BY <1>3 DEF IInv, Inv, StrayInv, Request, TypeOK
<1>5. CASE r.half /\ to[2] = "PRIME" /\ Install(to, prop)
  <2>3. slot[to].guard = compare
    <3>1. slot[to] = [prop EXCEPT !.guard = compare]
      BY <1>3, <1>5 DEF IInv, Inv, RingInv, StrayLockInv
    <3>. QED
      BY <1>4, <3>1 DEF Slot
  <2>1. prop.key \in Keys /\ \A e \in installed : e.at = to => e.prop.visible < prop.visible
    BY <1>4, <1>5, <2>3, EpochIsNew DEF Justified
  <2>2. \A d \in Clients :
          \/ cn'[d] = cn[d]
          \/ cn[d].pc # "idle" /\ cn'[d].op = cn[d].op /\ ReaderOK(cn'[d], fresh'[d])
    BY <1>1
  <2>. QED
    BY <1>1, <1>4, <1>5, <2>1, <2>2, ReadersInstall
<1>6. CASE UNCHANGED history
  BY <1>1, <1>6 DEF ReadersInv, CurrentInv, FreshInv, ReaderOK, AnswerFresh, Committed,
                    history
<1>. QED
  BY <1>2, <1>3, <1>5, <1>6

(* A call begins; the content of its key is fresh. *)
LEMMA ReadersBegin ==
  ASSUME IInv, ReadersInv, ~ Direct, KeysStay, NEW c \in Clients, Begin(c)
  PROVE  ReadersInv'
<1>1. PICK o \in Workload[c][cn[c].calls + 1] :
        /\ Becomes(c, [Idle(cn[c].calls + 1, o, NoAnswer) EXCEPT
                         !.pc = IF o.op = "read" THEN "readPrime" ELSE "writePrime"])
        /\ fresh' = [fresh EXCEPT ![c] = {cur[o.key]}]
  BY DEF Begin
<1>2. PICK m : m = [Idle(cn[c].calls + 1, o, NoAnswer) EXCEPT
                      !.pc = IF o.op = "read" THEN "readPrime" ELSE "writePrime"]
  OBVIOUS
<1>3. /\ m.op = o /\ m.probe = NewProbe /\ m.answer.kind = "none"
      /\ m.pc \in {"readPrime", "writePrime"}
  BY <1>2 DEF Idle, NoAnswer
<1>4. /\ config' = config /\ installed' = installed /\ cur' = cur
      /\ cn \in [Clients -> Call] /\ fresh \in [Clients -> SUBSET Slot]
      /\ CurrentInv /\ FreshInv /\ \A d \in Clients : ReaderOK(cn[d], fresh[d])
  BY DEF Begin, others, IInv, TypeOK, ReadersInv
<1>5. /\ cn'[c] = m /\ fresh'[c] = {cur[o.key]}
      /\ \A d \in Clients \ {c} : cn'[d] = cn[d] /\ fresh'[d] = fresh[d]
  BY <1>1, <1>2, <1>4 DEF Becomes
<1>6. CurrentInv'
  BY <1>4 DEF CurrentInv
<1>7. FreshInv'
  BY <1>3, <1>4, <1>5 DEF FreshInv
<1>8. NewProbe.found = FALSE
  BY DEF NewProbe
<1>9. ASSUME NEW d \in Clients PROVE ReaderOK(cn[d], fresh[d])'
  <2>1. ReaderOK(cn'[d], fresh'[d])
    <3>1. CASE d = c
      BY <1>3, <1>5, <1>8, <3>1 DEF ReaderOK, AnswerFresh
    <3>2. CASE d # c
      BY <1>4, <1>5, <3>2
    <3>. QED
      BY <3>1, <3>2
  <2>2. PICK l, F : l = cn'[d] /\ F = fresh'[d] /\ ReaderOK(l, F)
    BY <2>1
  <2>3. ReaderOK(l, F)'
    BY <1>4, <2>2, ReaderStays
  <2>. QED
    BY <2>2, <2>3
<1>. QED
  BY <1>6, <1>7, <1>9 DEF ReadersInv

(* Every step keeps what readers know. *)
LEMMA ReadersNext == IInv /\ ReadersInv /\ [Next]_vars => ReadersInv'
<1> SUFFICES ASSUME IInv, ReadersInv, [Next]_vars, ~ Direct', KeysStay'
             PROVE  ReadersInv'
  BY DEF ReadersInv
<1>1. ASSUME config' = config, installed \subseteq installed' PROVE ~ Direct /\ KeysStay
  BY <1>1 DEF Direct, KeysStay
<1>2. ASSUME NEW c \in Clients,
             Begin(c) \/ Step(c) \/ ReadFails(c) \/ CommitFails(c) \/ Crash(c)
      PROVE  ReadersInv'
  <2>1. config' = config
    BY <1>2 DEF Step, others, Begin, ReadSlot, NoCandidate, ReadPrime, ReadCache, Prepare,
                EvaluateVotes, CommitBody, CommitBackup, CommitPrime, RepairBackup,
                RefreshCache, ReadFails, CommitFails, Crash
  <2>2. CASE CommitPrime(c)
    <3>1. installed \subseteq installed'
      BY <2>2 DEF CommitPrime, Install, history
    <3>. QED
      BY <1>1, <2>1, <2>2, <3>1, ReadersPrime
  <2>3. CASE ~ CommitPrime(c)
    <3>1. installed' = installed
      BY <1>2, <2>3 DEF Step, history, Begin, ReadSlot, NoCandidate, ReadPrime, ReadCache,
                        Prepare, EvaluateVotes, CommitBody, CommitBackup, RepairBackup,
                        RefreshCache, ReadFails, CommitFails, Crash
    <3>2. ~ Direct /\ KeysStay
      BY <1>1, <2>1, <3>1
    <3>. QED
      BY <1>2, <2>3, <3>2, ReadersBegin, ReadersLocal DEF Step
  <2>. QED
    BY <2>2, <2>3
<1>3. ASSUME ExecuteStray PROVE ReadersInv'
  <2>1. config' = config /\ installed \subseteq installed'
    BY <1>3 DEF ExecuteStray, StrayBody, StrayGuard, Install, history
  <2>. QED
    BY <1>1, <1>3, <2>1, ReadersStray
<1>4. ASSUME UNCHANGED <<config, cn, installed, cur, fresh>> PROVE ReadersInv'
  <2>1. ~ Direct /\ KeysStay
    BY <1>1, <1>4
  <2>. QED
    BY <1>4, <2>1 DEF ReadersInv, CurrentInv, FreshInv, ReaderOK, AnswerFresh, Committed
<1>5. ASSUME NEW n \in Nodes, Evict(n) PROVE ReadersInv'
  BY <1>4, <1>5 DEF Evict, history
<1>6. ASSUME UNCHANGED vars PROVE ReadersInv'
  BY <1>4, <1>6 DEF vars
<1>. QED
  BY <1>2, <1>3, <1>5, <1>6 DEF Next, Done

(* The invariant of the readers *)
LEMMA ReadersAlways == Spec => []ReadersInv
<1>1. Init => ReadersInv
  <2>1. SUFFICES ASSUME Init PROVE ReadersInv
    OBVIOUS
  <2>2. PICK l : l = Idle(0, NoOp, NoAnswer)
    OBVIOUS
  <2>3. l.pc = "idle" /\ l.answer.kind = "none"
    BY <2>2 DEF Idle, NoAnswer
  <2>4. cn = [c \in Clients |-> l] /\ installed = {}
    BY <2>1, <2>2 DEF Init
  <2>. QED
    BY <2>3, <2>4 DEF ReadersInv, CurrentInv, FreshInv, ReaderOK, AnswerFresh
<1>. QED
  BY <1>1, ReadersNext, Invariant, PTL DEF Spec

(* Ring path, as long as no key has been committed to two slots: what a    *)
(* read answers was the last thing committed for its key at some moment of *)
(* the read, whether it comes from a primary or from a cache, and whatever *)
(* commits, failures, late requests and evictions fall into the read.      *)
THEOREM ReadsAreFresh == Spec => [](~ Direct /\ KeysStay => ReadsFresh)
<1>1. ReadersInv => (~ Direct /\ KeysStay => ReadsFresh)
  BY DEF ReadersInv, ReaderOK, AnswerFresh, ReadsFresh
<1>. QED
  BY <1>1, ReadersAlways, PTL

-----------------------------------------------------------------------------
(* One slot of a primary                                                   *)

(* A key is only committed to slots of its primary. *)
HomeInv ==
  \A e \in installed : \E i \in 0 .. Count["PRIME"] - 1 : e.at = Home(e.prop.key, i)

(* A commit that is justified is one to the primary of its key. *)
LEMMA JustifiedHome ==
  ASSUME TypeOK, NEW to, NEW compare, NEW prop, Justified(to, compare, prop), to[2] = "PRIME"
  PROVE  \E i \in 0 .. Count["PRIME"] - 1 : to = Home(prop.key, i)
<1>1. Placed(prop.key, to) /\ prop.key \in Keys
  BY DEF Justified
<1>2. PICK j \in 0 .. Count["PRIME"] - 1 : to = PrimeAt(prop.key, j)
  BY <1>1 DEF Placed
<1>3. Count["PRIME"] \in Nat
  BY ConfigType DEF TypeOK, Kinds
<1>4. IndexOf("PRIME", prop.key, j) \in 0 .. Count["PRIME"] - 1
  BY <1>1, <1>3, IndexType DEF TypeOK, Kinds
<1>. QED
  BY <1>2, <1>4 DEF PrimeAt

(* Every step commits keys to their primary only. *)
LEMMA HomeNext == IInv /\ HomeInv /\ [Next]_vars => HomeInv'
<1> SUFFICES ASSUME IInv, HomeInv, [Next]_vars PROVE HomeInv'
  OBVIOUS
<1>1. TypeOK
  BY DEF IInv
<1>2. ASSUME config' = config PROVE Count' = Count /\ \A k, i : Home(k, i)' = Home(k, i)
  BY <1>2 DEF Count, Home, Node, NodeCount
<1>3. ASSUME config' = config, installed' = installed PROVE HomeInv'
  BY <1>2, <1>3 DEF HomeInv
<1>4. ASSUME config' = config, NEW to, NEW compare, NEW prop, Justified(to, compare, prop),
             to[2] = "PRIME", Install(to, prop)
      PROVE  HomeInv'
  <2>1. \E i \in 0 .. Count["PRIME"] - 1 : to = Home(prop.key, i)
    BY <1>1, <1>4, JustifiedHome
  <2>2. PICK new : new = [at |-> to, prop |-> prop]
    OBVIOUS
  <2>3. installed' = installed \cup {new} /\ new.at = to /\ new.prop = prop
    BY <1>4, <2>2 DEF Install
  <2>4. \A e \in installed' : \E i \in 0 .. Count["PRIME"] - 1 : e.at = Home(e.prop.key, i)
    BY <2>1, <2>3 DEF HomeInv
  <2>. QED
    BY <1>2, <1>4, <2>4 DEF HomeInv
<1>5. ASSUME NEW c \in Clients,
             Begin(c) \/ Step(c) \/ ReadFails(c) \/ CommitFails(c) \/ Crash(c)
      PROVE  HomeInv'
  <2>1. config' = config
    BY <1>5 DEF Step, others, Begin, ReadSlot, NoCandidate, ReadPrime, ReadCache, Prepare,
                EvaluateVotes, CommitBody, CommitBackup, CommitPrime, RepairBackup,
                RefreshCache, ReadFails, CommitFails, Crash
  <2>2. CASE CommitPrime(c)
    <3>1. PICK l \in Call : l = cn[c] /\ CallInv(l)
      BY DEF IInv, TypeOK, Inv
    <3>2. Committing(l) /\ KindOf(l) = "PRIME" /\ TypeOK /\ InstalledInv
      BY <2>2, <3>1 DEF CommitPrime, Committing, KindOf, IInv, Inv
    <3>3. Justified(CommitTo(l), CompareTo(l), l.prop) /\ CommitTo(l)[2] = "PRIME"
      BY <3>1, <3>2, CommitJustified
    <3>4. Install(CommitTo(l), l.prop) \/ UNCHANGED history
      BY <2>2, <3>1 DEF CommitPrime
    <3>. QED
      BY <1>3, <1>4, <2>1, <3>3, <3>4 DEF history
  <2>3. CASE ~ CommitPrime(c)
    <3>1. installed' = installed
      BY <1>5, <2>3 DEF Step, history, Begin, ReadSlot, NoCandidate, ReadPrime, ReadCache,
                        Prepare, EvaluateVotes, CommitBody, CommitBackup, RepairBackup,
                        RefreshCache, ReadFails, CommitFails, Crash
    <3>. QED
      BY <1>3, <2>1, <3>1
  <2>. QED
    BY <2>2, <2>3
<1>6. ASSUME ExecuteStray PROVE HomeInv'
  <2>1. PICK r \in stray :
          \/ UNCHANGED history
          \/ r.to[2] = "PRIME" /\ Install(r.to, r.prop)
    BY <1>6 DEF ExecuteStray, StrayBody, StrayGuard, history
  <2>2. config' = config /\ Justified(r.to, r.compare, r.prop)
    BY <1>6 DEF ExecuteStray, IInv, Inv, StrayInv
  <2>. QED
    BY <1>3, <1>4, <2>1, <2>2 DEF history
<1>7. ASSUME NEW n \in Nodes, Evict(n) PROVE HomeInv'
  BY <1>3, <1>7 DEF Evict, history
<1>8. ASSUME UNCHANGED vars PROVE HomeInv'
  BY <1>3, <1>8 DEF vars
<1>. QED
  BY <1>5, <1>6, <1>7, <1>8 DEF Next, Done

(* Ring path, when each node has one slot for primaries: reads are fresh,  *)
(* because a key has one slot to be in.                                    *)
THEOREM OneSlotReadsFresh == Spec => [](~ Direct /\ Count["PRIME"] = 1 => ReadsFresh)
<1>1. Init => HomeInv
  BY DEF Init, HomeInv
<1>2. HomeInv /\ Count["PRIME"] = 1 => KeysStay
  <2>1. SUFFICES ASSUME HomeInv, Count["PRIME"] = 1, NEW d \in installed, NEW e \in installed,
                        d.prop.key = e.prop.key
                 PROVE  d.at = e.at
    BY DEF KeysStay
  <2>2. \A i \in 0 .. Count["PRIME"] - 1 : i = 0
    BY <2>1
  <2>3. d.at = Home(d.prop.key, 0) /\ e.at = Home(e.prop.key, 0)
    BY <2>1, <2>2 DEF HomeInv
  <2>. QED
    BY <2>1, <2>3
<1>. QED
  BY <1>1, <1>2, HomeNext, Invariant, ReadsAreFresh, PTL DEF Spec

(* Ring path, as long as no key has been committed to two slots: once a     *)
(* deletion is the last thing committed for a key, no PRIME slot holds it. *)
(* What brings a deleted key back is its second slot (find_resurrected).   *)
THEOREM DeletedStaysGone == Spec => [](~ Direct /\ KeysStay => DeletedIsGone)
<1>1. IInv /\ ReadersInv => (~ Direct /\ KeysStay => DeletedIsGone)
  <2>1. SUFFICES ASSUME IInv, ReadersInv, ~ Direct, KeysStay, NEW k \in Keys,
                        cur[k].flag = "tombstone", NEW l \in PrimeSlots, Present(slot[l], k)
                 PROVE  FALSE
    BY DEF DeletedIsGone
  <2>2. CurrentInv
    BY <2>1 DEF ReadersInv
  <2>3. slot[l] = cur[k]
    BY <2>1, <2>2, CurrentSlot DEF Present
  <2>. QED
    BY <2>1, <2>3 DEF Present
<1>. QED
  BY <1>1, Invariant, ReadersAlways, PTL
=============================================================================
