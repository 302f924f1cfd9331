------------------------------- MODULE Cluster -------------------------------
(***************************************************************************)
(* The key-value protocol of the compute nodes (tdx-dist/src/cluster.c)    *)
(* on the slots of the memory nodes.                                       *)
(*                                                                         *)
(* A compute node runs one call at a time.  Each READ of a slot is one     *)
(* action.  A commit has two steps, because it writes the body of the slot *)
(* and then its guard epoch and a READ may fall in between:                *)
(*  - on the request ring (Direct = FALSE) the memory node looks at the    *)
(*    guard first and holds its region lock over both steps;               *)
(*  - on the TCP and RDMA-message paths (Direct = TRUE) the compute node   *)
(*    itself writes the body, unconditionally, and then sends a CAS.       *)
(* What the request ring does between a submission and its execution is    *)
(* the subject of RequestRing; here a request is executed at some moment   *)
(* of the call, or the call fails and it is executed later or never.       *)
(***************************************************************************)
EXTENDS SlotProbe, Sequences

CONSTANTS
  Clients,   \* compute nodes
  Hash,      \* Hash[k], the hash of key k
  Tie,       \* Tie[k][v], td_crypto_tie_breaker of a proposal (see README)
  Configs    \* the deployments to look at, see Config

Kinds == {"PRIME", "CACHE", "BACKUP"}
Ops   == [op : {"read", "write", "update", "delete"}, key : Keys,
          value : Values \cup {NoValue}]

(* A deployment: the configuration files of its nodes, what its compute    *)
(* nodes do, and the bounds.                                               *)
Config ==
  [nodes        : Nat \ {0},              \* memory nodes, from 0 on
   count        : [Kinds -> Nat \ {0}],   \* slots of each region kind
   replication  : Nat \ {0},              \* copies of a key, the primary included
   cache        : BOOLEAN,                \* cache = on
   direct       : BOOLEAN,                \* body WRITE and guard CAS, no ring
   workload     : [Clients -> Seq(SUBSET Ops)],   \* per call, what it may be
   maxFaults    : Nat,                    \* bound: failed operations and crashes
   maxEvictions : Nat]                    \* bound: eviction passes

ASSUME HashAssumption == Hash \in [Keys -> Nat]
ASSUME TieAssumption  == Tie \in [Keys -> [Values \cup {NoValue} -> Nat]]
ASSUME ConfigsAssumption ==
  \A g \in Configs : g \in Config /\ (g.direct => g.maxFaults = 0)

VARIABLES
  config,     \* the deployment, never changed
  slot,       \* the slots, by location
  cn,         \* the state of each compute node's call
  stray,      \* ring requests whose caller has given up
  faults,     \* failures so far
  evictions,  \* eviction passes so far
  installed,  \* history: what was ever committed to a PRIME slot, and to which
  cur,        \* history: the last of them, by key
  fresh       \* history: what was last committed for its key during the call

vars == <<config, slot, cn, stray, faults, evictions, installed, cur, fresh>>

-----------------------------------------------------------------------------
Nodes        == 0 .. config.nodes - 1
NodeCount    == config.nodes
Count        == config.count
Replication  == config.replication
CacheOn      == config.cache
Direct       == config.direct
Workload     == config.workload
MaxFaults    == config.maxFaults
MaxEvictions == config.maxEvictions

(* Where a key lives.  Ordinal 0 is its primary, the others its backups. *)
Node(k, ordinal) == (Hash[k] + ordinal) % NodeCount

BackupCount == (IF Replication > NodeCount THEN NodeCount ELSE Replication) - 1
Backups     == 1 .. BackupCount

Locations ==
  UNION {{<<n, kind, i>> : i \in 0 .. Count[kind] - 1} : n \in Nodes, kind \in Kinds}

PrimeSlots  == {l \in DOMAIN slot : l[2] = "PRIME"}
CacheSlots  == {l \in DOMAIN slot : l[2] = "CACHE"}
BackupSlots == {l \in DOMAIN slot : l[2] = "BACKUP"}

(* The i-th slot a probe for k looks at *)
IndexOf(kind, k, i) == (Hash[k] + i) % Count[kind]

-----------------------------------------------------------------------------
(* The state of a call.  pc names the loop or decision it is in; probe is  *)
(* the probe of that loop, prime the finished probe of the PRIME region.   *)
Answer ==
  [kind : {"none", "ok", "value", "notFound", "error", "lost"}, slot : Slot]

NoAnswer == [kind |-> "none", slot |-> ZeroSlot]

Idle(calls, op, answer) ==
  [pc |-> "idle", calls |-> calls, op |-> op, answer |-> answer,
   probe |-> NewProbe, prime |-> NewProbe, prop |-> ZeroSlot,
   turn |-> 0, votes |-> [b \in Backups |-> NoVote], half |-> FALSE]

NoOp == CHOOSE o \in Ops : TRUE

Probing == {"readPrime", "readCache", "refresh", "writePrime", "vote", "repair"}

Go(l, pc) == [l EXCEPT !.pc = pc, !.probe = NewProbe, !.half = FALSE]

Return(l, kind, s) == Idle(l.calls, l.op, [kind |-> kind, slot |-> s])

(* An error keeps the proposal, if the call came as far as making one. *)
Fail(l) == Return(l, "error", IF l.op.op = "read" THEN ZeroSlot ELSE l.prop)

Finish(l) == Return(l, IF l.op.op = "read" THEN "value" ELSE "ok", l.prop)

(* td_refresh_cache_best_effort *)
Refresh(l) == IF CacheOn THEN Go(l, "refresh") ELSE Finish(l)

(* The second half of td_cluster_read_value: no cache hit *)
FromPrime(l) ==
  IF l.prime.found /\ Present(l.prime.slot, l.op.key)
  THEN Refresh([l EXCEPT !.prop = l.prime.slot])
  ELSE Return(l, "notFound", ZeroSlot)

(* Faulty variant: asks one backup too many *)
NextVoteTooMany(l, vote) ==
  Go([l EXCEPT !.votes[l.turn] = vote, !.turn = @ + 1],
     IF l.turn <= BackupCount THEN "vote" ELSE "evaluate")

NextVote(l, vote) ==
  Go([l EXCEPT !.votes[l.turn] = vote, !.turn = @ + 1],
     IF l.turn < BackupCount THEN "vote" ELSE "evaluate")

(* The repair loop, from ordinal b on *)
RepairFrom(l, b) ==
  LET lost == {i \in Backups : i >= b /\ ~ l.votes[i].ok}
  IN IF lost = {} THEN Refresh(l)
     ELSE Go([l EXCEPT !.turn = CHOOSE i \in lost : \A j \in lost : i <= j],
             "repair")

-----------------------------------------------------------------------------
(* The slot that a call is about to read or to commit *)
KindOf(l) ==
  CASE l.pc \in {"readPrime", "writePrime", "commit"} -> "PRIME"
    [] l.pc \in {"readCache", "refresh"}              -> "CACHE"
    [] l.pc \in {"vote", "repair"}                    -> "BACKUP"

NodeOf(l) == Node(l.op.key, IF KindOf(l) = "BACKUP" THEN l.turn ELSE 0)

Over(l) == l.probe.over \/ l.probe.examined = Count[KindOf(l)]

(* "region kind %d is full" *)
Full(l) == Over(l) /\ ~ l.probe.valid

ReadIndex(l) == IndexOf(KindOf(l), l.op.key, l.probe.examined)

(* The probe that found the slot to commit, which also gives the epoch the *)
(* commit compares with.                                                   *)
Target(l)    == IF l.pc = "commit" THEN l.prime ELSE l.probe
CommitTo(l)  == <<NodeOf(l), KindOf(l), Target(l).at>>
CompareTo(l) == Target(l).slot.guard

Committing(l) ==
  \/ l.pc = "commit"
  \/ l.pc \in {"vote", "repair", "refresh"} /\ Over(l) /\ l.probe.valid

(* The region lock of a memory node is held by a ring commit, whether its  *)
(* caller still waits for it or not.                                       *)
Locked(n) ==
  /\ ~ Direct
  /\ \/ \E c \in Clients : cn[c].half /\ NodeOf(cn[c]) = n
     \/ \E r \in stray : r.half /\ r.to[1] = n

(* Faulty variant: the epoch is increased twice *)
ProposalSkips(o, e) ==
  [guard |-> e + 2, visible |-> e + 2, key |-> o.key,
   flag  |-> IF o.op = "delete" THEN "tombstone" ELSE "valid",
   value |-> o.value, tie |-> Tie[o.key][o.value]]

(* The proposal as td_crypto_make_slot builds it, after epoch e *)
Proposal(o, e) ==
  [guard |-> e + 1, visible |-> e + 1, key |-> o.key,
   flag  |-> IF o.op = "delete" THEN "tombstone" ELSE "valid",
   value |-> o.value, tie |-> Tie[o.key][o.value]]

Init ==
  /\ config \in Configs
  /\ slot = [l \in Locations |-> ZeroSlot]
  /\ cn = [c \in Clients |-> Idle(0, NoOp, NoAnswer)]
  /\ stray = {}
  /\ faults = 0
  /\ evictions = 0
  /\ installed = {}
  /\ cur = [k \in Keys |-> ZeroSlot]
  /\ fresh = [c \in Clients |-> {}]

history == <<installed, cur, fresh>>
others  == <<config, stray, faults, evictions>>

Becomes(c, l) == cn' = [cn EXCEPT ![c] = l]

-----------------------------------------------------------------------------
(* td_cluster_read_kv, _write_kv, _update_kv, _delete_kv are called. *)
Begin(c) ==
  /\ cn[c].pc = "idle"
  /\ cn[c].calls < Len(Workload[c])
  /\ \E o \in Workload[c][cn[c].calls + 1] :
       /\ Becomes(c, [Idle(cn[c].calls + 1, o, NoAnswer) EXCEPT
                        !.pc = IF o.op = "read" THEN "readPrime" ELSE "writePrime"])
       /\ fresh' = [fresh EXCEPT ![c] = {cur[o.key]}]
  /\ UNCHANGED <<slot, others, installed, cur>>

(* td_fetch_slot_at in the loop of td_probe_slot *)
ReadSlot(c) ==
  LET l == cn[c]
      i == ReadIndex(l)
  IN /\ l.pc \in Probing /\ ~ Over(l)
     /\ Becomes(c, [l EXCEPT !.probe =
                      Examined(@, slot[<<NodeOf(l), KindOf(l), i>>], i, l.op.key)])
     /\ UNCHANGED <<slot, others, history>>

(* What td_cluster_read_value does after each probe *)
ReadPrime(c) ==
  LET l == cn[c] IN
  /\ l.pc = "readPrime" /\ Over(l)
  /\ Becomes(c, IF Full(l) THEN Fail(l)
                ELSE LET m == [l EXCEPT !.prime = l.probe]
                     IN IF CacheOn THEN Go(m, "readCache") ELSE FromPrime(m))
  /\ UNCHANGED <<slot, others, history>>

(* Faulty variant: any copy of the key in the cache will do *)
CacheConsistentAnyEpoch(l) ==
  l.probe.found /\ l.prime.found /\ Present(l.probe.slot, l.op.key)

CacheConsistent(l) ==
  /\ l.probe.found /\ l.prime.found
  /\ l.probe.slot.guard = l.prime.slot.guard
  /\ l.probe.slot.visible = l.prime.slot.visible
  /\ Present(l.probe.slot, l.op.key)

ReadCache(c) ==
  LET l == cn[c] IN
  /\ l.pc = "readCache" /\ Over(l)
  /\ Becomes(c, IF ~ Full(l) /\ CacheConsistent(l)
                THEN Return(l, "value", l.probe.slot)
                ELSE FromPrime(l))
  /\ UNCHANGED <<slot, others, history>>

(* What td_cluster_write_value does after the probe of the PRIME region *)
(* Faulty variant: a deleted key may be updated *)
NotUpdatableUnlessFound(l) == l.op.op = "update" /\ ~ l.probe.found

NotUpdatable(l) ==
  l.op.op = "update" /\ ~ (l.probe.found /\ Present(l.probe.slot, l.op.key))

Prepare(c) ==
  LET l == cn[c]
      m == [l EXCEPT !.prime = l.probe, !.turn = 1,
                     !.prop = Proposal(l.op, l.probe.slot.guard)]
  IN /\ l.pc = "writePrime" /\ Over(l)
     /\ Becomes(c, IF Full(l) \/ NotUpdatable(l) THEN Fail(l)
                   ELSE Go(m, IF BackupCount = 0 THEN "evaluate" ELSE "vote"))
     /\ UNCHANGED <<slot, others, history>>

(* A probe of a BACKUP or CACHE region that found no candidate *)
NoCandidate(c) ==
  LET l == cn[c] IN
  /\ l.pc \in {"vote", "repair", "refresh"} /\ Full(l)
  /\ Becomes(c, CASE l.pc = "vote"    -> Fail(l)
                  [] l.pc = "repair"  -> RepairFrom(l, l.turn + 1)
                  [] l.pc = "refresh" -> Finish(l))
  /\ UNCHANGED <<slot, others, history>>

-----------------------------------------------------------------------------
(* The two steps of a commit, td_commit_slot_at *)

(* Faulty variant: any epoch that is not behind the expected one will do *)
MatchesLater(l) == slot[CommitTo(l)].guard >= CompareTo(l)

Matches(l) == slot[CommitTo(l)].guard = CompareTo(l)

WithBody(s, prop) == [prop EXCEPT !.guard = s.guard]

CommitBody(c) ==
  LET l == cn[c] IN
  /\ Committing(l) /\ ~ l.half
  /\ Direct \/ (~ Locked(NodeOf(l)) /\ Matches(l))
  /\ slot' = [slot EXCEPT ![CommitTo(l)] = WithBody(@, l.prop)]
  /\ Becomes(c, [l EXCEPT !.half = TRUE])
  /\ UNCHANGED <<others, history>>

(* The guard is written ... *)
Accepted(l) ==
  /\ l.half /\ Matches(l)
  /\ slot' = [slot EXCEPT ![CommitTo(l)].guard = l.prop.visible]

(* ... or the answer carries another epoch than the expected one. *)
Rejected(l) ==
  /\ IF Direct THEN l.half ELSE ~ l.half /\ ~ Locked(NodeOf(l))
  /\ ~ Matches(l)
  /\ UNCHANGED slot

Resolved(l, accepted) ==
  Committing(l) /\ IF accepted THEN Accepted(l) ELSE Rejected(l)

(* A proposal committed to PRIME slot l is the current content of its key. *)
Install(l, prop) ==
  /\ installed' = installed \cup {[at |-> l, prop |-> prop]}
  /\ cur' = [cur EXCEPT ![prop.key] = prop]
  /\ fresh' = [d \in Clients |->
                IF cn[d].pc # "idle" /\ cn[d].op.key = prop.key
                THEN fresh[d] \cup {prop} ELSE fresh[d]]

CommitBackup(c) ==
  /\ cn[c].pc = "vote"
  /\ \E accepted \in BOOLEAN :
       /\ Resolved(cn[c], accepted)
       /\ Becomes(c, NextVote(cn[c],
                        IF accepted THEN [ok |-> TRUE, tie |-> 0]
                        ELSE [ok |-> FALSE, tie |-> cn[c].probe.slot.tie]))
  /\ UNCHANGED <<others, history>>

(* Losing means to wait a while for the winner and to fail all the same. *)
EvaluateVotes(c) ==
  LET l == cn[c] IN
  /\ l.pc = "evaluate"
  /\ Becomes(c, IF Rule(l.votes, Backups, l.prop.tie) = 0
                THEN Return(l, "lost", l.prop) ELSE Go(l, "commit"))
  /\ UNCHANGED <<slot, others, history>>

(* Faulty variant: does not compare the observed epoch *)
CommitPrimeUnchecked(c) ==
  /\ cn[c].pc = "commit"
  /\ \E accepted \in BOOLEAN :
       /\ Resolved(cn[c], accepted)
       /\ IF accepted THEN Install(CommitTo(cn[c]), cn[c].prop) ELSE UNCHANGED history
       /\ Becomes(c, RepairFrom(cn[c], 1))
  /\ UNCHANGED others

(* Faulty variant: a lost vote is an error although the primary committed *)
CommitPrimeAllVotes(c) ==
  /\ cn[c].pc = "commit"
  /\ \E accepted \in BOOLEAN :
       /\ Resolved(cn[c], accepted)
       /\ IF accepted THEN Install(CommitTo(cn[c]), cn[c].prop) ELSE UNCHANGED history
       /\ Becomes(c, IF accepted /\ \A b \in Backups : cn[c].votes[b].ok
                     THEN RepairFrom(cn[c], 1) ELSE Fail(cn[c]))
  /\ UNCHANGED others

CommitPrime(c) ==
  /\ cn[c].pc = "commit"
  /\ \E accepted \in BOOLEAN :
       /\ Resolved(cn[c], accepted)
       /\ IF accepted
          THEN Install(CommitTo(cn[c]), cn[c].prop) /\ Becomes(c, RepairFrom(cn[c], 1))
          ELSE UNCHANGED history /\ Becomes(c, Fail(cn[c]))
  /\ UNCHANGED others

(* Faulty variant: repairs the same backup again and again *)
RepairBackupForever(c) ==
  /\ cn[c].pc = "repair"
  /\ \E accepted \in BOOLEAN : Resolved(cn[c], accepted)
  /\ Becomes(c, RepairFrom(cn[c], cn[c].turn))
  /\ UNCHANGED <<others, history>>

RepairBackup(c) ==
  /\ cn[c].pc = "repair"
  /\ \E accepted \in BOOLEAN : Resolved(cn[c], accepted)
  /\ Becomes(c, RepairFrom(cn[c], cn[c].turn + 1))
  /\ UNCHANGED <<others, history>>

RefreshCache(c) ==
  /\ cn[c].pc = "refresh"
  /\ \E accepted \in BOOLEAN : Resolved(cn[c], accepted)
  /\ Becomes(c, Finish(cn[c]))
  /\ UNCHANGED <<others, history>>

-----------------------------------------------------------------------------
(* Failures.  Each failed operation is one fault; a broken session shows   *)
(* as several of them.                                                     *)

(* What a call goes on with when its operation returned -1 *)
Failed(l) ==
  CASE l.pc = "readCache"             -> FromPrime(l)
    [] l.pc = "repair"                -> RepairFrom(l, l.turn + 1)
    [] l.pc = "refresh"               -> Finish(l)
    [] l.pc = "vote" /\ Committing(l) -> NextVote(l, [ok |-> FALSE, tie |-> l.probe.slot.tie])
    [] OTHER                          -> Fail(l)

ReadFails(c) ==
  /\ faults < MaxFaults
  /\ cn[c].pc \in Probing /\ ~ Over(cn[c])
  /\ Becomes(c, Failed(cn[c]))
  /\ faults' = faults + 1
  /\ UNCHANGED <<config, slot, stray, evictions, history>>

(* A request that nobody waits for any more may still be in the ring. *)
Strays(l) ==
  {stray, stray \cup {[to |-> CommitTo(l), compare |-> CompareTo(l), prop |-> l.prop,
                      half |-> FALSE]}}

(* The ring's deadline passes, or an operation on the ring fails. *)
CommitFails(c) ==
  /\ faults < MaxFaults
  /\ Committing(cn[c]) /\ ~ cn[c].half
  /\ stray' \in Strays(cn[c])
  /\ Becomes(c, Failed(cn[c]))
  /\ faults' = faults + 1
  /\ UNCHANGED <<config, slot, evictions, history>>

Crash(c) ==
  /\ faults < MaxFaults
  /\ cn[c].pc \notin {"idle", "down"} /\ ~ cn[c].half
  /\ stray' \in IF Committing(cn[c]) THEN Strays(cn[c]) ELSE {stray}
  /\ Becomes(c, Go(cn[c], "down"))
  /\ faults' = faults + 1
  /\ UNCHANGED <<config, slot, evictions, history>>

(* The memory node executes such a request like any other: it compares     *)
(* the guard and writes the body ...                                       *)
StrayBody(r) ==
  /\ ~ r.half /\ ~ Locked(r.to[1])
  /\ IF slot[r.to].guard = r.compare
     THEN /\ slot' = [slot EXCEPT ![r.to] = WithBody(@, r.prop)]
          /\ stray' = (stray \ {r}) \cup {[r EXCEPT !.half = TRUE]}
     ELSE stray' = stray \ {r} /\ UNCHANGED slot
  /\ UNCHANGED history

(* ... and then the guard. *)
StrayGuard(r) ==
  /\ r.half
  /\ slot' = [slot EXCEPT ![r.to].guard = r.prop.visible]
  /\ stray' = stray \ {r}
  /\ IF r.to[2] = "PRIME" THEN Install(r.to, r.prop) ELSE UNCHANGED history

ExecuteStray ==
  /\ \E r \in stray : StrayBody(r) \/ StrayGuard(r)
  /\ UNCHANGED <<config, cn, faults, evictions>>

(* An eviction pass on node n clears slots of its CACHE region; which ones *)
(* is the subject of Eviction.                                             *)
Evict(n) ==
  /\ evictions < MaxEvictions
  /\ ~ Locked(n)
  /\ \E gone \in SUBSET {l \in CacheSlots : l[1] = n /\ slot[l].flag # "none"} :
       /\ gone # {}
       /\ slot' = [l \in DOMAIN slot |-> IF l \in gone THEN ZeroSlot ELSE slot[l]]
  /\ evictions' = evictions + 1
  /\ UNCHANGED <<config, cn, stray, faults, history>>

-----------------------------------------------------------------------------
Step(c) ==
  \/ ReadSlot(c) \/ NoCandidate(c)
  \/ ReadPrime(c) \/ ReadCache(c)
  \/ Prepare(c) \/ EvaluateVotes(c)
  \/ CommitBody(c)
  \/ CommitBackup(c) \/ CommitPrime(c) \/ RepairBackup(c) \/ RefreshCache(c)

(* All calls of the workload are made. *)
Done ==
  /\ \A c \in Clients :
       cn[c].pc = "down" \/ (cn[c].pc = "idle" /\ cn[c].calls = Len(Workload[c]))
  /\ UNCHANGED vars

Next ==
  \/ \E c \in Clients :
       Begin(c) \/ Step(c) \/ ReadFails(c) \/ CommitFails(c) \/ Crash(c)
  \/ ExecuteStray
  \/ \E n \in Nodes : Evict(n)
  \/ Done

Spec == Init /\ [][Next]_vars

-----------------------------------------------------------------------------
(* Properties *)

Call ==
  [pc : Probing \cup {"idle", "evaluate", "commit", "down"}, calls : Nat,
   op : Ops, answer : Answer, probe : Probe, prime : Probe, prop : Slot,
   turn : 0 .. BackupCount + 1, votes : [Backups -> Vote], half : BOOLEAN]

Request == [to : Locations, compare : Nat, prop : Slot, half : BOOLEAN]

(* Every variable has its type. *)
TypeOK ==
  /\ config \in Configs
  /\ slot \in [Locations -> Slot]
  /\ cn \in [Clients -> Call]
  /\ stray \subseteq Request
  /\ faults \in Nat /\ evictions \in Nat
  /\ installed \subseteq [at : PrimeSlots, prop : Slot]
  /\ cur \in [Keys -> Slot]
  /\ fresh \in [Clients -> SUBSET Slot]

Writes(c) == cn[c].op.op # "read"

(* Writes of a memory node are atomic (skill.md): an acknowledged write    *)
(* was committed to a PRIME slot and is not lost; it is still there, or a  *)
(* later epoch of that slot has replaced it.                               *)
WritesAreAtomic ==
  \A c \in Clients : Writes(c) /\ cn[c].answer.kind = "ok" =>
    \E e \in installed :
      /\ e.prop = cn[c].answer.slot
      /\ \/ slot[e.at] = e.prop
         \/ slot[e.at].visible > e.prop.visible

(* On the ring path, where the memory node commits under its lock, no      *)
(* acknowledged write is lost.                                             *)
AcknowledgedStays == ~ Direct => WritesAreAtomic

(* Concurrent proposals for one epoch of one slot have one winner. *)
OneWinner ==
  \A d, e \in installed :
    d.at = e.at /\ d.prop.visible = e.prop.visible => d.prop = e.prop

(* What the cache holds was committed to a PRIME region before: neither a  *)
(* losing proposal nor one that only reached a backup can be read from it  *)
(* (on the ring path; on the other a cache body may be replaced at any     *)
(* time, see WritesAreAtomic).                                             *)
CacheIsCommitted ==
  ~ Direct =>
  \A l \in CacheSlots :
    slot[l].flag # "none" /\ Whole(slot[l]) =>
      \E e \in installed : e.prop = slot[l]

(* No two calls of a deployment may write the same value to the same key,  *)
(* so that a slot tells which call made it.                                *)
DistinctWrites ==
  \A g \in Configs : \A c, d \in Clients :
    \A i \in DOMAIN g.workload[c], j \in DOMAIN g.workload[d] :
      \A o \in g.workload[c][i], p \in g.workload[d][j] :
        /\ o.op \in {"write", "update"} /\ p.op \in {"write", "update"}
        /\ o.key = p.key /\ o.value = p.value
        => c = d /\ i = j

(* A write that failed though no operation failed has had no effect that a *)
(* reader can see.                                                         *)
LosersInvisible ==
  ~ Direct =>
  \A c \in Clients :
    cn[c].answer.kind \in {"error", "lost"} /\ cn[c].answer.slot.flag = "valid" /\ faults = 0
    => /\ \A e \in installed : e.prop # cn[c].answer.slot
       /\ \A l \in DOMAIN slot : l[2] # "BACKUP" => slot[l] # cn[c].answer.slot

(* A value that a read returns was the last one committed for its key at   *)
(* some moment of the call.                                                *)
ReadsFresh ==
  \A c \in Clients :
    cn[c].answer.kind = "value" => cn[c].answer.slot \in fresh[c]

(* What src/test/run_smoke.sh expects after "delete alpha": once a deletion *)
(* is the last thing committed for a key, no PRIME slot holds the key.     *)
DeletedIsGone ==
  \A k \in Keys :
    cur[k].flag = "tombstone" => \A l \in PrimeSlots : ~ Present(slot[l], k)

(* Commits of the ring path never replace another key's live PRIME slot,   *)
(* whatever happened between the probe that chose the slot and the commit. *)
NoForeignOverwrite ==
  [][~ Direct => \A l \in PrimeSlots :
       slot[l].flag = "valid" => slot'[l].key = slot[l].key]_vars

(* An update on the ring path replaces a live slot of its own key, not     *)
(* what was there when it looked.                                          *)
UpdateReplacesLive ==
  [][~ Direct => \A c \in Clients :
       cn[c].pc = "commit" /\ cn[c].op.op = "update" /\ ~ cn[c].half /\ cn'[c].half
       => Present(slot[CommitTo(cn[c])], cn[c].op.key)]_vars

(* No hole opens in front of a live key: a probe from its home slot on     *)
(* reaches it before an empty slot ends the probe.                         *)
Reachable ==
  \A l \in PrimeSlots :
    slot[l].flag = "valid" =>
      LET k == slot[l].key IN
      \A i \in 0 .. Count["PRIME"] - 1 :
        (\A j \in 0 .. i : IndexOf("PRIME", k, j) # l[3])
        => ~ IsEmpty(slot[<<l[1], "PRIME", IndexOf("PRIME", k, i)>>])

(* A backup is at most one proposal ahead of its primary, also when        *)
(* proposals of failed writes stay in it.  The epoch is that of the body:  *)
(* between the two steps of a commit the guard is still the one of the     *)
(* proposal before, which may belong to a key with another primary.        *)
BackupAtMostOneAhead ==
  \A l \in BackupSlots :
    slot[l].visible > 0 =>
      \E i \in 0 .. Count["PRIME"] - 1 :
        slot[l].visible <= slot[<<Node(slot[l].key, 0), "PRIME", i>>].guard + 1

(* How far a call is from its end: what comes after the loop it is in, and *)
(* what is left of that loop.                                              *)
LoopSteps(kind) == 2 * Count[kind] + 4
BackupLoop      == LoopSteps("BACKUP") + 2

After(l) ==
  LET cacheLoop == LoopSteps("CACHE")
  IN CASE l.pc = "readPrime"  -> 2 * cacheLoop
       [] l.pc = "readCache"  -> cacheLoop
       [] l.pc = "refresh"    -> 0
       [] l.pc = "repair"     -> cacheLoop + (BackupCount - l.turn) * BackupLoop
       [] l.pc = "commit"     -> cacheLoop + BackupCount * BackupLoop
       [] l.pc = "evaluate"   -> cacheLoop + BackupCount * BackupLoop + 2
       [] l.pc = "vote"       -> cacheLoop + (2 * BackupCount - l.turn) * BackupLoop + 5
       [] l.pc = "writePrime" -> cacheLoop + 2 * BackupCount * BackupLoop + 5

Rank(l) ==
  IF l.pc \in {"idle", "down"} THEN 0
  ELSE 3 + After(l) - (IF l.half THEN 1 ELSE 0)
       + IF l.pc \in Probing /\ ~ Over(l)
         THEN 2 * (Count[KindOf(l)] - l.probe.examined) ELSE 0

(* Every step of a call brings it closer to its end, whatever its rivals   *)
(* do meanwhile: probes, votes and repairs are never repeated.  A call     *)
(* waits for nothing but its ring commits; whether those end is up to      *)
(* RequestRing and Eviction.                                               *)
GetsCloser ==
  [][\A c \in Clients :
       cn[c].pc # "idle" /\ cn'[c] # cn[c] => Rank(cn'[c]) < Rank(cn[c])]_vars
=============================================================================
