------------------------------ MODULE MCCluster ------------------------------
(* Two keys with the same home slot, four values, and the workloads of    *)
(* the runs: for each compute node the calls it makes, one after the       *)
(* other, each chosen from a set.                                          *)
EXTENDS Cluster

MCHash == [k \in {"k1", "k2"} |-> 0]

(* The tie breakers, in the order of the values; a deletion has the largest. *)
MCTie ==
  [k \in {"k1", "k2"} |->
    [v \in {"a", "b", "c", "d", "none"} |->
      CASE v = "a" -> 1 [] v = "b" -> 2 [] v = "c" -> 3 [] v = "d" -> 4
        [] v = "none" -> 5]]

OneSlot  == [kind \in Kinds |-> 1]
TwoSlots == [kind \in Kinds |-> 2]

Read(k)      == {[op |-> "read",   key |-> k, value |-> NoValue]}
Write(k, v)  == {[op |-> "write",  key |-> k, value |-> v]}
Update(k, v) == {[op |-> "update", key |-> k, value |-> v]}
Delete(k)    == {[op |-> "delete", key |-> k, value |-> NoValue]}

Deployment(nodes, slots, replication, cache, direct, workload, failures, passes) ==
  [nodes |-> nodes, count |-> slots, replication |-> replication, cache |-> cache,
   direct |-> direct, workload |-> workload,
   maxFaults |-> failures, maxEvictions |-> passes]

(* Three writers of one key, one of which wrote it before *)
Contention ==
  [c1 |-> <<Write("k1", "a"), Write("k1", "b")>>,
   c2 |-> <<Write("k1", "c")>>,
   c3 |-> <<Delete("k1") \cup Update("k1", "d")>>]

(* Two keys that compete for two slots and are deleted and written again *)
Slots2 ==
  [c1 |-> <<Write("k1", "a"), Delete("k1") \cup Update("k1", "c"), Update("k1", "b")>>,
   c2 |-> <<Write("k2", "b"), Delete("k2")>>,
   c3 |-> <<Write("k1", "d") \cup Delete("k1")>>]

(* A writer beside readers of the key; operations fail, a compute node dies. *)
WriterAndReader ==
  [c1 |-> <<Write("k1", "a"), Update("k1", "b") \cup Delete("k1")>>,
   c2 |-> <<Read("k1"), Read("k1")>>, c3 |-> <<>>]

(* The same beside a second writer *)
WriterAndWriter ==
  [c1 |-> <<Write("k1", "a"), Update("k1", "b") \cup Delete("k1")>>,
   c2 |-> <<Write("k1", "c")>>, c3 |-> <<>>]

(* The same, and the second compute node reads afterwards *)
WriterAndBoth ==
  [c1 |-> <<Write("k1", "a"), Update("k1", "b") \cup Delete("k1")>>,
   c2 |-> <<Write("k1", "c") \cup Read("k1"), Read("k1")>>, c3 |-> <<>>]

(* Two compute nodes, one of which deletes k1 and looks for it again *)
WriteTwice ==
  [c1 |-> <<Write("k1", "a"), Update("k1", "b"), Delete("k1"), Read("k1")>>,
   c2 |-> <<Write("k1", "c")>>, c3 |-> <<>>]

(* The key moves to another slot while a reader is about to fill the cache. *)
SlotReuse ==
  [c1 |-> <<Write("k1", "a"), Delete("k1"), Write("k2", "b"), Write("k1", "c"), Read("k1")>>,
   c2 |-> <<Read("k1")>>, c3 |-> <<>>]

(* Two writers and nothing else *)
TwoWriters ==
  [c1 |-> <<Write("k1", "a"), Write("k1", "b")>>,
   c2 |-> <<Write("k1", "c")>>, c3 |-> <<>>]

(* Deployments: nodes, slots, copies, cache, direct, workload, faults, evictions *)
MCConfigs ==
  {Deployment(2, OneSlot,  2, TRUE,  FALSE, WriterAndReader, 2, 1),
   Deployment(2, OneSlot,  2, TRUE,  FALSE, WriterAndWriter, 2, 1),
   Deployment(2, OneSlot,  2, TRUE,  FALSE, WriterAndBoth,   1, 1),
   Deployment(3, OneSlot,  3, FALSE, FALSE, Contention,      0, 0),
   Deployment(1, TwoSlots, 1, FALSE, FALSE, Slots2,          0, 0),
   Deployment(3, OneSlot,  3, TRUE,  TRUE,  TwoWriters,      0, 0)}

(* The deployments of the counterexamples *)
DirectConfigs     == {Deployment(1, OneSlot,  1, FALSE, TRUE,  TwoWriters, 0, 0)}
ResurrectConfigs  == {Deployment(1, TwoSlots, 1, FALSE, FALSE, WriteTwice, 0, 0)}
StaleCacheConfigs == {Deployment(1, TwoSlots, 1, TRUE,  FALSE, SlotReuse,  0, 1)}

(* LosersInvisible is about slots that tell which call made them. *)
ASSUME DistinctAssumption == DistinctWrites
=============================================================================
