# TLA+ models of tdx-dist

tdx-dist is a replicated key-value store.  Compute nodes (CN) run the whole
protocol; memory nodes (MN) only hold a region of memory that the CNs read and
change with READ, WRITE and compare-and-swap (CAS), and a ring through which
they ask the MN to commit a slot on their behalf.  This directory holds the
specifications of the parts where the order of steps decides whether data
survives or a process stops, the TLC configurations that check them, and
machine-checked proofs: that the request ring implements an atomic commit
service, and the safety properties of the key-value protocol, of the eviction, of
both message transports, of the kernel module, of the memory node's process and
of its memory layout.

Paths below are relative to `tdx-dist/` in the source tree unless they begin
with `skill.md` (the design document in the root) or `tdx-dist-host/`.

    tlc -workers 2 -config Ring.cfg MCRequestRing           a model-checking run
    tlapm RequestRingProofs.tla                             the proofs

## 1. The system

| component | state | operations | interacts with |
|---|---|---|---|
| request ring, producers (`src/request.c`) | ring counters `reserve_head`, `head`, `tail`; entries with sequence number, state, request, result (all on the MN) | reserve a number, write the entry, publish, poll | the region, by one-sided RDMA; other producers; the consumer |
| request ring, consumer (`src/request.c`, `src/mn_main.c`) | `tail`; the entry in hand | execute the entry at the tail (commit a slot, evict), mark it done, advance | slots, under the region lock |
| key-value protocol (`src/cluster.c`) | a call's probe, proposal, votes (local); slots of the PRIME, BACKUP and CACHE regions (remote) | read, write, update, delete, evict | one session per MN; commits by the ring or by body WRITE + CAS |
| slots (`include/td_layout.h`, `src/crypto.c`) | guard epoch, visible epoch, key hash, flags, tie breaker, ciphertext, MAC | built by a CN, installed by a commit | |
| cache eviction (`src/layout.c`) | `cache_usage`, `eviction_cursor`, the region lock | count, clear a quarter of the used slots, count | eviction thread, consumer, TCP workers, RDMA message server |
| region (`src/layout.c`) | header, ring, slots in one mapping | open, initialize or validate, read, write, CAS, close | everything on the MN |
| TCP transport (`src/transport_tcp.c`) | a connection per session, a detached thread per connection | hello, read, write, cas, evict, close | region |
| RDMA transport, CN side (`src/transport_rdma.c`) | queue pair, completion queue, buffers | one-sided operations, or message exchange with a timeout | host side |
| RDMA transport, host side (`src/transport_rdma.c`, `src/host_main.c`) | list of connections, one loop for all | connect, disconnect, serve messages | region |
| memory node process (`src/mn_main.c`) | stop flag, threads | start, stop, join | region, ring, servers |
| configuration (`src/config.c`) | - | parse, split the memory into slots | |
| kernel module (`kmod/tdx_shm.c`) | reference count, pages and their counts | open, mmap, split, fault, munmap, release | region of a guest MN, RDMA registrations |
| host exposer (`../tdx-dist-host`) | connections with their registrations | open and initialize the region, expose it | region of the guest |
| REPL, benchmark, helpers (`src/cn_main.c`, `benchmark/cn_bench.c`, `src/common.c`) | - | | key-value protocol |

**What is hard here.**  There is no server that orders anything: every step of
a CN is a separate remote operation and any other CN, the consumer or the
eviction thread may act in between.  A CN decides on values that it read some
operations ago (ring counters, probes, cached slots).  A CN may die, or give up
after five seconds, with its request still in the ring.  Two writes make a slot
whole (body, then guard), and readers skip a slot between them.  Epochs are
counted per slot, not per key, and keys move between slots.

**What makes each part correct.**

* ring: no published request is overwritten before it ran; a caller gets the
  result of its own request; each request takes effect at most once, at one
  instant; published requests run; callers that have a number return, and as long
  as somebody looks for one, somebody gets one.
* key-value protocol: one proposal wins an epoch of a slot; an acknowledged
  write is not lost; a write that failed is not visible; a commit never hits
  another key's live slot; keys remain reachable by their probe sequence; a
  deleted key stays deleted; a cached value is a committed and current one.
* eviction: with one thread that evicts, a pass ends and returns the lock and usage
  falls below the threshold (with two it need not, see section 5).
* transports: a response belongs to its request; one broken connection does not
  stop the others; every exchange ends; a process ends only for a reason of its
  own; no thread uses a region that was unmapped.
* region and processes: one owner initializes it; threads are joined before it
  is closed.
* configuration: the slots fit into the memory, and all of it is used.
* kernel module: pages live exactly as long as a mapping, a page table or a
  registration refers to them, and all are given back, private, in the end.

## 2. Modules

| module | models |
|---|---|
| `CommitOps` | a guarded commit of a slot and an eviction, with their answers (`td_local_commit_slot`, `td_region_evict_if_needed`) |
| `RequestRing` | producers and consumer of the ring, one remote operation per action; its properties and `RingInv` |
| `CommitService` | the abstract promise of an MN: a call takes effect at one instant, or fails and may take effect once later |
| `RequestRingRefinement` | the mapping under which the ring implements `CommitService` |
| `RequestRingProofs` | the proofs about `RequestRing` and its refinement |
| `MCRequestRing` | small sets of slots and requests for TLC |
| `SlotProbe` | slots as a CN sees them, one step of the linear probe, the vote rule; pure operators |
| `Cluster` | the calls of the CNs on the slots of several MNs, over the ring or directly |
| `ClusterProofs` | the proofs about it |
| `MCCluster` | deployments, slot counts and workloads for TLC |
| `Eviction` | eviction passes of several threads beside cache commits |
| `EvictionProofs` | the proofs about it |
| `MCEviction` | instances of it |
| `MessageExchange` | the RDMA message path: exchanges of the CNs with their deadline, queue pairs, and the one loop of the MN that serves all connections |
| `MessageExchangeProofs` | the proofs about it |
| `MCMessageExchange` | numbers of sessions, requests and receives for TLC |
| `TcpSocket` | a TCP connection as Linux shows it to `send`, `recv` and `close`: FIN, RST, errors, SIGPIPE; external |
| `TcpWire` | TCP sessions of CNs and the MN with its accept loop and a thread per connection, part by part, on top of it |
| `TcpWireProofs` | the proofs about both |
| `MCTcpWire` | two sessions, for TLC |
| `TdxShm` | the object of `/dev/tdx_shm` with its mappings, page tables, registrations and pages |
| `TdxShmProofs` | the proofs about it |
| `SharedRegion` | the file that host and guest both initialize |
| `SlotPlan` | how a configuration divides the memory, and the offsets in it; pure operators |
| `SlotPlanProofs` | proofs that the division is exact and slots do not overlap |
| `NodeLifecycle` | `main` of a memory node with its threads, and that of the host exposer, from the configuration to the exit status; uses `SlotPlan` |
| `NodeLifecycleProofs` | the proofs about it |
| `MCNodeLifecycle` | small memories and all ways to divide them, for TLC |

Definitions that begin with the comment "Faulty variant" are not part of a
model: each is the definition below it with a plausible mistake, and is there
to show that a property would notice the mistake.

### RequestRing

A producer's `pc` names its next operation, and the actions follow
`td_remote_submit_request`: `ReadReserveHead` and `ReadTail` (two READs, so the
two values are of different moments), `Reserve`/`LoseReserve` (the CAS on
`reserve_head`), `Write` (the whole entry), `Publish` (the CAS on `head`, which
succeeds once all earlier numbers are published), `PollDone`, `PollReused`,
`PollTimeout` (the three ways out of the poll loop; a READ that finds the entry
still waiting changes nothing).  `Fault` is a failed operation or a dead CN; the
operation may have taken effect.  The queue pair is in the error state from
then on, so the producer is `down`.  The consumer has `Execute`, `MarkDone` and
`AdvanceTail`, because a producer may read the entry between its stores.  `Stall`
is the other thing that may become of a request: the consumer evicts beside the
eviction thread (`src/request.c:315`, `src/mn_main.c:147`), and when one of the
two never ends its pass (section 5), the consumer is in that loop, or waits for the
region lock, for good.
`log` is a history variable: the requests executed, with results; request
number n is `log[n + 1]`.

Counters are natural numbers.  The one place where their width shows is the
difference `reserve_head - tail`, which is computed modulo `Word` (2^64 in the
code): `tail` may have been read after `reserve_head` and be the larger one.

### Cluster

`cn[c]` is the state of one call of compute node c.  `pc` names the loop or
decision of `td_cluster_read_value` or `td_cluster_write_value` it is in:
`readPrime`, `readCache`; `writePrime`, `vote`, `evaluate`, `commit`, `repair`;
and `refresh` (the cache) at the end of both.  `ReadSlot` is one READ of a
probe.  A commit has two steps, body and guard.  On the ring path the MN holds
its lock over both and writes the body only if the guard matches; on the direct
path (`Direct = TRUE`: TCP, RDMA messages) the CN writes the body first and
without a condition, then sends the CAS.  What happens between submission and
execution of a ring request is `RequestRing`'s subject: here a request runs at
some moment of the call, or the call fails and the request becomes a `stray`
that runs later or never, which is exactly what `CommitService` says of it.  When
it runs it takes the same two steps (`StrayBody`, `StrayGuard`): the region lock
keeps other commits and the eviction out, but a one-sided READ of another CN takes
no lock and may meet the half-written slot.

A deployment (`Config`: numbers of nodes and slots, copies of a key, cache,
path, what the CNs do) is a variable that never changes, so that one run looks
at several and each property is about all of them.

`GetsCloser` states termination as an action property: `Rank` counts the
operations that are left of a call at most, and every step of the call lowers
it, whatever the others do.  A call waits for nothing but its ring commits, and
whether those end is the question of `RequestRing` and `Eviction`.

`installed`, `cur` and `fresh` are history: what was ever committed to a PRIME
slot, the last of it per key, and which contents of its key a call may
legitimately have seen.

### Eviction

The three critical sections of `td_region_evict_if_needed` (count, clear, count
again) and the steps of the clearing loop, beside cache commits in their ring
form (`Fill`) and direct form (`FillBody`, `FillGuard`).  The number of evicting
threads is a parameter; what the other modules say of an MN with several is
the action by which each of them may get stuck: `Stall` (`RequestRing`,
`MessageExchange`), `KeepLock` (`TcpWire`), `GetsStuck` (`NodeLifecycle`).

### MessageExchange

`cn[s]` is a session of a compute node: the locals of its exchange (`sent`,
`got`), the posted receives, the send waiting in the queue pair (`out`), sends
that wait for their acknowledgement, the completion queue, and the two buffers
(`n`, the request in the send buffer; `buf`, the request whose response is in
the receive buffer).  `mn[s]` is the MN's side of it.  `Post`, `Poll`, `Return`,
`Expire` and `PollFailed` are `td_rdma_client_msg_exchange`; a deadline leaves
everything that is posted where it is, as the code does.  `HandleEvent`,
`NextRound`, `Service` and `StopLoop` are `td_rdma_host_run`: one event, then
each connection until it has no completions; `turn` holds the connections still
to serve in a round.  `Stall` is a request whose eviction does not end: the loop
serves nobody from then on, while the network and the CNs go on.  The queue pairs are modelled from how the code uses them
(reliable, in order, a message waits for a receive because
`rnr_retry_count = 7` means without limit; a send that cannot be delivered
fails and takes the queue pair with it).

What a message says is not modelled, only which request it is or answers.  After
an exchange that failed, answers may belong to an earlier request and a request
may run twice or not at all, because the send buffer is written again while the
old send is still posted; `OwnAnswer` therefore speaks about sessions on which
no exchange failed before, and `InOrder` says what is left otherwise.

### TcpSocket and TcpWire

`cn[c]` is the exchange of a CN (`td_tcp_exchange`: a header, the payload of a
WRITE, the response, the payload of a READ), `thread[c]` is
`td_tcp_connection_main`, `main` the accept loop, `conn[c]` the connection.  A
part is what one `td_send_all` sends.  Each end sees data, then the FIN of a
peer that closed, or an RST if the peer closed with data unread or got more
after its FIN.  After an RST the first error is reported, and a further send
raises SIGPIPE; nothing in the sources ignores it or passes `MSG_NOSIGNAL`, so
the process is `killed`, and all of an MN's connections go with it.  The order
in which the signals of one connection arrive is kept, everything else is open.

A session stays usable after an exchange that failed (only HELLO and CLOSE end
it), so that what was left in the stream could be taken for something else:
`AnswersAreOwn` is about every exchange that returns success.  `NoBuffer` is the
failed `malloc` of READ and WRITE; that of a WRITE leaves its payload in the
stream, and the connection ends when its first bytes turn out not to have the
magic of a header.  All operations of the region take its lock, so after
`KeepLock`, an eviction pass that keeps it, no request is executed any more; the
accept loop goes on, and threads that wait for a header still see the end of their
connection.

### TdxShm

`obj` is the object of an open descriptor, `vmas` its mappings, `ptes` the pages
that were touched, `pinned` those registered with the RDMA device, `page` the
kernel's count of each page and whether it is shared with the host.
`AllocPages` stops anywhere, with or without a last page that did not become
shared.  `munmap` of a part first splits the mapping (`Split`, which calls
`tdx_shm_vma_open`).  A mapping holds the file as well as the object, so the
kernel calls `tdx_shm_release` last (`Put(2, ..)` in `Munmap`).

### SharedRegion

One slot and one ring entry of the file that the exposer and the guest MN map.
Both are owners to `td_region_is_owner`, so both clear and initialize it
(`Clear`, `ClearExposed`, `Initialize`); in between a CN publishes a request that
the guest executes.

### SlotPlan and NodeLifecycle

`SlotPlan` has `td_allocate_weighted_slots`, `td_resolve_mn_slots` and the offset
functions of `src/layout.c`.  The loop that hands out single slots is not a
recursion here: `GetsOneMore` says directly who gets one, and `SplitIsExact`
proves that all are handed out and that nobody without a lost fraction gets one,
which is why setting a remainder to 0 in the loop suffices.  Numbers of a
configuration are any that fit into a `size_t` (`Size`), and the two sums of
`src/config.c:237` and of the ring's entries are taken modulo `Word`, as the code
takes them; `NoOverflow` says that neither wraps, which nothing checks.

In `NodeLifecycle`, `pc` is the line that `main` is at.  The threads (`evictor`,
`host`, one `worker` per TCP connection) are either at the test of `td_stop`, or
waiting, or inside of the region (`touch`).  `server` is what the configuration
makes of the node: `tcp`, `ring` (RDMA with the consumer) or `messages` (RDMA
with tdx, where `main` only waits for a signal), or `exposer`, the stand-alone
host: its `main` calls `td_rdma_host_run` itself (`Expose`, `Exposed`), whose loop
is `Endpoint`, and `worker` then says whether the region is registered for a
connection.  The exposer's `td_resolve_slots` also demands a backup slot
(`ResolvesExposer`).  Detached workers are not joined;
one that is in the region when it is unmapped may take the process down
(`WorkerCrashes`), which is why `NoUseAfterClose` excludes a crash for the other
servers only.  `failures` is history.

Three things that the code leaves unchecked are steps of the model.

* The results of `pthread_create` are ignored (`src/mn_main.c:196` and 203), so a
  thread may be `missing`; `main` joins it all the same (229 and 237), with an
  id that was never written, and the join returns, hangs or crashes
  (`JoinMissing`, `JoinCrashes`).  The exit status does not tell (`StatusTells`).
* A thread in the region may never come out again (`GetsStuck`): a pass with
  threshold 0 over an empty cache, or one of two threads that evict.  Every server has
  two: beside the eviction thread the consumer (`ring`), the RDMA thread
  (`messages`) or a TCP worker evicts.
* A region whose sums wrapped is opened (`Maps` records it), and using it may crash
  (`Overruns`).

### What is abstracted

* A READ of an entry or a slot is atomic.  Both span several cache lines and
  RDMA does not promise that, so torn READs are outside of the models; the
  guard and visible epochs and the MAC are the code's means against them.
* A slot that was read whole has a valid MAC.  A key is identified with its
  hash, a value with what it decrypts to.
* The tie breaker is a constant function of key and value.  The code hashes the
  epoch too; the order of two proposals is arbitrary either way, and the runs
  fix one order.
* Waiting for a winner (`td_wait_for_primary_change`) only reads, and its result
  is not used; it is left out.  So are diagnostics and latency profiles.
* Which cache slots an eviction clears is left open in `CommitOps` and `Cluster`
  and is exact in `Eviction`.
* An eviction of `CommitOps` is one step that ends; that it may not is `Stall`.
* An eviction that keeps the region lock of an MN stops all commits there.  `Cluster`
  does not show it: to its callers it is a deadline, one of the failures.
* Failures (`maxFaults`) of `Cluster` are modelled on the ring path only; how a
  TCP connection fails is `TcpWire`.
* A send or receive of `TcpWire` transfers a whole part.  A part that is cut when
  the connection ends counts as not sent: the receiver gives up either way.
* Hosts and network of `TcpWire` stay up, so a closed end is always signalled; a
  host that loses power leaves its peers waiting (there is no keepalive).

## 3. Runs

| run | what it asks | distinct states |
|---|---|---|
| `ring` | two producers, two entries, two calls each, with failing operations, dead producers, timeouts, a consumer that gets stuck: counter order, intact entries, true answers, the refinement of `CommitService`; published requests run unless the consumer is stuck; a caller that has a number returns unless a producer died between reservation and publication, and somebody among those who look for a number gets one (`CallsProgress`) | 295 thousand |
| `cluster` | six deployments: (1) three CNs on three replicas, one of which wrote before, write, update or delete one key; (2) two keys share two slots and are written, updated, deleted, written again; (3-5) writers and readers with the cache, one or two failures of operations or CNs, late requests, an eviction; (6) the direct path on three replicas. One winner per epoch, no lost acknowledged write (on the ring path), losers invisible, backups at most one proposal ahead, cached values committed and current, no foreign overwrite, keys reachable, calls end | 2.25 million |
| `eviction` | one evicting thread, eight slots: the target (one or two slots) is reachable, passes end, usage falls | 822 thousand |
| `messages` | two sessions, two exchanges each, one fault (deadline, broken link, rejection, stop, an eviction that never ends): own answers, order, the loop ends only for cause, requests are answered unless the loop is stuck | 554 thousand |
| `tcp` | two sessions, one with two operations, one fault (a crash on either side, a failed allocation or thread, an eviction that keeps the region lock) and a stop: own answers in order, nobody killed by SIGPIPE without a cause, every exchange and every thread ends unless the lock is kept | 512 thousand |
| `shm` | one object of up to three pages, all orders of mapping, splitting, touching, registering and closing, allocations that fail: true counts, everything given back | 26 thousand |
| `lifecycle` | four servers, two workers, all configurations of `MCPlans`, some with sums that wrap; signals, failures, missing threads, evictions that never end: layout, use of the region, exit status, termination | 57 thousand |
| `find_resurrected`, `find_stale_cache`, `find_direct_lost`, `find_evictor_spins`, `find_region_wiped` | properties the documents and tests claim and the code violates, see section 5 | |

**Bounds and why they are enough.**  Two producers with two calls each on a ring
of two entries reach every relation of the counters: one reserves while another
publishes, the ring is full and partly full, and every entry is reused.  That no
third producer adds anything is what the theorems say.  `Word = 64` is larger
than any counter, so only the intended wrap of the difference happens; the
theorems hold for every value.  In `Cluster`, one slot per region makes all proposals
collide; two slots and two keys with the same home slot give every probe
outcome (own slot, tombstone, empty, full, half-written).  Workloads
(`MCCluster`) fix the calls of each CN and leave a choice among them where
the outcome differs.  Three replicas give two backups, the least number where
the votes can split.  `maxFaults = 2` covers a caller that gives up and a
second CN that is affected.  In `Eviction`, eight cache slots are the
least number where a pass may want more than one slot, and `MaxFills = 9` fills them
all and lets the usage cross the threshold again after a pass; the run has one
evicting thread and a threshold above zero, which is what its properties need (the
other cases are `find_evictor_spins` and `GetsStuck`).  In `MessageExchange` a queue takes two
receives in one session and one in the other (4 in the code), so that a deadline
exhausts the second; `MaxFaults = 1` counts deadlines, broken links, rejected
connections, the stop and the stall, while a CN may leave at any time without counting.
In `TcpWire` the first session makes a HELLO, two operations and a
CLOSE at most, so that what a failed operation leaves behind meets a second one;
the other session only connects and is there to be hit by what happens to the
first.  Each kind of fault happens once at most, and `MaxFaults = 1` takes one of
them; stop and departure of a CN cost nothing.  Three pages let a mapping be
split twice and an allocation fail before, at and after a page.  `SharedRegion`
lets either process start twice.
`NodeLifecycle` uses structures of a few bytes and `Word = 64`, so that sums of slots
and of ring entries wrap: what matters to the division is only what is left over,
and the theorems do not depend on the sizes.

One bound does hide something, and the property is worded accordingly.  The loop
that looks for a number (`src/request.c:44-67`) has no deadline and no order: a live
producer may lose its CAS, or find the ring full, again and again while others go
on.  With `MaxCalls = 2` the others run out of calls, so TLC would not find a
starved caller.  `CallsProgress` therefore promises of such a caller only that
*some* call gets the next number (`SomeCallGetsNumber`), and that a call which has
its number returns (`NumberedCallsReturn`); the bound is not what makes these two
true.

**Deadlock.**  The ring with failures may stop for good (a gap of unpublished
numbers; all producers down), and so may message exchanges (all requests made;
the CNs gone), so `ring` and `messages` do not check deadlock, nor does
`find_region_wiped`, whose processes stop in the end.  The other models end in an
explicit resting step when the workload is done or the process ended.

**Fairness.**  `RequestRing!FairSpec` assumes that a CN in a call takes its next
step (its loops have no other exit and its thread is not blocked elsewhere) and
that the consumer loop goes on (`td_request_server_run` polls every 100 us).
A dead or failed CN is under no obligation.
`Eviction!FairSpec` assumes that a pass that began goes on, and that the
eviction thread starts another one (every 100 ms).  Nothing is assumed of the
arrival of requests or of commits.  `MessageExchange!FairSpec`: the MN's thread
goes on (it polls every 10 ms) unless it is stuck, a call that waits goes on polling, and the
network delivers what it can; no deadline has to pass, so `Answered` does not
owe anything to it.  `TcpWire!FairSpec` asks that
processes and kernels go on while any of them has work (`Work`); sessions are
bounded, so that none can be starved, and no CN has to connect, call or close, no
signal and no fault has to come.
`NodeLifecycle!FairSpec`: `main`, the eviction thread and
the RDMA thread run, and so does the exposer's loop; workers are under no obligation, for they may wait for a
request forever.

No fairness is taken to end an eviction pass where another thread evicts too.  A pass
may hold the region lock forever (`find_evictor_spins`), in each server: the consumer
of the ring, the RDMA thread that serves messages and the TCP workers all evict
beside the eviction thread, and with threshold 0 one thread is enough.
The step that says so (`Stall`, `KeepLock`, `GetsStuck`) may happen at any such place
and is nobody's obligation; `PublishedIsExecuted`, `CallsProgress`, `Answered`,
`NothingHangs` and `Exits` name it as the exception, and none of them relies on a
pass that ends beside another one.

## 4. Proofs

### The ring

`RequestRingProofs` proves for every set of producers and requests, every
capacity and every `Word` larger than the capacity:

| theorem | statement |
|---|---|
| `TypeCorrect` | every variable keeps its type |
| `RingInvariant` | `RingInv` is invariant |
| `CountersInOrder` | tail <= executed <= head <= reserve_head <= tail + capacity |
| `PublishedStays` | a published request that has not run is in its entry, as it was written |
| `CompletedIsTrue` | a completed call has the result of the execution of its own request |
| `ReusedIsExecuted` | the error "slot reused" is returned only for executed requests |

The argument.  The four properties are not inductive: that the write of an entry
destroys nothing needs that the number's predecessor in the same entry has
run, which needs the claim to be sound although it rests on two stale READs.
`RingInv` adds these facts: `ClaimsSound` (a value read from a counter is a
lower bound of it, and a full ring was ruled out with a lower bound of `tail`,
so there is room at the moment of a successful CAS; the unsigned wrap can only
make the ring look full), `NumbersHeldOnce` (an unpublished number has one
owner), `WrittenIntact` (the owner's entry is untouched until it runs),
`InHand` and `DoneIsTrue` (what the consumer has stored agrees with the log).
Two entries of the ring collide only for numbers a multiple of the capacity
apart, and all live numbers lie in a window of that size; this is the
arithmetic lemma the proof rests on.  `RingInv` is inductive together with
`TypeOK`.  Assumptions: those of `RequestRing` and `CommitOps`
(finitely many producers, capacity positive, `Word` above it, requests
well-formed), checked by TLC in the runs.

`RingIsAService` is the refinement, `Spec => ImplementsCommitService`: under the
mapping of `RequestRingRefinement` every step of the ring is a step of
`CommitService` or changes nothing there.  `Execute` is where a request takes
effect: on behalf of the call that polls for it, or else of a stray; a call that
gives up or dies after its publication turns its request into one
(`StrayNumbers`).  The service gives every stray an identity from a finite set,
`0 .. Cardinality(Producers) * MaxCalls`.  That all numbers of the ring are
in it is proved by counting: `NumbersCounted` says that there is an injection
from the numbers handed out into the pairs of a producer and one of its calls,
and the pigeonhole theorem of the library gives the bound.  `SeqsHeldOnce`, that
no two calls wait for the same number, makes the call that is served unique.

### The memory layout

`SlotPlanProofs` is about all sizes of structures and memory and all choices of
counts that are given or left open:

| theorem | statement |
|---|---|
| `SplitIsExact` | the weighted split hands out exactly the remaining slots, single ones only to kinds that lost a fraction |
| `PlanIsExact` | header, ring and slots of an accepted configuration fit if and only if no sum of its sizes wraps; less than a slot is left over if a count was open |
| `SlotsDisjoint` | if no sum wraps, no two slots share a byte, and all lie between the ring and the end of the memory |

The split is proved by cases of which counts are open, each of them linear
arithmetic about quotients and remainders by 1, 4, 5, 8 or 9.  The other two
follow by counting in slots.  They are about every configuration whose numbers are
`size_t`s, also those with sums that exceed one: the comparison with the capacity
(`src/config.c:238`) then accepts what does not fit, and the first theorem says that
it *never* fits (`WrappedNeverFits`), because the wrapped sum alone is more than any
memory.  The one assumption about sizes is that a slot has more than four bytes.

### The memory node's process

`NodeLifecycleProofs` is about any number of connections, all four servers and all
configurations:

| theorem | statement |
|---|---|
| `LifecycleInvariant` | `LifeInv` is invariant |
| `LifecycleTypeCorrect` | every variable keeps its type |
| `JoinedThreadsInside` | joined threads use the region, and the exposer's connections reach it, only while it is mapped; only a TCP node can crash, or one with a missing thread or a wrapped layout |
| `StatusIsTrue` | the exit status says whether anything failed, except for a thread that was never created and a layout that wrapped |
| `LayoutIsSound` | an opened region has a layout that fits exactly when no sum of its sizes wrapped (by the theorems above) |

`LifeInv` adds to the types where `main` is while a thread runs
(`ThreadsInside`), which threads exist with which server (`OneServer`), and where
a failure is recorded until the end (`FailuresKept`: in `hostRc` until the join,
then in `rc`, then in the status).

### The key-value protocol

`ClusterProofs` is about every set of CNs, keys, values and deployments (numbers
of nodes, slots and copies, workloads of any length, faults, evictions), every
hash and every tie breaker.

| theorem | statement |
|---|---|
| `Invariant` | `IInv` is invariant |
| `TypeCorrect` | every variable keeps its type |
| `OneWinnerAlways` | one proposal per epoch of a PRIME slot is committed, on both commit paths |
| `AcknowledgedStaysAlways` | on the ring path an acknowledged write is in its slot, or a later epoch replaced it |
| `ReachableAlways` | the probe for a live key gets to its slot, on both paths |
| `BackupsFollow` | a backup is one proposal ahead at most, on both paths |
| `CacheHoldsCommits` | on the ring path the cache holds what was committed |
| `NothingForeignOverwritten` | on the ring path no commit hits another key's live slot |
| `UpdatesReplaceLive` | on the ring path what an update (not a delete, which may put a tombstone into an empty slot) installs replaces a live slot of its key |
| `WinnersSucceed` | on the ring path, while no operation failed, everything committed with a value was written by a call that succeeded or can only succeed |
| `LosersStayInvisible` | a write that lost or failed, though no operation failed, was never committed and stands in no PRIME slot and no cache, if no two calls write the same value to the same key |
| `ReadsAreFresh` | on the ring path a read answers what was the last commit of its key at some moment of the read, as long as no key was committed to two slots |
| `OneSlotReadsFresh` | the same with no condition on the run, if every MN has one PRIME slot |
| `DeletedStaysGone` | on the ring path no PRIME slot holds a key whose last commit is a deletion, as long as no key was committed to two slots |
| `CallsGetCloser` | every step of a call lowers `Rank`, so calls end whatever the others do |

`IInv` is `TypeOK` and what every party relies on about the others:

* `CallInv`: what a call holds agrees with the slots as they are *now*, although
  it read them several operations ago.  The slot it chose has a guard at least
  as high as the one it saw, and no slot before it on its probe sequence has
  become empty (`Placed`, `Walked`); a proposal is computed from that choice.
* `StrayInv`: a request that outlived its call satisfies what made it right when
  it was submitted (`Justified`), the very predicate a call's own commit must
  satisfy.
* `InstalledInv` and, on the ring path, `PrimeInv`: every epoch of a PRIME slot
  was given to one proposal; a whole slot holds what was installed there; and
  what was installed is there until a later epoch replaces it.
* `LockInv`, `StrayLockInv`: between body and guard of a commit, be its caller
  there or gone, the MN's lock is held for it alone, and nobody touches the slot.
* `KeyedInv`, `PlacedInv`: a slot in use has a key, whose probe sequence leads
  to it over slots that are not empty.
* `CacheInv`, `BackupAtMostOneAhead`.

Most of the work is done by one lemma per part saying that it survives whatever a
step may do to a PRIME slot: its guard never decreases, it does not become
empty, no commit is forgotten and a new one has a new epoch (`Grows`).  Each step is shown to be one that `Grows`, so that
the calls of all other CNs and all strays are dealt with once (`CallStays`,
`JustifiedStays`), and only the acting call has a case of its own.

What becomes of writers that lose, and what readers answer, needs two more
invariants beside `IInv`:

* `WinnersInv` (ring path, no operation failed so far) ties every commit to a
  call.  No request is late (`stray` is empty), a call holds or answers its own
  proposal, and every value ever committed is that of a write which is past its
  commit (`Past`) or over.  A call that answers `lost` or `error` is never
  `Past`, so nobody committed its proposal; and what a PRIME slot or a cache
  shows was committed, by `PrimeInv` and `CacheInv`.  The last step needs
  `DistinctWrites`: no two calls of the deployment write the same value to the
  same key.  It is a condition of the property and not of the code: a slot is
  made from key, value and epoch only, its IV included (`src/crypto.c:138`), so
  the winner may install the very slot that an equal write of somebody else
  proposed and lost with, and the slot does not tell whose it is.  The workloads of
  `MCCluster` satisfy it, which TLC evaluates (`DistinctAssumption`).
* `ReadersInv` (ring path, while `KeysStay`: no key was committed to two slots).
  What was committed last for a key is its commit with the highest epoch
  (`CurrentInv`), and therefore what its slot holds; each call remembers what was
  current while it was open (`FreshInv`), and what a reader found in a primary is
  among that (`ReaderOK`).  A cache hit was committed once, maybe long ago; it
  is answered only if its epoch is that of the primary, which is in the same
  slot by `KeysStay`, and then it is the same proposal by `OneWinner`.

`KeysStay` cannot be dropped: after a key got a second slot its deletion is
undone (`find_resurrected`) and a reader takes an old cached slot for the newer one
(`find_stale_cache`).  The theorems add to these two runs that a second slot is the
only cause: neither late requests, nor failures, nor evictions between the
operations of a read make it stale.  `OneSlotReadsFresh` has no such condition,
since with one PRIME slot per MN the hash of a key leaves one place for it
(`HomeInv`).

All but `Invariant`, `TypeCorrect`, `OneWinnerAlways`, `ReachableAlways`,
`BackupsFollow` and `CallsGetCloser` speak about the ring path only, because the
properties are false on the direct one: there the body of a loser is written before the guard decides
(`find_direct_lost`); the properties say so themselves (`~ Direct =>`).  `CallsGetCloser` needs no fairness and no liveness: a
step leads from a loop to a later one or to a later iteration, and `Rank` weighs
loops by what comes after them; the lemma behind it is that a smaller number of
rounds left, times the length of a round, is smaller by a whole round.

The attempt to prove `BackupAtMostOneAhead` in its former wording, which spoke
of the guard of the backup slot, failed for a reason: between the two steps of a
commit the body is that of one key and the guard still that of the proposal
before, possibly of a key with another primary.  The property is now about the epoch
of the body.

### Eviction

`EvictionProofs` proves, for every number of slots and commits:

| theorem | statement |
|---|---|
| `TypeCorrect` | every variable keeps its type, with any number of threads |
| `OneSweeps` | only the thread that has the lock sweeps, with any number of threads |
| `PassFindsItsTarget` | `TargetReachable`, for one evicting thread and a threshold above zero |

The two hypotheses of the last one are the code's limits, not the proof's.  With two
threads it is false (`find_evictor_spins`).  `td_config_load` takes any threshold
(`src/config.c:399`), and with zero a pass over an empty cache would look for one
valid slot forever (`src/layout.c:341-361`).

### The RDMA message exchange

`MessageExchangeProofs` is about every number of sessions, requests, posted
receives, deadlines, broken links and rejections: `Invariant`, `TypeCorrect`,
`AnswersBelong` (`OwnAnswer`), `OrderKept` (`InOrder`) and `EndsForCause`
(`EndsOnlyForCause`: an end of the loop, as opposed to a stall in it).

The invariant is `TypeOK`, for each session `Good`, and that a session asks for a
connection once.  `Good` follows the one request of a session from end to
end.  As long as no exchange failed it is in exactly one of four phases: asked
(posted by the CN), arrived (in the MN's completion queue), executed (the
response posted by the MN), responded (in the CN's completion queue or taken);
in each of them numbers of posted receives, sends under way, completions and
executed requests are fixed, and the answer follows.  After a deadline the
phases mix, and what is left is `Ordered`: what waits to be executed is not
older than what was executed.

### The TCP transport

`TcpWireProofs` is about every number of sessions, of operations and of faults:

| theorem | statement |
|---|---|
| `Invariant` | `Inv` is invariant |
| `TypeCorrect` | every variable keeps its type |
| `AnswersStayOwn` | a successful operation has the answer to its own request, which was executed; requests run in order, at most once |
| `KillsHaveCause` | SIGPIPE kills a process only after the other end died, was stopped, or could not take a WRITE |

`Inv` says of each session, and of its connection and thread with it:

* `Wired`: a signal has come, or is on its way, only from an end that is closed,
  and a closed end holds nothing; this is the part about `TcpSocket`.
* `Hosted`: a thread that runs has its connection.
* `InSequence`, `Counted`: of all headers on the way and in hand there is one
  that is still to be executed, and it is newer than everything in the log.
* `Talking`: while both ends are there, the exchange is in one of six phases
  (`Unasked`, `Asked`, `Taking`, `Answering`, `AnsweringMore`, `Answered`), and in
  each of them it is fixed what is in the stream in either direction.  The one
  thing that may be there besides is the payload of a WRITE whose buffer could
  not be allocated (`Left`), and it is what the thread reads next.
* `Alone`: when the MN's end is closed, what can still be read is the answer or
  the beginning of it; and there is a cause, or the connection was never taken
  on, or a CLOSE was answered.
* `Gone`: a CN that closed regularly has left nothing to answer.

The last two are what `KilledForCause` needs: an end is in the state in which a
send kills only after the other one was closed, `Gone` then excludes that a CN
closed regularly while its MN still has something to send, and `Alone` that a CN
sends to an MN that ended without a cause.

### The kernel module

`TdxShmProofs` is about any number of pages, mappings and orders of operations
(`Invariant`, `TypeCorrect`, `CountsStayTrue`, `EverythingReturned`).  The
invariant says each count as a sum of memberships instead of cardinalities (a
page is in the table once or not, touched once or not, registered or not), which
is possible because a table has each page once and mappings are disjoint
(`TableSound`, `MappingsSound`); splitting, touching and unmapping then each
change one summand.

### Assumptions

Besides the named hypotheses above the proofs use only the `ASSUME`s of the
modules, which TLC evaluates in the runs: sets and bounds are of the right kind
(`RequestRing`, `CommitOps`, `Eviction`, `MessageExchange`, `TcpWire`, `TdxShm`,
`SlotPlan`); `Hash` and `Tie` are numbers, `NoKey` and `NoValue` are neither key nor
value, and a deployment on the direct path has no faults (`Cluster`, `SlotProbe`;
how TCP connections fail is `TcpWire`); the numbers of a configuration are below
`Word` and a slot has more than four bytes (`NodeLifecycle`, `SlotPlan`).  One theorem, `LosersStayInvisible`, has a hypothesis
of its own about the constants, `DistinctWrites` of `Cluster`; `MCCluster` assumes it
of the workloads of the runs, where TLC evaluates it.

### Only model-checked

* `ReadsFresh` outside the theorems: with several PRIME slots per MN it has the
  hypothesis `KeysStay`, which not every workload satisfies, and nothing is proved
  about readers on the direct path.  The deployments of the run in which somebody
  reads are on the ring path with one slot, as in `OneSlotReadsFresh`.
* `SharedRegion`: it has no property that holds, only the run of section 5.
* All liveness (`PublishedIsExecuted`, `CallsProgress`, `PassEnds`,
  `Relieved`, `Answered`, `NothingHangs`, `Exits`): temporal proofs under
  fairness are beyond the prover.  `CallsGetCloser` is the safety part of the one for
  `Cluster`.

## 5. Where code and documents disagree

Each is a run that ends in a counterexample.

* `find_resurrected`: a writer meets its key's slot between body and guard,
  skips it (`src/cluster.c:150`) and takes the next free slot.  The key then has
  two live slots; a delete turns the first into a tombstone and the key is still
  there, while `src/test/run_smoke.sh` expects `not_found alpha` after a delete.
* `find_stale_cache`: a cache entry counts as current if its epoch equals that
  of the PRIME slot (`src/cluster.c:347`).  Epochs belong to slots.  A reader
  that was slow to refresh the cache installs an old value whose epoch the key
  reaches again in another slot, and it is read from then on; `skill.md:296-299`
  lists epoch monotonicity and replay protection.
* `find_direct_lost`: on the direct path the body of a proposal that is going to
  be rejected overwrites the body of an acknowledged one
  (`src/cluster.c:109`); `skill.md:268` requires atomic writes
  (`WritesAreAtomic`).  Hence `AcknowledgedStays` is `WritesAreAtomic` on the ring
  path only, and what remains true of the direct path is that one proposal per
  epoch is acknowledged (`OneWinner`).
* `find_evictor_spins`: two threads count, then clear one after the other; the
  second finds fewer slots than it wants and loops forever with the region lock
  (`src/layout.c:352`).  With one thread the target is always reachable
  (`TargetReachable`), because commits never empty a cache slot.  Section 3 says what
this does to the liveness of the other modules.
* `find_region_wiped`: host and guest both count as owner of the region
  (`src/layout.c:16`), so the guest does not attach what the host made but clears
  and initializes it again (`src/layout.c:213`), with everything that was
  committed there if it is started a second time; `skill.md:21` and
  `README.md:117` of `tdx-dist` say that it attaches.  The check that an attaching
  process would make (`td_region_validate`) is never reached.

More observations, without a run of their own.

* `tdx-dist/skill.md:20` says of a guest memory node that it starts no RDMA
  server, but `src/mn_main.c:198` starts an endpoint for every node with RDMA.
* In `src/mn_main.c:241` the message `err` is printed also when only the RDMA
  thread failed, and then nothing has been written to it.
* SIGPIPE has its default action everywhere.  A CN that dies while its READ is
  answered can take the whole MN down (`src/transport_tcp.c:419` and 423, two
  sends in a row); an MN that stops, or that had no memory for a WRITE, can take
  its CNs down.  `KilledForCause` says that nothing else does.
* A write whose votes are split compares its tie breaker with those that the
  slots had before the vote (`src/cluster.c:585`), not with its rivals'; all of
  several concurrent writers may lose.
* The error of `src/request.c:138` says that an entry was reused before completion;
  what was missed is only the look at the completed entry (`ReusedMeansExecuted`).
* `set_memory_encrypted` may fail in `tdx_shm_put` (`kmod/tdx_shm.c:31`), and the
  page is freed while the host can still reach it.  `AllReturned` allows this for
  exactly those pages.
* When a process is killed, its object may go before its RDMA registration.  The
  pages are not freed then (they are counted), but they are made private while the
  device has their addresses.

## 6. Not modelled, and the plan

Order of the work: the commit path first, because every write goes through it
(ring, then the cluster protocol on top of it), then what runs beside it.

1. Done: `CommitOps`, `RequestRing`, `CommitService` and the refinement,
   `SlotProbe`, `Cluster`, `Eviction`, `MessageExchange`, `TcpSocket`, `TcpWire`,
   `TdxShm`, `SharedRegion`, `SlotPlan`, `NodeLifecycle` with the exposer; the
   proofs of section 4, with the refinement of `CommitService`.
2. Proofs that are left: only the liveness properties, which wait for a prover that
   knows fairness.  Every safety invariant of the runs that hold is stated by a
   theorem, those of `ReadsFresh` and `LosersInvisible` with the hypotheses above.
3. A consumer that meets an entry which no producer of this code writes
   (`src/request.c:311`); `NodeLifecycle` has its consequence (`ServerFails`).

Left out for good: encryption and MAC computation; parsing of configurations and
commands, input and output of the REPL, the benchmark, timing and string helpers
(no state that outlives a call); torn READs, which depend on the hardware; loss of
power; a descriptor of the kernel module that is shared between processes
(`O_CLOEXEC`, no `fork`); generated kernel build files; and the stand-alone host
exposer as far as it repeats the memory node's configuration and the host side.
