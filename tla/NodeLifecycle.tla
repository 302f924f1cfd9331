---------------------------- MODULE NodeLifecycle ----------------------------
(***************************************************************************)
(* The process of a memory node from start to exit                        *)
(* (tdx-dist/src/mn_main.c): main reads the configuration, maps the region *)
(* and starts the threads that use it; at the end it joins them, unmaps    *)
(* the region and returns.  Which server it runs depends on transport and  *)
(* tdx: TCP with a detached thread per connection                          *)
(* (tdx-dist/src/transport_tcp.c), the consumer of the request ring beside *)
(* an RDMA endpoint, or only the endpoint, which then serves messages.     *)
(*                                                                         *)
(* The stand-alone host exposer (tdx-dist-host/src) is a fourth server:    *)
(* its main runs an endpoint of its own, without any thread, that does     *)
(* nothing but register the region for the compute nodes that connect.     *)
(*                                                                         *)
(* A thread "touches" the region for a while: it may be interrupted there, *)
(* and one that may evict may be stuck there for ever.                     *)
(***************************************************************************)
EXTENDS SlotPlan, Integers

CONSTANTS
  Plans,    \* the memory divisions that configurations ask for
  NoPlan,   \* none of them
  Workers   \* connections, each a thread with TCP

ASSUME PlansAssumption == NoPlan \notin Plans /\ Plans \subseteq Configuration

VARIABLES
  server,   \* what the configuration makes this node: see Servers
  plan,     \* the configured sizes; not used any more once the region is open
  pc,       \* main
  region,   \* td_local_region_t
  stop,     \* td_stop
  evictor,  \* td_eviction_thread
  host,     \* td_rdma_host_thread; td_rdma_host_run of the exposer
  hostRc,   \* rdma_host_ctx.rc
  worker,   \* per connection: td_tcp_connection_main; with the exposer whether
            \* the region is registered for it (td_rdma_host_conn_t)
  rc,       \* rc of main
  status,   \* how the process ended
  failures  \* history: what went wrong

threadVars == <<evictor, host, hostRc, worker>>
vars == <<server, plan, pc, region, stop, evictor, host, hostRc, worker, rc,
          status, failures>>

Servers == {"tcp", "ring", "messages", "exposer"}

Init ==
  /\ server \in Servers
  /\ plan \in Plans
  /\ pc = "load"
  /\ region = "none"
  /\ stop = FALSE
  /\ evictor = "none"
  /\ host = "none"
  /\ hostRc = 0
  /\ worker = [w \in Workers |-> "none"]
  /\ rc = 0
  /\ status = "running"
  /\ failures = {}

Fails(what) == failures' = failures \cup {what}

(* The process ends at once, with all its threads and mappings. *)
Crash ==
  /\ pc' = "exit" /\ status' = "crashed"
  /\ region' = "unmapped"
  /\ evictor' = "none" /\ host' = "none"
  /\ worker' = [w \in Workers |-> "none"]
  /\ UNCHANGED <<server, plan, stop, hostRc, rc, failures>>

-----------------------------------------------------------------------------
(* main *)

(* td_config_load; the file may have other errors than its sizes. *)
LoadConfig ==
  /\ pc = "load" /\ server # "exposer"
  /\ \/ /\ Resolves(plan)
        /\ pc' = "open"
        /\ UNCHANGED <<status, failures>>
     \/ /\ pc' = "exit" /\ status' = "failed" /\ Fails("config")
  /\ UNCHANGED <<server, plan, region, stop, threadVars, rc>>

(* A layout of wrapped sums goes unnoticed. *)
Maps ==
  /\ region' = "mapped"
  /\ UNCHANGED status
  /\ IF NoOverflow(plan) THEN UNCHANGED failures ELSE Fails("layout")

(* td_region_open, which also initializes the region *)
OpenRegion ==
  /\ pc = "open" /\ server # "exposer"
  /\ \/ pc' = "startEvictor" /\ Maps
     \/ /\ pc' = "exit" /\ status' = "failed" /\ Fails("region")
        /\ UNCHANGED region
  /\ plan' = NoPlan
  /\ UNCHANGED <<server, stop, threadVars, rc>>

(* The result of pthread_create is ignored. *)
StartEvictor ==
  /\ pc = "startEvictor"
  /\ \/ evictor' = "check" /\ UNCHANGED failures
     \/ evictor' = "missing" /\ Fails("thread")
  /\ pc' = IF server = "tcp" THEN "bind" ELSE "startHost"
  /\ UNCHANGED <<server, plan, region, stop, host, hostRc, worker, rc, status>>

StartHost ==
  /\ pc = "startHost"
  /\ \/ host' = "setup" /\ UNCHANGED failures
     \/ host' = "missing" /\ Fails("thread")
  /\ pc' = "serve"
  /\ UNCHANGED <<server, plan, region, stop, evictor, hostRc, worker, rc, status>>

(* td_tcp_server_run: socket, bind, listen *)
Bind ==
  /\ pc = "bind"
  /\ \/ /\ pc' = "serve"
        /\ UNCHANGED <<rc, failures>>
     \/ /\ pc' = "stopping" /\ rc' = -1 /\ Fails("server")
  /\ UNCHANGED <<server, plan, region, stop, threadVars, status>>

Accept(w) ==
  /\ pc = "serve" /\ server = "tcp"
  /\ worker[w] = "none"
  /\ worker' = [worker EXCEPT ![w] = "check"]
  /\ UNCHANGED <<server, plan, pc, region, stop, evictor, host, hostRc, rc, status, failures>>

(* The test of td_stop at the head of the loop of each server *)
LeaveServer ==
  /\ pc = "serve"
  /\ stop
  /\ pc' = "stopping"
  /\ UNCHANGED <<server, plan, region, stop, threadVars, rc, status, failures>>

(* td_request_consume_once *)
Consume ==
  /\ pc = "serve" /\ server = "ring"
  /\ ~stop
  /\ pc' = "consume"
  /\ UNCHANGED <<server, plan, region, stop, threadVars, rc, status, failures>>

Consumed ==
  /\ pc = "consume"
  /\ pc' = "serve"
  /\ UNCHANGED <<server, plan, region, stop, threadVars, rc, status, failures>>

(* An entry that makes no sense, or select fails. *)
ServerFails ==
  /\ \/ pc = "consume"
     \/ pc = "serve" /\ server = "tcp"
  /\ pc' = "stopping" /\ rc' = -1 /\ Fails("server")
  /\ UNCHANGED <<server, plan, region, stop, threadVars, status>>

(* Faulty variant: a server that ended by itself does not stop the threads. *)
RaiseStopForgotten ==
  /\ pc = "stopping"
  /\ pc' = IF server = "tcp" THEN "joinEvictor" ELSE "joinHost"
  /\ UNCHANGED <<server, plan, region, stop, threadVars, rc, status, failures>>

RaiseStop ==
  /\ pc = "stopping"
  /\ stop' = TRUE
  /\ pc' = IF server = "tcp" THEN "joinEvictor" ELSE "joinHost"
  /\ UNCHANGED <<server, plan, region, threadVars, rc, status, failures>>

(* Faulty variant: the result of the thread replaces that of the server. *)
JoinHostOverwriting ==
  /\ pc = "joinHost"
  /\ host = "done"
  /\ rc' = hostRc
  /\ pc' = "joinEvictor"
  /\ UNCHANGED <<server, plan, region, stop, threadVars, status, failures>>

(* Faulty variant: the results are added, so -2 leaves main. *)
JoinHostAdding ==
  /\ pc = "joinHost"
  /\ host = "done"
  /\ rc' = rc + hostRc
  /\ pc' = "joinEvictor"
  /\ UNCHANGED <<server, plan, region, stop, threadVars, status, failures>>

JoinHost ==
  /\ pc = "joinHost"
  /\ host = "done"
  /\ rc' = IF hostRc # 0 /\ rc = 0 THEN hostRc ELSE rc
  /\ pc' = "joinEvictor"
  /\ UNCHANGED <<server, plan, region, stop, threadVars, status, failures>>

(* Faulty variant: main does not wait for the eviction thread. *)
JoinEvictorForgotten ==
  /\ pc = "joinEvictor"
  /\ pc' = "close"
  /\ UNCHANGED <<server, plan, region, stop, threadVars, rc, status, failures>>

JoinEvictor ==
  /\ pc = "joinEvictor"
  /\ evictor = "done"
  /\ pc' = "close"
  /\ UNCHANGED <<server, plan, region, stop, threadVars, rc, status, failures>>

(* A join with the uninitialized id of a thread that was never created may *)
(* return, leave the process hanging, or crash it.                         *)
JoinMissing ==
  /\ \/ pc = "joinHost" /\ host = "missing" /\ pc' \in {"joinEvictor", "stuck"}
     \/ pc = "joinEvictor" /\ evictor = "missing" /\ pc' \in {"close", "stuck"}
  /\ UNCHANGED <<server, plan, region, stop, threadVars, rc, status, failures>>

JoinCrashes ==
  /\ \/ pc = "joinHost" /\ host = "missing"
     \/ pc = "joinEvictor" /\ evictor = "missing"
  /\ Crash

CloseRegion ==
  /\ pc = "close"
  /\ region' = "unmapped"
  /\ pc' = "closed"
  /\ UNCHANGED <<server, plan, stop, threadVars, rc, status, failures>>

(* main returns, and the threads that are left go with it. *)
Exit ==
  /\ pc = "closed"
  /\ pc' = "exit"
  /\ status' = IF rc # 0 THEN "failed" ELSE "ok"
  /\ worker' = [w \in Workers |-> "none"]
  /\ UNCHANGED <<server, plan, region, stop, evictor, host, hostRc, rc, failures>>

Main ==
  \/ LoadConfig \/ OpenRegion \/ StartEvictor \/ StartHost \/ Bind
  \/ LeaveServer \/ Consume \/ Consumed
  \/ RaiseStop \/ JoinHost \/ JoinEvictor \/ JoinMissing \/ JoinCrashes
  \/ CloseRegion \/ Exit

-----------------------------------------------------------------------------
(* main of the exposer *)

LoadExposerConfig ==
  /\ pc = "load" /\ server = "exposer"
  /\ \/ /\ ResolvesExposer(plan)
        /\ pc' = "open"
        /\ UNCHANGED <<status, failures>>
     \/ /\ pc' = "exit" /\ status' = "failed" /\ Fails("config")
  /\ UNCHANGED <<server, plan, region, stop, threadVars, rc>>

(* td_region_open of the exposer, which initializes the region, too *)
OpenExposed ==
  /\ pc = "open" /\ server = "exposer"
  /\ \/ pc' = "expose" /\ Maps
     \/ /\ pc' = "exit" /\ status' = "failed" /\ Fails("region")
        /\ UNCHANGED region
  /\ plan' = NoPlan
  /\ UNCHANGED <<server, stop, threadVars, rc>>

(* td_rdma_host_run is called ... *)
Expose ==
  /\ pc = "expose"
  /\ host' = "setup"
  /\ pc' = "exposing"
  /\ UNCHANGED <<server, plan, region, stop, evictor, hostRc, worker, rc, status, failures>>

(* ... and returns. *)
Exposed ==
  /\ pc = "exposing"
  /\ host = "done"
  /\ rc' = hostRc
  /\ pc' = "close"
  /\ UNCHANGED <<server, plan, region, stop, threadVars, status, failures>>

Exposing == LoadExposerConfig \/ OpenExposed \/ Expose \/ Exposed

(* The end of td_rdma_host_run: every registration that is left is undone. *)
EndpointEnds(result) ==
  /\ host' = "done" /\ hostRc' = result
  /\ worker' = [w \in Workers |-> "none"]
  /\ IF result = 0 THEN UNCHANGED failures ELSE Fails("host")

(* A turn of its loop: it has to end, nothing happens, a compute node      *)
(* connects, or one is gone.  A connection that cannot be set up is        *)
(* rejected and its error forgotten; only poll can end the loop.           *)
Endpoint ==
  /\ pc = "exposing"
  /\ \/ host = "setup" /\ host' = "check" /\ UNCHANGED <<hostRc, worker, failures>>
     \/ host = "setup" /\ EndpointEnds(-1)
     \/ host = "check" /\ stop /\ EndpointEnds(0)
     \/ host = "check" /\ ~ stop /\ EndpointEnds(-1)
     \/ /\ host = "check" /\ ~ stop
        /\ \E w \in Workers :
             worker' = [worker EXCEPT ![w] = IF @ = "none" THEN "registered" ELSE "none"]
        /\ UNCHANGED <<host, hostRc, failures>>
  /\ UNCHANGED <<server, plan, pc, region, stop, evictor, rc, status>>

-----------------------------------------------------------------------------
(* SIGINT or SIGTERM, once the handlers are installed *)
Signal ==
  /\ pc \notin {"load", "open", "exit"}
  /\ ~stop
  /\ stop' = TRUE
  /\ UNCHANGED <<server, plan, pc, region, threadVars, rc, status, failures>>

-----------------------------------------------------------------------------
(* The other threads *)

(* The process has not ended. *)
Alive == pc # "exit"

Evictor ==
  /\ Alive
  /\ \/ evictor = "check" /\ stop  /\ evictor' = "done"
     \/ evictor = "check" /\ ~stop /\ evictor' = "touch"
     \/ evictor = "touch" /\ evictor' = "check"
  /\ UNCHANGED <<server, plan, pc, region, stop, host, hostRc, worker, rc, status, failures>>

(* td_rdma_host_run: it ends by itself if the endpoint cannot be set up or *)
(* a completion failed (see MessageExchange).                              *)
HostStep ==
  \/ /\ \/ host = "setup" /\ host' = "check"
        \/ host = "check" /\ stop  /\ host' = "done"
        \/ host = "check" /\ ~stop /\ host' = "touch"
        \/ host = "touch" /\ host' = "check"
     /\ UNCHANGED <<hostRc, failures>>
  \/ /\ host \in {"setup", "touch"}
     /\ host' = "done" /\ hostRc' = -1 /\ Fails("host")

Host ==
  /\ Alive /\ server # "exposer"
  /\ HostStep
  /\ UNCHANGED <<server, plan, pc, region, stop, evictor, worker, rc, status>>

(* Waiting for a request does not end with td_stop, only with a request or *)
(* the end of the connection.                                              *)
WorkerStep(w) ==
  \/ worker[w] = "check" /\ stop  /\ worker' = [worker EXCEPT ![w] = "done"]
  \/ worker[w] = "check" /\ ~stop /\ worker' = [worker EXCEPT ![w] = "receive"]
  \/ /\ worker[w] = "receive"
     /\ \E next \in {"touch", "done"} : worker' = [worker EXCEPT ![w] = next]
  \/ /\ worker[w] = "touch"
     /\ \E next \in {"check", "done"} : worker' = [worker EXCEPT ![w] = next]

Worker(w) ==
  /\ Alive
  /\ WorkerStep(w)
  /\ UNCHANGED <<server, plan, pc, region, stop, evictor, host, hostRc, rc, status, failures>>

(* A worker that uses the region after it is unmapped: a request with an   *)
(* offset is refused, because the size is 0 by then (WorkerStep); one that *)
(* looks into the header, or was about to copy, takes the process down.    *)
WorkerCrashes(w) ==
  /\ worker[w] \in {"touch", "stuck"}
  /\ region = "unmapped"
  /\ Crash

(* Slots, or even the ring, that a wrapped sum has put behind the mapping  *)
Overruns == region = "mapped" /\ "layout" \in failures /\ Crash

(* An eviction pass that never ends: with a threshold of 0 in an empty     *)
(* cache, or because another thread took the slots it had counted (see     *)
(* Eviction); and a thread that waits for the lock which that pass holds.  *)
(* Besides the eviction thread there is one thread that evicts: the        *)
(* consumer, the RDMA thread if it serves messages, or any TCP worker.     *)
GetsStuck ==
  /\ region = "mapped"
  /\ \/ pc = "consume" /\ pc' = "stuck" /\ UNCHANGED <<evictor, host, worker>>
     \/ evictor = "touch" /\ evictor' = "stuck" /\ UNCHANGED <<pc, host, worker>>
     \/ /\ server = "messages" /\ host = "touch" /\ host' = "stuck"
        /\ UNCHANGED <<pc, evictor, worker>>
     \/ \E w \in Workers :
          /\ worker[w] = "touch"
          /\ worker' = [worker EXCEPT ![w] = "stuck"]
          /\ UNCHANGED <<pc, evictor, host>>
  /\ UNCHANGED <<server, plan, region, stop, hostRc, rc, status, failures>>

(* Main never gets on, or waits for a thread that never does. *)
Stuck == pc = "stuck" \/ evictor = "stuck" \/ host = "stuck"

-----------------------------------------------------------------------------
Ended == (pc = "exit" \/ Stuck) /\ UNCHANGED vars

Next ==
  \/ Main
  \/ Exposing \/ Endpoint
  \/ ServerFails
  \/ Signal
  \/ Evictor
  \/ Host
  \/ \E w \in Workers : Accept(w) \/ Worker(w) \/ WorkerCrashes(w)
  \/ Overruns
  \/ GetsStuck
  \/ Ended

Spec == Init /\ [][Next]_vars

(* Every thread of the process runs; no signal and no connection has to    *)
(* come, no request has to arrive, the server does not have to fail.  A    *)
(* thread in the region goes on or gets stuck.                             *)
FairSpec ==
  /\ Spec
  /\ WF_vars(Main) /\ WF_vars(Evictor) /\ WF_vars(Host)
  /\ WF_vars(Exposing) /\ WF_vars(Endpoint)

-----------------------------------------------------------------------------
(* Properties *)

(* Every variable has its type. *)
TypeOK ==
  /\ server \in Servers
  /\ plan \in Plans \cup {NoPlan}
  /\ pc \in {"load", "open", "startEvictor", "startHost", "bind", "serve",
             "consume", "stopping", "joinHost", "joinEvictor", "close",
             "closed", "exit", "expose", "exposing", "stuck"}
  /\ region \in {"none", "mapped", "unmapped"}
  /\ stop \in BOOLEAN
  /\ evictor \in {"none", "check", "touch", "done", "missing", "stuck"}
  /\ host \in {"none", "setup", "check", "touch", "done", "missing", "stuck"}
  /\ worker \in [Workers -> {"none", "check", "receive", "touch", "done", "stuck",
                              "registered"}]
  /\ hostRc \in {0, -1} /\ rc \in {0, -1}
  /\ status \in {"running", "ok", "failed", "crashed"}
  /\ failures \subseteq {"config", "region", "server", "host", "thread", "layout"}

(* The memory that main opens has the layout that all others compute from  *)
(* the header: everything fits, nothing overlaps (td_resolve_mn_slots), as *)
(* long as no sum of the configured sizes wraps; a wrapped one never fits. *)
LayoutFits == plan # NoPlan => PlanFits(plan) /\ SlotsApart(plan)

(* Consumer, eviction thread and RDMA thread are never in the region       *)
(* before it is mapped or after it is unmapped (main joins them before     *)
(* td_region_close), and a compute node can reach it through the exposer   *)
(* only while it is; the detached TCP workers are the only ones that can   *)
(* be in it later, so the process can end in a crash only with TCP, after  *)
(* a thread could not be created, or with a layout that wrapped.           *)
NoUseAfterClose ==
  /\ pc = "consume" \/ evictor \in {"touch", "stuck"} \/ host \in {"touch", "stuck"}
       => region = "mapped"
  /\ \A w \in Workers : worker[w] = "registered" => region = "mapped"
  /\ (\E w \in Workers : worker[w] \notin {"none", "registered"}) => server = "tcp"
  /\ status = "crashed" => server = "tcp" \/ failures \cap {"thread", "layout"} # {}

(* A process that returns from main says whether anything failed: the      *)
(* configuration, the region, its server, or the RDMA thread, also when    *)
(* that one failed long before the end.  It does not notice a thread that  *)
(* was never created, nor a layout that wrapped.                           *)
StatusTells ==
  /\ status = "ok" => failures \subseteq {"thread", "layout"}
  /\ status = "failed" => failures # {}

(* After a signal, and after its server failed, the process ends: all      *)
(* threads see td_stop, and main waits for none that does not.  Unless one *)
(* of them, or main, is stuck: two threads of the same node that evict at  *)
(* a time, or a threshold of 0, are enough for that, and so is a join with *)
(* a thread that was never created.                                        *)
Exits == (stop \/ rc # 0) ~> (pc = "exit" \/ Stuck)
=============================================================================
