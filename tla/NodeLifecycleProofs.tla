------------------------- MODULE NodeLifecycleProofs -------------------------
(***************************************************************************)
(* Safety of the memory node's process, for every number of connections    *)
(* and all sizes that a configuration can ask for.                         *)
(***************************************************************************)
EXTENDS NodeLifecycle, SlotPlanProofs

MappedAt ==
  {"startEvictor", "startHost", "bind", "serve", "consume", "stopping",
   "joinHost", "joinEvictor", "close", "expose", "exposing", "stuck"}

(* Main is between pthread_create and pthread_join of the thread. *)
EvictorAt == MappedAt \ {"startEvictor", "close", "expose", "exposing"}
HostAt == {"serve", "consume", "stopping", "joinHost", "exposing", "stuck"}

(* The region is mapped in one stretch of main, and a joined thread runs   *)
(* only in a part of it.                                                   *)
ThreadsInside ==
  /\ region = "mapped" <=> pc \in MappedAt
  /\ evictor \in {"check", "touch", "stuck"} => pc \in EvictorAt
  /\ host \in {"setup", "check", "touch", "stuck"} => pc \in HostAt

(* Workers belong to the TCP server, and the RDMA thread to the others;    *)
(* the thread that failed has ended, and the process ends with its workers.*)
OneServer ==
  /\ pc \in {"startHost", "consume", "joinHost"} => server # "tcp"
  /\ host # "none" => server # "tcp" /\ pc \notin {"load", "open", "startEvictor", "startHost", "expose"}
  /\ hostRc # 0 => host = "done" \/ status = "crashed"
  /\ host = "missing" \/ evictor = "missing" => "thread" \in failures
  /\ pc \in {"expose", "exposing"} => server = "exposer"
  /\ server = "exposer" =>
       /\ pc \in {"load", "open", "expose", "exposing", "close", "closed", "exit"}
       /\ evictor = "none" /\ host \in {"none", "setup", "check", "done"}
  /\ \A w \in Workers :
       worker[w] # "none" => \/ server = "tcp" /\ worker[w] # "registered"
                                /\ pc \in MappedAt \cup {"closed"}
                             \/ server = "exposer" /\ pc = "exposing" /\ host # "done"
                                /\ worker[w] = "registered"
  /\ status = "crashed" =>
       server = "tcp" \/ failures \cap {"thread", "layout"} # {}

(* A failure is on its way into the exit status: in hostRc until the       *)
(* thread is joined, then in rc, and at the end in the status.  What main  *)
(* does not notice is a thread that was not created, or a wrapped layout.  *)
FailuresKept ==
  /\ status \in {"ok", "failed", "crashed"} <=> pc = "exit"
  /\ "server" \in failures => rc # 0 /\ server # "exposer"
  /\ "host" \in failures <=> hostRc # 0
  /\ hostRc # 0 /\ pc \notin HostAt => rc # 0 \/ status = "crashed"
  /\ rc # 0 => failures # {}
  /\ failures \cap {"config", "region"} # {} => pc = "exit" /\ status = "failed"
  /\ status = "ok" => rc = 0
  /\ status = "failed" => failures # {}

LifeInv == TypeOK /\ ThreadsInside /\ OneServer /\ FailuresKept

LEMMA InitLife == Init => LifeInv
  BY DEF Init, LifeInv, TypeOK, ThreadsInside, OneServer, FailuresKept, MappedAt,
     EvictorAt, HostAt, Servers

LEMMA StepLife == LifeInv /\ [Next]_vars => LifeInv'
<1> SUFFICES ASSUME LifeInv, [Next]_vars
             PROVE  LifeInv'
  OBVIOUS
<1> USE DEF LifeInv, TypeOK, ThreadsInside, OneServer, FailuresKept, MappedAt,
     EvictorAt, HostAt, Servers, threadVars, Fails
<1>1. CASE LoadConfig
  <2>1. /\ UNCHANGED <<server, plan, region, stop, threadVars, rc>>
        /\ pc = "load" /\ server # "exposer"
        /\ \/ pc' = "open" /\ UNCHANGED <<status, failures>>
           \/ pc' = "exit" /\ status' = "failed" /\ Fails("config")
    BY <1>1 DEF LoadConfig
  <2>2. TypeOK'
    BY <2>1
  <2>3. ThreadsInside'
    BY <2>1
  <2>4. OneServer'
    BY <2>1
  <2>5. FailuresKept'
    BY <2>1
  <2> QED BY <2>2, <2>3, <2>4, <2>5
<1>2. CASE OpenRegion
  <2>1. TypeOK'
    BY <1>2 DEF OpenRegion, Maps
  <2>2. ThreadsInside' /\ OneServer'
    BY <1>2 DEF OpenRegion, Maps
  <2>3. FailuresKept'
    <3>1. failures' \in {failures, failures \cup {"layout"}, failures \cup {"region"}}
      BY <1>2 DEF OpenRegion, Maps
    <3> QED BY <1>2, <3>1 DEF OpenRegion, Maps
  <2> QED BY <2>1, <2>2, <2>3
<1>3. CASE StartEvictor
  BY <1>3 DEF StartEvictor
<1>4. CASE StartHost
  <2>1. TypeOK'
    BY <1>4 DEF StartHost
  <2>2. ThreadsInside'
    BY <1>4 DEF StartHost
  <2>3. OneServer'
    BY <1>4 DEF StartHost
  <2>4. FailuresKept'
    BY <1>4 DEF StartHost
  <2> QED BY <2>1, <2>2, <2>3, <2>4
<1>5. CASE Bind
  <2>1. TypeOK'
    <3>1. /\ UNCHANGED <<server, plan, region, stop, threadVars, status>>
          /\ pc' \in {"serve", "stopping"} /\ rc' \in {rc, -1}
          /\ failures' \in {failures, failures \cup {"server"}}
      BY <1>5 DEF Bind
    <3> QED BY <3>1
  <2>2. ThreadsInside'
    <3>1. /\ UNCHANGED <<region, evictor, host>>
          /\ pc = "bind" /\ pc' \in {"serve", "stopping"}
      BY <1>5 DEF Bind
    <3> QED BY <3>1
  <2>3. OneServer'
    BY <1>5 DEF Bind
  <2>4. FailuresKept'
    BY <1>5 DEF Bind
  <2> QED BY <2>1, <2>2, <2>3, <2>4
<1>6. CASE LeaveServer
  BY <1>6 DEF LeaveServer
<1>7. CASE Consume
  BY <1>7 DEF Consume
<1>8. CASE Consumed
  BY <1>8 DEF Consumed
<1>9. CASE ServerFails
  BY <1>9 DEF ServerFails
<1>10. CASE RaiseStop
  BY <1>10 DEF RaiseStop
<1>11. CASE JoinHost
  BY <1>11 DEF JoinHost
<1>12. CASE JoinEvictor
  BY <1>12 DEF JoinEvictor
<1>13. CASE CloseRegion
  BY <1>13 DEF CloseRegion
<1>14. CASE Exit
  BY <1>14 DEF Exit
<1>15. CASE Signal
  BY <1>15 DEF Signal
<1>16. CASE Evictor
  BY <1>16 DEF Evictor, Alive
<1>17. CASE Host
  <2>1. TypeOK'
    <3>1. /\ UNCHANGED <<server, plan, pc, region, stop, evictor, worker, rc, status>>
          /\ host' \in {"check", "touch", "done"} /\ hostRc' \in {0, -1}
          /\ failures' \in {failures, failures \cup {"host"}}
      BY <1>17 DEF Host, HostStep, Alive
    <3> QED BY <3>1
  <2>2. ThreadsInside'
    BY <1>17 DEF Host, HostStep, Alive
  <2>3. OneServer'
    <3>1. /\ UNCHANGED <<server, pc, region, evictor, worker, status>>
          /\ pc # "exit" /\ server # "exposer"
          /\ failures' = failures \/ failures' = failures \cup {"host"}
          /\ host # "none" /\ host' \notin {"none", "missing"}
          /\ (hostRc' = hostRc /\ hostRc = 0) \/ host' = "done"
      BY <1>17 DEF Host, HostStep, Alive
    <3> QED BY <3>1
  <2>4. FailuresKept'
    BY <1>17 DEF Host, HostStep, Alive
  <2> QED BY <2>1, <2>2, <2>3, <2>4
<1>18. ASSUME NEW w \in Workers, Accept(w)
       PROVE  LifeInv'
  BY <1>18 DEF Accept
<1>19. ASSUME NEW w \in Workers, Worker(w)
       PROVE  LifeInv'
  BY <1>19 DEF Worker, WorkerStep, Alive
<1>20. ASSUME NEW w \in Workers, WorkerCrashes(w)
       PROVE  LifeInv'
  BY <1>20 DEF WorkerCrashes, Crash
<1>21. CASE LoadExposerConfig
  BY <1>21 DEF LoadExposerConfig
<1>22. CASE OpenExposed
  <2>1. TypeOK'
    BY <1>22 DEF OpenExposed, Maps
  <2>2. ThreadsInside' /\ OneServer'
    BY <1>22 DEF OpenExposed, Maps
  <2>3. FailuresKept'
    <3>1. failures' \in {failures, failures \cup {"layout"}, failures \cup {"region"}}
      BY <1>22 DEF OpenExposed, Maps
    <3> QED BY <1>22, <3>1 DEF OpenExposed, Maps
  <2> QED BY <2>1, <2>2, <2>3
<1>23. CASE Expose
  BY <1>23 DEF Expose
<1>24. CASE Exposed
  <2>1. TypeOK'
    BY <1>24 DEF Exposed
  <2>2. ThreadsInside'
    BY <1>24 DEF Exposed
  <2>3. OneServer'
    BY <1>24 DEF Exposed
  <2>4. FailuresKept'
    BY <1>24 DEF Exposed
  <2> QED BY <2>1, <2>2, <2>3, <2>4
<1>25. CASE Endpoint
  <2>1. TypeOK'
    BY <1>25 DEF Endpoint, EndpointEnds
  <2>2. ThreadsInside'
    BY <1>25 DEF Endpoint, EndpointEnds
  <2>3. OneServer'
    BY <1>25 DEF Endpoint, EndpointEnds
  <2>4. FailuresKept'
    BY <1>25 DEF Endpoint, EndpointEnds
  <2> QED BY <2>1, <2>2, <2>3, <2>4
<1>27. CASE JoinMissing
  BY <1>27 DEF JoinMissing
<1>28. CASE JoinCrashes
  BY <1>28 DEF JoinCrashes, Crash
<1>29. CASE Overruns
  BY <1>29 DEF Overruns, Crash
<1>30. CASE GetsStuck
  <2>1. TypeOK'
    BY <1>30 DEF GetsStuck
  <2>2. ThreadsInside'
    BY <1>30 DEF GetsStuck
  <2>3. OneServer'
    BY <1>30 DEF GetsStuck
  <2>4. FailuresKept'
    BY <1>30 DEF GetsStuck
  <2> QED BY <2>1, <2>2, <2>3, <2>4
<1>26. CASE UNCHANGED vars
  BY <1>26 DEF vars
<1> QED
  BY <1>1, <1>2, <1>3, <1>4, <1>5, <1>6, <1>7, <1>8, <1>9, <1>10, <1>11, <1>12,
     <1>13, <1>14, <1>15, <1>16, <1>17, <1>18, <1>19, <1>20, <1>21, <1>22, <1>23,
     <1>24, <1>25, <1>26, <1>27, <1>28, <1>29, <1>30 DEF Next, Main, Exposing, Ended

(* The inductive invariant of the process *)
THEOREM LifecycleInvariant == Spec => []LifeInv
<1>1. QED
  BY InitLife, StepLife, PTL DEF Spec

(* Every variable keeps its type. *)
THEOREM LifecycleTypeCorrect == Spec => []TypeOK
<1>1. LifeInv => TypeOK
  BY DEF LifeInv
<1> QED BY <1>1, LifecycleInvariant, PTL

(* No thread that main joins is in the region when it is not mapped, and   *)
(* only a node with TCP workers can crash.                                 *)
THEOREM JoinedThreadsInside == Spec => []NoUseAfterClose
<1>1. LifeInv => NoUseAfterClose
  BY DEF LifeInv, ThreadsInside, OneServer, NoUseAfterClose, MappedAt, EvictorAt, HostAt
<1> QED BY <1>1, LifecycleInvariant, PTL

(* The exit status tells whether anything failed. *)
THEOREM StatusIsTrue == Spec => []StatusTells
<1>1. LifeInv => StatusTells
  <2>1. SUFFICES ASSUME LifeInv, status = "ok"
                 PROVE  failures \subseteq {"thread", "layout"}
    BY DEF LifeInv, FailuresKept, StatusTells
  <2>2. pc = "exit" /\ rc = 0
    BY <2>1 DEF LifeInv, FailuresKept
  <2>3. hostRc = 0
    BY <2>1, <2>2 DEF LifeInv, FailuresKept, HostAt
  <2> QED BY <2>1, <2>2, <2>3 DEF LifeInv, FailuresKept, TypeOK
<1> QED BY <1>1, LifecycleInvariant, PTL

(* Whatever sizes are configured, a region that is opened has its header,  *)
(* ring and slots inside of the memory, nothing overlapping, and no room   *)
(* for another slot left if a count was open, exactly if the sums of the   *)
(* sizes do not wrap.                                                      *)
THEOREM LayoutIsSound == Spec => []LayoutFits
<1>1. ASSUME NEW c \in Plans
      PROVE  PlanFits(c) /\ SlotsApart(c)
  BY PlansAssumption, PlanIsExact, SlotsDisjoint
<1>2. LifeInv => LayoutFits
  BY <1>1 DEF LifeInv, TypeOK, LayoutFits
<1> QED BY <1>2, LifecycleInvariant, PTL
=============================================================================
