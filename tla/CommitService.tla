---------------------------- MODULE CommitService ----------------------------
(***************************************************************************)
(* What a memory node promises a compute node about commits, with the ring *)
(* left out: a call takes effect at one instant between its submission and *)
(* its return, at most once, and returns the result of that instant.  The  *)
(* one weakness is a call that returns an error: it may have taken effect, *)
(* or may still take effect once, later.                                   *)
(***************************************************************************)
EXTENDS CommitOps

CONSTANTS
  Producers,  \* the callers
  Requests,   \* what they ask
  Ids         \* handles of calls given up while they were under way

VARIABLES
  slot,    \* the slots
  call,    \* the call each caller has in progress
  answer,  \* what each caller's last call returned
  stray    \* requests given up by their caller that may still be executed

vars == <<slot, call, answer, stray>>

NoCall == [stage |-> "none", req |-> ZeroRequest, res |-> NoResult]

Calls   == [stage : {"none", "pending", "executed"}, req : Request, res : Result]
Answers == [kind : {"none", "completed", "unknown"}, res : Result]

NoAnswer == [kind |-> "none", res |-> NoResult]
Unknown  == [kind |-> "unknown", res |-> NoResult]

Init ==
  /\ slot   = [s \in Slots |-> EmptySlot]
  /\ call   = [p \in Producers |-> NoCall]
  /\ answer = [p \in Producers |-> NoAnswer]
  /\ stray  = {}

Call(p) ==
  /\ call[p].stage = "none"
  /\ \E r \in Requests :
       call' = [call EXCEPT ![p] =
                  [stage |-> "pending", req |-> r, res |-> NoResult]]
  /\ answer' = [answer EXCEPT ![p] = NoAnswer]
  /\ UNCHANGED <<slot, stray>>

(* The instant at which a call takes effect *)
Execute(p) ==
  /\ call[p].stage = "pending"
  /\ \E o \in Outcomes(slot, call[p].req) :
       /\ slot' = o[1]
       /\ call' = [call EXCEPT ![p] =
                     [stage |-> "executed", req |-> @.req, res |-> o[2]]]
  /\ UNCHANGED <<answer, stray>>

Return(p) ==
  /\ call[p].stage = "executed"
  /\ answer' = [answer EXCEPT ![p] = [kind |-> "completed", res |-> call[p].res]]
  /\ call' = [call EXCEPT ![p] = NoCall]
  /\ UNCHANGED <<slot, stray>>

GiveUp(p) ==
  /\ call[p].stage # "none"
  /\ answer' = [answer EXCEPT ![p] = Unknown]
  /\ call' = [call EXCEPT ![p] = NoCall]
  /\ \/ UNCHANGED stray
     \/ /\ call[p].stage = "pending"
        /\ \E i \in Ids \ {s.id : s \in stray} :
             stray' = stray \cup {[id |-> i, req |-> call[p].req]}
  /\ UNCHANGED slot

ExecuteStray ==
  /\ \E s \in stray :
       /\ \E o \in Outcomes(slot, s.req) : slot' = o[1]
       /\ stray' = stray \ {s}
  /\ UNCHANGED <<call, answer>>

Evict ==
  /\ \E gone \in SUBSET CacheSlots : slot' = Evicted(slot, gone)
  /\ UNCHANGED <<call, answer, stray>>

Next ==
  \/ \E p \in Producers : Call(p) \/ Execute(p) \/ Return(p) \/ GiveUp(p)
  \/ ExecuteStray
  \/ Evict

Spec == Init /\ [][Next]_vars
=============================================================================
