----------------------------- MODULE SharedRegion -----------------------------
(***************************************************************************)
(* The backing file of a region that two processes map: the host exposer,  *)
(* through which the compute nodes reach it, and the memory node in the    *)
(* guest, which consumes the request ring (tdx-dist/src/layout.c,          *)
(* tdx-dist-host/src/layout.c).  Both take themselves for its owner: each  *)
(* clears and initializes the file when it starts.                         *)
(*                                                                         *)
(* One slot and one entry of the ring stand for all of them.               *)
(***************************************************************************)
EXTENDS Naturals

CONSTANTS
  Values,     \* contents of a slot
  None,       \* an empty slot or entry, none of Values
  MaxStarts   \* bound: starts of a process

Owners == {"host", "guest"}

VARIABLES
  file,     \* header (whether it is complete), entry and slot
  owner,    \* per process: how far it is, and how often it was started
  request,  \* the value that the compute node has requested
  acked     \* history: the value it was last told to be committed

vars == <<file, owner, request, acked>>

Zero == [header |-> FALSE, entry |-> None, done |-> FALSE, slot |-> None]

Init ==
  /\ file = Zero
  /\ owner = [o \in Owners |-> [pc |-> "down", starts |-> 0]]
  /\ request = None
  /\ acked = None

At(o, pc, next) == owner[o].pc = pc /\ owner' = [owner EXCEPT ![o].pc = next]

-----------------------------------------------------------------------------
(* open, ftruncate to the size it has, mmap *)
Open(o) ==
  /\ owner[o].pc = "down" /\ owner[o].starts < MaxStarts
  /\ owner' = [owner EXCEPT ![o] = [pc |-> "opened", starts |-> @.starts + 1]]
  /\ UNCHANGED <<file, request, acked>>

(* The memset of the whole region, of the guest ... *)
Clear ==
  /\ At("guest", "opened", "cleared")
  /\ file' = Zero
  /\ UNCHANGED <<request, acked>>

(* ... and of the host *)
ClearExposed ==
  /\ At("host", "opened", "cleared")
  /\ file' = Zero
  /\ UNCHANGED <<request, acked>>

(* Header and ring, the counters of which start at 0 *)
Initialize(o) ==
  /\ At(o, "cleared", "up")
  /\ file' = [file EXCEPT !.header = TRUE, !.entry = None, !.done = FALSE]
  /\ UNCHANGED <<request, acked>>

(* A process ends; the file stays. *)
Stop(o) ==
  /\ At(o, owner[o].pc, "down") /\ owner[o].pc # "down"
  /\ UNCHANGED <<file, request, acked>>

-----------------------------------------------------------------------------
(* The compute node publishes a request through the host ... *)
Publish(v) ==
  /\ owner["host"].pc = "up" /\ file.header
  /\ request = None /\ file.entry = None
  /\ request' = v
  /\ file' = [file EXCEPT !.entry = v, !.done = FALSE]
  /\ UNCHANGED <<owner, acked>>

(* ... the guest executes it ... *)
Consume ==
  /\ owner["guest"].pc = "up" /\ file.entry # None /\ ~ file.done
  /\ file' = [file EXCEPT !.slot = file.entry, !.done = TRUE]
  /\ UNCHANGED <<owner, request, acked>>

(* ... and the answer is read, or the deadline passes. *)
Answer ==
  /\ request # None
  /\ \/ /\ owner["host"].pc = "up" /\ file.entry = request /\ file.done
        /\ acked' = request
        /\ file' = [file EXCEPT !.entry = None]
     \/ UNCHANGED <<file, acked>>
  /\ request' = None
  /\ UNCHANGED owner

Next ==
  \/ \E o \in Owners : Open(o) \/ Initialize(o) \/ Stop(o)
  \/ Clear \/ ClearExposed
  \/ \E v \in Values : Publish(v)
  \/ Consume \/ Answer

Spec == Init /\ [][Next]_vars

-----------------------------------------------------------------------------
(* The guest attaches the region that the host made and only consumes the  *)
(* ring (skill.md, README.md): what was committed to a slot and            *)
(* acknowledged is not lost when one of them starts again.                 *)
AttachKeeps == acked # None => file.slot # None
=============================================================================
