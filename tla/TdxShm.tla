------------------------------- MODULE TdxShm -------------------------------
(***************************************************************************)
(* /dev/tdx_shm (tdx-dist/kmod/tdx_shm.c): memory of the guest that the    *)
(* host's RDMA device can reach, for the region of a memory node with      *)
(* tdx = on (td_tdx_shm_open in tdx-dist/src/common.c).                    *)
(*                                                                         *)
(* An open file has one object.  The file and every mapping hold it, and   *)
(* the last to let go gives its pages back.  A mapping keeps the file, so  *)
(* the file goes last.  Pages also have a count of their own, which page   *)
(* tables and RDMA registrations increase.  The kernel lets one mmap,      *)
(* munmap or page fault of a process in at a time, and the file is not     *)
(* shared by processes (O_CLOEXEC, no fork), so each is one action.        *)
(***************************************************************************)
EXTENDS Naturals, FiniteSets, Sequences, Functions

CONSTANTS
  Pages,     \* pages of the guest
  MaxPages   \* bound: pages of a mapping

ASSUME MaxPagesAssumption == MaxPages \in Nat

VARIABLES
  fd,      \* whether the descriptor is open
  obj,     \* struct tdx_shm_object
  vmas,    \* mappings, by their first and last page
  ptes,    \* page tables: the page at an offset, once it was touched
  pinned,  \* pages registered with the RDMA device
  page,    \* struct page and whether the page is shared with the host
  failed   \* history: pages that could not be converted back

vars == <<fd, obj, vmas, ptes, pinned, page, failed>>

(* refs = 0 is an object that is freed; table is NULL until hasTable. *)
NoObject == [refs |-> 0, hasTable |-> FALSE, npages |-> 0, table |-> <<>>]

Init ==
  /\ fd = FALSE
  /\ obj = NoObject
  /\ vmas = {}
  /\ ptes = <<>>
  /\ pinned = {}
  /\ page = [p \in Pages |-> [count |-> 0, shared |-> FALSE]]
  /\ failed = {}

Free == {p \in Pages : page[p].count = 0}

Touched(v)  == DOMAIN ptes \cap (v[1] .. v[2])
PagesOf(v)  == {obj.table[i] : i \in v[1] .. v[2]}

(* get_page and put_page, of each page of a set *)
Got(pg, ps)     == [p \in Pages |-> IF p \in ps THEN [pg[p] EXCEPT !.count = @ + 1] ELSE pg[p]]
Dropped(pg, ps) == [p \in Pages |-> IF p \in ps THEN [pg[p] EXCEPT !.count = @ - 1] ELSE pg[p]]

-----------------------------------------------------------------------------
(* A page that does not become private again is freed all the same.        *)
Encrypted(pg, ps) ==
  [p \in Pages |-> IF p \in ps THEN [pg[p] EXCEPT !.shared = FALSE] ELSE pg[p]]

(* tdx_shm_put, called n times, with the pages pg; the last reference      *)
(* makes the pages private and frees them.                                 *)
Put(n, pg) ==
  IF obj.refs > n
  THEN /\ obj' = [obj EXCEPT !.refs = @ - n]
       /\ page' = pg
       /\ UNCHANGED failed
  ELSE \E stuck \in SUBSET {p \in Range(obj.table) : pg[p].shared} :
         /\ obj' = NoObject
         /\ page' = Dropped(Encrypted(pg, Range(obj.table) \ stuck), Range(obj.table))
         /\ failed' = failed \cup stuck

-----------------------------------------------------------------------------
(* tdx_shm_open *)
Open ==
  /\ ~ fd /\ vmas = {}
  /\ fd' = TRUE
  /\ obj' = [NoObject EXCEPT !.refs = 1]
  /\ UNCHANGED <<vmas, ptes, pinned, page, failed>>

(* The t that tdx_shm_alloc_pages got out of n pages, of which the last    *)
(* need not have become shared; shared = n is success.  (No memory for the *)
(* table itself changes nothing.)                                          *)
Obtained(n, t, shared) ==
  /\ Len(t) <= n /\ shared \in {Len(t), Len(t) - 1}
  /\ IsInjective(t) /\ Range(t) \subseteq Free
  /\ page' = [p \in Pages |->
               IF p \notin Range(t) THEN page[p]
               ELSE [count |-> 1,
                     shared |-> page[p].shared \/ p \in {t[i] : i \in 1 .. shared}]]

(* Faulty variant: counts a page too many. *)
AllocPagesOneMore(n, t, shared) ==
  /\ Obtained(n, t, shared)
  /\ obj' = [obj EXCEPT !.hasTable = TRUE, !.npages = n + 1, !.table = t,
                        !.refs = IF shared = n THEN @ + 1 ELSE @]

(* Faulty variant: after a failure the object looks as if it had none. *)
AllocPagesForgotten(n, t, shared) ==
  /\ Obtained(n, t, shared)
  /\ obj' = IF shared = n
            THEN [obj EXCEPT !.hasTable = TRUE, !.npages = n, !.table = t, !.refs = @ + 1]
            ELSE obj

AllocPages(n, t, shared) ==
  /\ Obtained(n, t, shared)
  /\ obj' = [obj EXCEPT !.hasTable = TRUE, !.npages = n, !.table = t,
                        !.refs = IF shared = n THEN @ + 1 ELSE @]

(* tdx_shm_mmap: maps an object once.  An object whose allocation failed   *)
(* keeps what it got, and cannot be mapped any more.                       *)
Mmap ==
  /\ fd /\ ~ obj.hasTable
  /\ \E n \in 1 .. MaxPages :
       \E t \in UNION {[1 .. m -> Pages] : m \in 0 .. n} :
         \E shared \in 0 .. n :
           /\ AllocPages(n, t, shared)
           /\ vmas' = IF shared = n THEN {<<1, n>>} ELSE {}
  /\ UNCHANGED <<fd, ptes, pinned, failed>>

(* Faulty variant: the part split off is not counted. *)
SplitUncounted ==
  \E v \in vmas : \E m \in v[1] .. v[2] - 1 :
    /\ vmas' = (vmas \ {v}) \cup {<<v[1], m>>, <<m + 1, v[2]>>}
    /\ UNCHANGED <<fd, obj, ptes, pinned, page, failed>>

(* tdx_shm_vma_open: a mapping is split, for instance because a part of it *)
(* is going to be unmapped.                                                *)
Split ==
  \E v \in vmas : \E m \in v[1] .. v[2] - 1 :
    /\ vmas' = (vmas \ {v}) \cup {<<v[1], m>>, <<m + 1, v[2]>>}
    /\ obj' = [obj EXCEPT !.refs = @ + 1]
    /\ UNCHANGED <<fd, ptes, pinned, page, failed>>

(* tdx_shm_vma_fault *)
Fault ==
  \E v \in vmas : \E o \in (v[1] .. v[2]) \ DOMAIN ptes :
    /\ o <= obj.npages /\ o <= Len(obj.table)
    /\ ptes' = [i \in DOMAIN ptes \cup {o} |-> obj.table[i]]
    /\ page' = Got(page, {obj.table[o]})
    /\ UNCHANGED <<fd, obj, vmas, pinned, failed>>

(* munmap of one mapping: its page tables, tdx_shm_vma_close, and with the *)
(* last mapping of a closed descriptor tdx_shm_release.                    *)
Munmap ==
  \E v \in vmas :
    /\ vmas' = vmas \ {v}
    /\ ptes' = [i \in DOMAIN ptes \ Touched(v) |-> ptes[i]]
    /\ Put(IF ~ fd /\ vmas' = {} THEN 2 ELSE 1,
           Dropped(page, {ptes[i] : i \in Touched(v)}))
    /\ UNCHANGED <<fd, pinned>>

(* close, and without a mapping tdx_shm_release *)
Close ==
  /\ fd /\ fd' = FALSE
  /\ IF vmas = {} THEN Put(1, page) ELSE UNCHANGED <<obj, page, failed>>
  /\ UNCHANGED <<vmas, ptes, pinned>>

(* ibv_reg_mr of a mapping touches and pins all of its pages ... *)
Pin ==
  /\ pinned = {}
  /\ \E v \in vmas :
       /\ pinned' = PagesOf(v)
       /\ ptes' = [i \in DOMAIN ptes \cup (v[1] .. v[2]) |-> obj.table[i]]
       /\ page' = Got(Got(page, {obj.table[i] : i \in (v[1] .. v[2]) \ DOMAIN ptes}),
                      PagesOf(v))
  /\ UNCHANGED <<fd, obj, vmas, failed>>

(* ... and ibv_dereg_mr unpins them.  When a process is killed, this, its  *)
(* mappings and its descriptor end in the order of the kernel's choice.    *)
Unpin ==
  /\ pinned # {}
  /\ pinned' = {}
  /\ page' = Dropped(page, pinned)
  /\ UNCHANGED <<fd, obj, vmas, ptes, failed>>

Next == Open \/ Mmap \/ Split \/ Fault \/ Munmap \/ Close \/ Pin \/ Unpin

Spec == Init /\ [][Next]_vars

-----------------------------------------------------------------------------
(* Properties *)

(* Every variable has its type. *)
TypeOK ==
  /\ fd \in BOOLEAN
  /\ obj \in [refs : Nat, hasTable : BOOLEAN, npages : 0 .. MaxPages, table : Seq(Pages)]
  /\ vmas \subseteq (1 .. MaxPages) \X (1 .. MaxPages)
  /\ DOMAIN ptes \subseteq 1 .. MaxPages /\ \A i \in DOMAIN ptes : ptes[i] \in Pages
  /\ pinned \subseteq Pages
  /\ page \in [Pages -> [count : Nat, shared : BOOLEAN]]
  /\ failed \subseteq Pages

(* The object lives exactly as long as somebody holds it, and a page is    *)
(* counted exactly once for each of object, page tables and registration:  *)
(* nothing that is mapped or registered is ever free, in whatever order    *)
(* mappings are split and removed and the descriptor is closed.            *)
CountsAreTrue ==
  /\ obj.refs = Cardinality(vmas) + (IF fd \/ vmas # {} THEN 1 ELSE 0)
  /\ \A p \in Pages :
       page[p].count = Cardinality({i \in DOMAIN obj.table : obj.table[i] = p})
                       + Cardinality({i \in DOMAIN ptes : ptes[i] = p})
                       + (IF p \in pinned THEN 1 ELSE 0)

(* When descriptor, mappings and registrations are gone, also after an     *)
(* allocation that failed half-way, all pages are free again, and private  *)
(* except for those whose conversion failed, which tdx_shm_put ignores.    *)
AllReturned ==
  /\ ~ fd /\ vmas = {} /\ pinned = {} => Free = Pages
  /\ \A p \in Free : page[p].shared => p \in failed
=============================================================================
