----------------------------- MODULE TdxShmProofs -----------------------------
(***************************************************************************)
(* Proofs about /dev/tdx_shm, for every set of pages and mappings of every *)
(* size: no page that is mapped or registered is free, and every page is   *)
(* given back, private, when nobody holds it any more.                     *)
(***************************************************************************)
EXTENDS TdxShm, Integers, FiniteSetTheorems, TLAPS

(* The inductive invariant: the counts are those of the holders, said      *)
(* without cardinalities, and everything that is mapped or touched is a    *)
(* part of the table.                                                      *)

One(S, p) == IF p \in S THEN 1 ELSE 0

PagesCounted ==
  \A p \in Pages :
    page[p].count = One(Range(obj.table), p) + One(Range(ptes), p) + One(pinned, p)

RefsCounted ==
  obj.refs = Cardinality(vmas) + (IF fd \/ vmas # {} THEN 1 ELSE 0)

(* A table has each page once; without a table, and without holder, there  *)
(* are no pages.                                                           *)
TableSound ==
  /\ IsInjective(obj.table)
  /\ Len(obj.table) <= obj.npages
  /\ ~ obj.hasTable => obj.table = <<>> /\ vmas = {}
  /\ ~ fd /\ vmas = {} => obj = NoObject

(* Mappings are disjoint intervals of the table. *)
MappingsSound ==
  /\ \A v \in vmas : v[1] <= v[2] /\ v[2] <= Len(obj.table)
  /\ \A v, w \in vmas : v # w => v[2] < w[1] \/ w[2] < v[1]

(* Page tables show the pages of mappings only. *)
TouchedSound ==
  \A i \in DOMAIN ptes :
    /\ \E v \in vmas : i \in v[1] .. v[2]
    /\ i \in DOMAIN obj.table /\ ptes[i] = obj.table[i]

SharedHeld ==
  \A p \in Pages : page[p].shared => p \in failed \/ p \in Range(obj.table)

Inv ==
  /\ TypeOK
  /\ PagesCounted /\ RefsCounted
  /\ TableSound /\ MappingsSound /\ TouchedSound /\ SharedHeld

-----------------------------------------------------------------------------
(* Mappings are finitely many. *)
LEMMA VmasFinite ==
  ASSUME vmas \subseteq (1 .. MaxPages) \X (1 .. MaxPages)
  PROVE  IsFiniteSet(vmas) /\ Cardinality(vmas) \in Nat
<1>1. IsFiniteSet(1 .. MaxPages)
  BY MaxPagesAssumption, FS_Interval
<1>2. IsFiniteSet((1 .. MaxPages) \X (1 .. MaxPages))
  BY <1>1, FS_Product
<1>. QED
  BY <1>2, FS_Subset, FS_CardinalityType

(* How often an injective function has a value *)
LEMMA CountOfValue ==
  ASSUME NEW f, IsInjective(f), NEW p
  PROVE  Cardinality({i \in DOMAIN f : f[i] = p}) = One(Range(f), p)
<1>1. CASE p \in Range(f)
  <2>1. PICK i \in DOMAIN f : f[i] = p
    BY <1>1 DEF Range
  <2>2. {j \in DOMAIN f : f[j] = p} = {i}
    BY <2>1 DEF IsInjective
  <2>. QED
    BY <1>1, <2>2, FS_Singleton DEF One
<1>2. CASE p \notin Range(f)
  <2>1. {j \in DOMAIN f : f[j] = p} = {}
    BY <1>2 DEF Range
  <2>. QED
    BY <1>2, <2>1, FS_EmptySet DEF One
<1>. QED
  BY <1>1, <1>2

(* The invariant says what the property says. *)
LEMMA InvCounts == Inv => CountsAreTrue
<1> SUFFICES ASSUME Inv PROVE CountsAreTrue
  OBVIOUS
<1>1. IsInjective(obj.table) /\ IsInjective(ptes)
  BY DEF Inv, TableSound, TouchedSound, IsInjective
<1>2. ASSUME NEW p \in Pages
      PROVE  page[p].count = Cardinality({i \in DOMAIN obj.table : obj.table[i] = p})
                             + Cardinality({i \in DOMAIN ptes : ptes[i] = p})
                             + (IF p \in pinned THEN 1 ELSE 0)
  <2>1. /\ Cardinality({i \in DOMAIN obj.table : obj.table[i] = p}) = One(Range(obj.table), p)
        /\ Cardinality({i \in DOMAIN ptes : ptes[i] = p}) = One(Range(ptes), p)
    BY <1>1, CountOfValue
  <2>2. page[p].count = One(Range(obj.table), p) + One(Range(ptes), p) + One(pinned, p)
    BY DEF Inv, PagesCounted
  <2>. QED
    BY <2>1, <2>2 DEF One
<1>. QED
  BY <1>2 DEF Inv, RefsCounted, CountsAreTrue

LEMMA InvReturns == Inv => AllReturned
<1> SUFFICES ASSUME Inv PROVE AllReturned
  OBVIOUS
<1>1. ASSUME ~ fd, vmas = {}, pinned = {}
      PROVE  Free = Pages
  <2>1. obj.table = <<>> /\ DOMAIN ptes = {}
    <3>1. obj = NoObject
      BY <1>1 DEF Inv, TableSound
    <3>2. \A i \in DOMAIN ptes : FALSE
      BY <1>1 DEF Inv, TouchedSound
    <3>. QED
      BY <3>1, <3>2 DEF NoObject
  <2>2. Range(obj.table) = {} /\ Range(ptes) = {}
    BY <2>1 DEF Range
  <2>3. \A p \in Pages : page[p].count = 0
    BY <1>1, <2>2 DEF Inv, PagesCounted, One
  <2>. QED
    BY <2>3 DEF Free
<1>2. ASSUME NEW p \in Free, page[p].shared, p \notin failed
      PROVE  FALSE
  <2>1. p \in Range(obj.table) /\ page[p].count = 0
    BY <1>2 DEF Inv, SharedHeld, Free
  <2>. QED
    BY <2>1 DEF Inv, PagesCounted, One, Free
<1>. QED
  BY <1>1, <1>2 DEF AllReturned

-----------------------------------------------------------------------------
LEMMA InitInv == Init => Inv
<1> SUFFICES ASSUME Init PROVE Inv
  OBVIOUS
<1>1. obj.table = <<>> /\ DOMAIN ptes = {} /\ Range(obj.table) = {} /\ Range(ptes) = {}
  BY DEF Init, NoObject, Range
<1>2. TypeOK
  <2>1. NoObject \in [refs : Nat, hasTable : BOOLEAN, npages : 0 .. MaxPages,
                      table : Seq(Pages)]
    BY MaxPagesAssumption DEF NoObject
  <2>2. page \in [Pages -> [count : Nat, shared : BOOLEAN]]
    BY DEF Init
  <2>. QED
    BY <1>1, <2>1, <2>2 DEF Init, TypeOK
<1>3. PagesCounted
  BY <1>1 DEF Init, PagesCounted, One
<1>4. RefsCounted
  BY FS_EmptySet DEF Init, RefsCounted, NoObject
<1>5. TableSound /\ MappingsSound /\ TouchedSound /\ SharedHeld
  BY <1>1 DEF Init, TableSound, MappingsSound, TouchedSound, SharedHeld, NoObject, IsInjective
<1>. QED
  BY <1>2, <1>3, <1>4, <1>5 DEF Inv

(* tdx_shm_put: the caller has let go of what it held. *)
LEMMA PutStep ==
  ASSUME Inv, NEW n \in Nat, NEW pg \in [Pages -> [count : Nat, shared : BOOLEAN]],
         \A p \in Pages :
           /\ pg[p].count = One(Range(obj.table), p) + One(Range(ptes'), p) + One(pinned, p)
           /\ pg[p].shared = page[p].shared,
         fd' \in BOOLEAN, vmas' \subseteq vmas, pinned' = pinned,
         \A i \in DOMAIN ptes' :
           /\ i \in DOMAIN ptes /\ ptes'[i] = ptes[i]
           /\ \E v \in vmas' : i \in v[1] .. v[2],
         obj.refs = n + Cardinality(vmas') + (IF fd' \/ vmas' # {} THEN 1 ELSE 0),
         vmas # {} \/ ~ fd',
         Put(n, pg)
  PROVE  Inv'
<1>1. IsFiniteSet(vmas') /\ Cardinality(vmas') \in Nat
  <2>1. IsFiniteSet(vmas)
    BY VmasFinite DEF Inv, TypeOK
  <2>. QED
    BY <2>1, FS_Subset, FS_CardinalityType
<1>2. obj \in [refs : Nat, hasTable : BOOLEAN, npages : 0 .. MaxPages, table : Seq(Pages)]
  BY DEF Inv, TypeOK
<1>3. \A v \in vmas' : v \in vmas
  OBVIOUS
<1>4. CASE obj.refs > n
  <2>1. /\ obj' = [obj EXCEPT !.refs = @ - n] /\ page' = pg /\ failed' = failed
    BY <1>4 DEF Put
  <2>2. /\ obj'.refs = obj.refs - n /\ obj'.table = obj.table /\ obj'.npages = obj.npages
        /\ obj'.hasTable = obj.hasTable
        /\ obj' \in [refs : Nat, hasTable : BOOLEAN, npages : 0 .. MaxPages,
                     table : Seq(Pages)]
    <3>1. obj.refs - n \in Nat
      BY <1>2, <1>4
    <3>2. obj' = [refs |-> obj.refs - n, hasTable |-> obj.hasTable, npages |-> obj.npages,
                  table |-> obj.table]
      BY <1>2, <2>1
    <3>. QED
      BY <1>2, <3>1, <3>2
  <2>3. fd' \/ vmas' # {}
    BY <1>1, <1>2, <1>4, FS_EmptySet
  <2>4. TypeOK'
    BY <2>1, <2>2 DEF Inv, TypeOK
  <2>5. PagesCounted'
    BY <2>1, <2>2 DEF PagesCounted
  <2>6. RefsCounted'
    BY <1>1, <1>2, <2>2 DEF RefsCounted
  <2>7. TableSound'
    BY <1>3, <2>2, <2>3 DEF Inv, TableSound
  <2>8. MappingsSound'
    BY <1>3, <2>2 DEF Inv, MappingsSound
  <2>9. TouchedSound'
    BY <2>2 DEF Inv, TouchedSound
  <2>10. SharedHeld'
    BY <2>1, <2>2 DEF Inv, SharedHeld
  <2>. QED
    BY <2>4, <2>5, <2>6, <2>7, <2>8, <2>9, <2>10 DEF Inv
<1>5. CASE ~ obj.refs > n
  <2>1. PICK stuck \in SUBSET {p \in Range(obj.table) : pg[p].shared} :
          /\ obj' = NoObject
          /\ page' = Dropped(Encrypted(pg, Range(obj.table) \ stuck), Range(obj.table))
          /\ failed' = failed \cup stuck
    BY <1>5 DEF Put
  <2>2. ~ fd' /\ vmas' = {} /\ Cardinality(vmas') = 0
    BY <1>1, <1>2, <1>5, FS_EmptySet
  <2>3. \A i \in DOMAIN ptes' : FALSE
    BY <2>2
  <2>4. /\ obj'.table = <<>> /\ obj'.refs = 0 /\ obj'.npages = 0 /\ obj'.hasTable = FALSE
        /\ Range(obj'.table) = {} /\ Range(ptes') = {}
    BY <2>1, <2>3 DEF NoObject, Range
  <2>5. Range(obj.table) \subseteq Pages
    BY <1>2 DEF Range
  <2>6. \A p \in Pages :
          /\ page'[p].count = One(pinned, p)
          /\ page'[p].shared => pg[p].shared /\ p \notin Range(obj.table) \ stuck
          /\ page'[p] \in [count : Nat, shared : BOOLEAN]
    <3>1. ASSUME NEW p \in Pages, p \in Range(obj.table)
          PROVE  /\ page'[p].count = One(pinned, p)
                 /\ page'[p].shared => pg[p].shared /\ p \notin Range(obj.table) \ stuck
                 /\ page'[p] \in [count : Nat, shared : BOOLEAN]
      <4>1. pg[p].count = 1 + One(pinned, p) /\ One(pinned, p) \in Nat
        BY <2>4, <3>1 DEF One
      <4>2. page'[p] = [(IF p \in Range(obj.table) \ stuck
                         THEN [pg[p] EXCEPT !.shared = FALSE] ELSE pg[p])
                        EXCEPT !.count = @ - 1]
        BY <2>1, <3>1 DEF Dropped, Encrypted
      <4>3. pg[p].count \in Nat /\ pg[p].count - 1 = One(pinned, p)
        BY <4>1
      <4>4. CASE p \in Range(obj.table) \ stuck
        <5>1. PICK r \in [count : Nat, shared : BOOLEAN] :
                r = [pg[p] EXCEPT !.shared = FALSE] /\ r.count = pg[p].count /\ ~ r.shared
          <6>1. PICK x \in [count : Nat, shared : BOOLEAN] : x = pg[p]
            OBVIOUS
          <6>2. [x EXCEPT !.shared = FALSE] \in [count : Nat, shared : BOOLEAN]
            OBVIOUS
          <6>3. [x EXCEPT !.shared = FALSE].count = x.count
            OBVIOUS
          <6>4. ~ [x EXCEPT !.shared = FALSE].shared
            OBVIOUS
          <6>. QED
            BY <6>1, <6>2, <6>3, <6>4
        <5>2. page'[p] = [r EXCEPT !.count = @ - 1]
          BY <4>2, <4>4, <5>1
        <5>3. r.count - 1 = One(pinned, p) /\ r.count - 1 \in Nat
          BY <4>1, <4>3, <5>1
        <5>. QED
          BY <5>1, <5>2, <5>3
      <4>5. CASE p \notin Range(obj.table) \ stuck
        <5>1. page'[p] = [count |-> pg[p].count - 1, shared |-> pg[p].shared]
          BY <4>2, <4>5
        <5>. QED
          BY <4>1, <4>3, <4>5, <5>1
      <4>. QED
        BY <4>4, <4>5
    <3>2. ASSUME NEW p \in Pages, p \notin Range(obj.table)
          PROVE  /\ page'[p].count = One(pinned, p)
                 /\ page'[p].shared => pg[p].shared /\ p \notin Range(obj.table) \ stuck
                 /\ page'[p] \in [count : Nat, shared : BOOLEAN]
      <4>1. pg[p].count = One(pinned, p)
        BY <2>4, <3>2 DEF One
      <4>2. page'[p] = pg[p]
        BY <2>1, <3>2 DEF Dropped, Encrypted
      <4>. QED
        BY <3>2, <4>1, <4>2
    <3>. QED
      BY <3>1, <3>2
  <2>7. page' \in [Pages -> [count : Nat, shared : BOOLEAN]]
    BY <2>1, <2>6 DEF Dropped
  <2>8. NoObject \in [refs : Nat, hasTable : BOOLEAN, npages : 0 .. MaxPages,
                      table : Seq(Pages)]
    BY MaxPagesAssumption DEF NoObject
  <2>9. TypeOK'
    BY <2>1, <2>2, <2>3, <2>5, <2>7, <2>8 DEF Inv, TypeOK
  <2>10. PagesCounted'
    BY <2>4, <2>6 DEF PagesCounted, One
  <2>11. RefsCounted'
    BY <2>2, <2>4 DEF RefsCounted
  <2>12. TableSound'
    BY <2>1, <2>2, <2>4 DEF TableSound, IsInjective
  <2>13. MappingsSound' /\ TouchedSound'
    BY <2>2, <2>3 DEF MappingsSound, TouchedSound
  <2>14. SharedHeld'
    BY <2>1, <2>6 DEF Inv, SharedHeld
  <2>. QED
    BY <2>9, <2>10, <2>11, <2>12, <2>13, <2>14 DEF Inv
<1>. QED
  BY <1>4, <1>5

LEMMA OpenStep ==
  ASSUME Inv, Open
  PROVE  Inv'
<1>1. /\ vmas = {} /\ fd' = TRUE /\ obj' = [NoObject EXCEPT !.refs = 1]
      /\ obj = NoObject /\ UNCHANGED <<vmas, ptes, pinned, page, failed>>
  BY DEF Open, Inv, TableSound
<1>2. /\ obj'.table = obj.table /\ obj'.refs = 1 /\ obj'.npages = 0 /\ obj'.hasTable = FALSE
      /\ obj.table = <<>>
      /\ obj' \in [refs : Nat, hasTable : BOOLEAN, npages : 0 .. MaxPages, table : Seq(Pages)]
  <2>1. obj' = [refs |-> 1, hasTable |-> FALSE, npages |-> 0, table |-> <<>>]
    BY <1>1 DEF NoObject
  <2>2. <<>> \in Seq(Pages) /\ 0 \in 0 .. MaxPages
    BY MaxPagesAssumption
  <2>3. obj.table = <<>>
    BY <1>1 DEF NoObject
  <2>. QED
    BY <2>1, <2>2, <2>3
<1>3. TypeOK'
  BY <1>1, <1>2 DEF Inv, TypeOK
<1>4. PagesCounted' /\ SharedHeld'
  BY <1>1, <1>2 DEF Inv, PagesCounted, SharedHeld
<1>5. RefsCounted'
  BY <1>1, <1>2, FS_EmptySet DEF RefsCounted
<1>6. TableSound' /\ MappingsSound' /\ TouchedSound'
  BY <1>1, <1>2 DEF Inv, TableSound, MappingsSound, TouchedSound, IsInjective
<1>. QED
  BY <1>3, <1>4, <1>5, <1>6 DEF Inv

(* A step that changes neither object, nor descriptor, nor mappings *)
LEMMA HolderStep ==
  ASSUME Inv, UNCHANGED <<fd, obj, vmas, failed>>,
         page' \in [Pages -> [count : Nat, shared : BOOLEAN]],
         \A p \in Pages : page'[p].shared = page[p].shared,
         pinned' \subseteq Pages,
         \A i \in DOMAIN ptes' :
           /\ \E v \in vmas : i \in v[1] .. v[2]
           /\ ptes'[i] = obj.table[i],
         PagesCounted'
  PROVE  Inv'
<1>1. \A v \in vmas : v \in (1 .. MaxPages) \X (1 .. MaxPages)
                      /\ v[1] <= v[2] /\ v[2] <= Len(obj.table)
  BY DEF Inv, TypeOK, MappingsSound
<1>2. obj.table \in Seq(Pages) /\ DOMAIN obj.table = 1 .. Len(obj.table)
      /\ Len(obj.table) \in Nat
  BY DEF Inv, TypeOK
<1>3. \A i \in DOMAIN ptes' :
        /\ i \in 1 .. MaxPages /\ i \in DOMAIN obj.table /\ ptes'[i] \in Pages
  <2>1. ASSUME NEW i \in DOMAIN ptes'
        PROVE  /\ i \in 1 .. MaxPages /\ i \in DOMAIN obj.table /\ ptes'[i] \in Pages
    <3>1. PICK v \in vmas : i \in v[1] .. v[2]
      OBVIOUS
    <3>2. v[1] \in 1 .. MaxPages /\ v[2] \in 1 .. MaxPages /\ v[2] <= Len(obj.table)
      BY <1>1
    <3>3. i \in 1 .. MaxPages /\ i \in 1 .. Len(obj.table)
      BY <1>2, <3>1, <3>2, MaxPagesAssumption
    <3>. QED
      BY <1>2, <3>3
  <2>. QED
    BY <2>1
<1>4. TypeOK'
  BY <1>3 DEF Inv, TypeOK
<1>5. RefsCounted' /\ TableSound' /\ MappingsSound'
  BY DEF Inv, RefsCounted, TableSound, MappingsSound
<1>6. TouchedSound'
  BY <1>3 DEF TouchedSound
<1>7. SharedHeld'
  BY DEF Inv, SharedHeld
<1>. QED
  BY <1>4, <1>5, <1>6, <1>7 DEF Inv

(* get_page changes the count of the pages given, by one. *)
LEMMA GotCounts ==
  ASSUME NEW pg \in [Pages -> [count : Nat, shared : BOOLEAN]], NEW S
  PROVE  /\ Got(pg, S) \in [Pages -> [count : Nat, shared : BOOLEAN]]
         /\ \A p \in Pages : /\ Got(pg, S)[p].count = pg[p].count + One(S, p)
                             /\ Got(pg, S)[p].shared = pg[p].shared
  BY DEF Got, One

(* put_page, of pages that are held *)
LEMMA DroppedCounts ==
  ASSUME NEW pg \in [Pages -> [count : Nat, shared : BOOLEAN]], NEW S,
         \A p \in Pages : p \in S => pg[p].count > 0
  PROVE  /\ Dropped(pg, S) \in [Pages -> [count : Nat, shared : BOOLEAN]]
         /\ \A p \in Pages : /\ Dropped(pg, S)[p].count = pg[p].count - One(S, p)
                             /\ Dropped(pg, S)[p].shared = pg[p].shared
  BY DEF Dropped, One

(* The pages at offsets of a mapping: they are held by the table, and the  *)
(* ones that were not touched are not in the page tables.                  *)
LEMMA NewlyTouched ==
  ASSUME Inv, NEW S \in SUBSET DOMAIN obj.table, DOMAIN ptes' = DOMAIN ptes \cup S,
         \A i \in DOMAIN ptes' : ptes'[i] = obj.table[i]
  PROVE  LET new == {obj.table[i] : i \in S \ DOMAIN ptes} IN
         \A p \in Pages : One(Range(ptes'), p) = One(Range(ptes), p) + One(new, p)
<1> DEFINE new == {obj.table[i] : i \in S \ DOMAIN ptes}
<1>1. \A i \in DOMAIN ptes : i \in DOMAIN obj.table /\ ptes[i] = obj.table[i]
  BY DEF Inv, TouchedSound
<1>2. \A i, j \in DOMAIN obj.table : obj.table[i] = obj.table[j] => i = j
  BY DEF Inv, TableSound, IsInjective
<1>3. ASSUME NEW p \in Pages, p \in Range(ptes), p \in new
      PROVE  FALSE
  BY <1>1, <1>2, <1>3 DEF Range
<1>4. ASSUME NEW p \in Pages
      PROVE  p \in Range(ptes') <=> p \in Range(ptes) \/ p \in new
  <2>1. p \in Range(ptes') <=> \E i \in DOMAIN ptes \cup S : p = obj.table[i]
    BY DEF Range
  <2>2. p \in Range(ptes) <=> \E i \in DOMAIN ptes : p = obj.table[i]
    BY <1>1 DEF Range
  <2>3. p \in new <=> \E i \in S \ DOMAIN ptes : p = obj.table[i]
    OBVIOUS
  <2>. QED
    BY <2>1, <2>2, <2>3
<1>. QED
  BY <1>3, <1>4 DEF One

LEMMA FaultStep ==
  ASSUME Inv, Fault
  PROVE  Inv'
<1>0. PICK v \in vmas :
        \E o \in (v[1] .. v[2]) \ DOMAIN ptes :
          /\ o <= obj.npages /\ o <= Len(obj.table)
          /\ ptes' = [i \in DOMAIN ptes \cup {o} |-> obj.table[i]]
          /\ page' = Got(page, {obj.table[o]})
          /\ UNCHANGED <<fd, obj, vmas, pinned, failed>>
  BY DEF Fault
<1>1. PICK o \in (v[1] .. v[2]) \ DOMAIN ptes :
        /\ o <= obj.npages /\ o <= Len(obj.table)
        /\ ptes' = [i \in DOMAIN ptes \cup {o} |-> obj.table[i]]
        /\ page' = Got(page, {obj.table[o]})
        /\ UNCHANGED <<fd, obj, vmas, pinned, failed>>
  BY <1>0
<1>2. v[1] \in 1 .. MaxPages /\ v[2] \in 1 .. MaxPages
      /\ obj.table \in Seq(Pages) /\ page \in [Pages -> [count : Nat, shared : BOOLEAN]]
  BY DEF Inv, TypeOK
<1>3. o \in DOMAIN obj.table
  BY <1>1, <1>2
<1>4. PICK new : new = {obj.table[o]} /\ page' = Got(page, new)
  BY <1>1
<1>5. /\ page' \in [Pages -> [count : Nat, shared : BOOLEAN]]
      /\ \A p \in Pages : /\ page'[p].count = page[p].count + One(new, p)
                          /\ page'[p].shared = page[p].shared
  BY <1>2, <1>4, GotCounts
<1>6. PagesCounted'
  <2>1. \A p \in Pages : One(Range(ptes'), p) = One(Range(ptes), p) + One(new, p)
    <3>1. DOMAIN ptes' = DOMAIN ptes \cup {o} /\ \A i \in DOMAIN ptes' : ptes'[i] = obj.table[i]
      BY <1>1
    <3>2. {obj.table[i] : i \in {o} \ DOMAIN ptes} = new
      BY <1>4
    <3>. QED
      BY <1>3, <3>1, <3>2, NewlyTouched
  <2>2. \A p \in Pages : \A S : One(S, p) \in Nat
    BY DEF One
  <2>3. Range(obj'.table) = Range(obj.table) /\ pinned' = pinned
    BY <1>1
  <2>4. ASSUME NEW p \in Pages
        PROVE  page'[p].count = One(Range(obj.table), p) + One(Range(ptes'), p) + One(pinned, p)
    <3>1. page[p].count = One(Range(obj.table), p) + One(Range(ptes), p) + One(pinned, p)
      BY DEF Inv, PagesCounted
    <3>. QED
      BY <1>5, <2>1, <2>2, <3>1
  <2>. QED
    BY <2>3, <2>4 DEF PagesCounted
<1>7. \A i \in DOMAIN ptes' : (\E w \in vmas : i \in w[1] .. w[2]) /\ ptes'[i] = obj.table[i]
  BY <1>1 DEF Inv, TouchedSound
<1>8. pinned' \subseteq Pages
  BY <1>1 DEF Inv, TypeOK
<1>. QED
  BY <1>1, <1>5, <1>6, <1>7, <1>8, HolderStep

LEMMA PinStep ==
  ASSUME Inv, Pin
  PROVE  Inv'
<1>1. PICK v \in vmas :
        /\ pinned' = PagesOf(v)
        /\ ptes' = [i \in DOMAIN ptes \cup (v[1] .. v[2]) |-> obj.table[i]]
        /\ page' = Got(Got(page, {obj.table[i] : i \in (v[1] .. v[2]) \ DOMAIN ptes}),
                       PagesOf(v))
        /\ pinned = {} /\ UNCHANGED <<fd, obj, vmas, failed>>
  BY DEF Pin
<1>2. v[1] \in 1 .. MaxPages /\ v[2] \in 1 .. MaxPages /\ v[2] <= Len(obj.table)
      /\ obj.table \in Seq(Pages) /\ page \in [Pages -> [count : Nat, shared : BOOLEAN]]
  BY DEF Inv, TypeOK, MappingsSound
<1>3. v[1] .. v[2] \in SUBSET DOMAIN obj.table
  BY <1>2
<1>4. PagesOf(v) \subseteq Pages
  BY <1>2, <1>3 DEF PagesOf
<1>5. PICK new : new = {obj.table[i] : i \in (v[1] .. v[2]) \ DOMAIN ptes}
                 /\ page' = Got(Got(page, new), PagesOf(v))
  BY <1>1
<1>6. PICK half : half = Got(page, new) /\ page' = Got(half, PagesOf(v))
  BY <1>5
<1>7. /\ half \in [Pages -> [count : Nat, shared : BOOLEAN]]
      /\ \A p \in Pages : /\ half[p].count = page[p].count + One(new, p)
                          /\ half[p].shared = page[p].shared
  BY <1>2, <1>6, GotCounts
<1>8. /\ page' \in [Pages -> [count : Nat, shared : BOOLEAN]]
      /\ \A p \in Pages : /\ page'[p].count = half[p].count + One(PagesOf(v), p)
                          /\ page'[p].shared = half[p].shared
  BY <1>6, <1>7, GotCounts
<1>9. PagesCounted'
  <2>1. \A p \in Pages : One(Range(ptes'), p) = One(Range(ptes), p) + One(new, p)
    <3>1. DOMAIN ptes' = DOMAIN ptes \cup (v[1] .. v[2])
          /\ \A i \in DOMAIN ptes' : ptes'[i] = obj.table[i]
      BY <1>1
    <3>. QED
      BY <1>3, <1>5, <3>1, NewlyTouched
  <2>2. \A p \in Pages : \A S : One(S, p) \in Nat
    BY DEF One
  <2>3. ASSUME NEW p \in Pages
        PROVE  page'[p].count = One(Range(obj.table), p) + One(Range(ptes'), p)
                                + One(PagesOf(v), p)
    <3>1. page[p].count = One(Range(obj.table), p) + One(Range(ptes), p) + One(pinned, p)
      BY DEF Inv, PagesCounted
    <3>2. One(pinned, p) = 0
      BY <1>1 DEF One
    <3>. QED
      BY <1>7, <1>8, <2>1, <2>2, <3>1, <3>2
  <2>4. Range(obj'.table) = Range(obj.table) /\ pinned' = PagesOf(v)
    BY <1>1
  <2>. QED
    BY <2>3, <2>4 DEF PagesCounted
<1>10. \A i \in DOMAIN ptes' : (\E w \in vmas : i \in w[1] .. w[2]) /\ ptes'[i] = obj.table[i]
  BY <1>1 DEF Inv, TouchedSound
<1>. QED
  BY <1>1, <1>4, <1>7, <1>8, <1>9, <1>10, HolderStep

LEMMA UnpinStep ==
  ASSUME Inv, Unpin
  PROVE  Inv'
<1>1. /\ pinned' = {} /\ page' = Dropped(page, pinned)
      /\ UNCHANGED <<fd, obj, vmas, ptes, failed>>
  BY DEF Unpin
<1>2. page \in [Pages -> [count : Nat, shared : BOOLEAN]]
  BY DEF Inv, TypeOK
<1>3. \A p \in Pages : \A S : One(S, p) \in Nat
  BY DEF One
<1>4. \A p \in Pages : p \in pinned => page[p].count > 0
  <2>1. ASSUME NEW p \in Pages, p \in pinned
        PROVE  page[p].count > 0
    <3>1. page[p].count = One(Range(obj.table), p) + One(Range(ptes), p) + One(pinned, p)
      BY DEF Inv, PagesCounted
    <3>2. One(pinned, p) = 1
      BY <2>1 DEF One
    <3>. QED
      BY <1>3, <3>1, <3>2
  <2>. QED
    BY <2>1
<1>5. /\ page' \in [Pages -> [count : Nat, shared : BOOLEAN]]
      /\ \A p \in Pages : /\ page'[p].count = page[p].count - One(pinned, p)
                          /\ page'[p].shared = page[p].shared
  BY <1>1, <1>2, <1>4, DroppedCounts
<1>6. PagesCounted'
  <2>1. ASSUME NEW p \in Pages
        PROVE  page'[p].count = One(Range(obj.table), p) + One(Range(ptes), p) + One({}, p)
    <3>1. page[p].count = One(Range(obj.table), p) + One(Range(ptes), p) + One(pinned, p)
      BY DEF Inv, PagesCounted
    <3>2. One({}, p) = 0
      BY DEF One
    <3>. QED
      BY <1>3, <1>5, <3>1, <3>2
  <2>. QED
    BY <1>1, <2>1 DEF PagesCounted
<1>7. \A i \in DOMAIN ptes' : (\E w \in vmas : i \in w[1] .. w[2]) /\ ptes'[i] = obj.table[i]
  BY <1>1 DEF Inv, TouchedSound
<1>. QED
  BY <1>1, <1>5, <1>6, <1>7, HolderStep

LEMMA SplitStep ==
  ASSUME Inv, Split
  PROVE  Inv'
<1>1. PICK v \in vmas : \E m \in v[1] .. v[2] - 1 :
        /\ vmas' = (vmas \ {v}) \cup {<<v[1], m>>, <<m + 1, v[2]>>}
        /\ obj' = [obj EXCEPT !.refs = @ + 1]
        /\ UNCHANGED <<fd, ptes, pinned, page, failed>>
  BY DEF Split
<1>2. PICK m \in v[1] .. v[2] - 1 :
        /\ vmas' = (vmas \ {v}) \cup {<<v[1], m>>, <<m + 1, v[2]>>}
        /\ obj' = [obj EXCEPT !.refs = @ + 1]
        /\ UNCHANGED <<fd, ptes, pinned, page, failed>>
  BY <1>1
<1>3. /\ v \in (1 .. MaxPages) \X (1 .. MaxPages)
      /\ v[1] \in 1 .. MaxPages /\ v[2] \in 1 .. MaxPages
      /\ v[1] <= v[2] /\ v[2] <= Len(obj.table) /\ Len(obj.table) \in Nat
      /\ MaxPages \in Nat
      /\ obj \in [refs : Nat, hasTable : BOOLEAN, npages : 0 .. MaxPages, table : Seq(Pages)]
  BY MaxPagesAssumption DEF Inv, TypeOK, MappingsSound
<1>0. m \in 1 .. MaxPages /\ m + 1 \in 1 .. MaxPages /\ v[1] <= m /\ m + 1 <= v[2]
  BY <1>3
<1>4. PICK a : a = <<v[1], m>> /\ a[1] = v[1] /\ a[2] = m
               /\ a \in (1 .. MaxPages) \X (1 .. MaxPages)
  <2>1. PICK a : a = <<v[1], m>>
    OBVIOUS
  <2>. QED
    BY <1>0, <1>3, <2>1
<1>5. PICK b : b = <<m + 1, v[2]>> /\ b[1] = m + 1 /\ b[2] = v[2]
               /\ b \in (1 .. MaxPages) \X (1 .. MaxPages)
  <2>1. PICK b : b = <<m + 1, v[2]>>
    OBVIOUS
  <2>. QED
    BY <1>0, <1>3, <2>1
<1>6. vmas' = ((vmas \ {v}) \cup {a}) \cup {b}
  BY <1>2, <1>4, <1>5
<1>7. \A w \in vmas : /\ w[1] \in 1 .. MaxPages /\ w[2] \in 1 .. MaxPages
                      /\ w[1] <= w[2] /\ w[2] <= Len(obj.table)
                      /\ w # v => w[2] < v[1] \/ v[2] < w[1]
  BY DEF Inv, TypeOK, MappingsSound
<1>8. a # b /\ a \notin vmas \ {v} /\ b \notin vmas \ {v}
  <2>1. a[2] < b[1] /\ a[1] <= a[2] /\ b[1] <= b[2] /\ v[1] = a[1] /\ v[2] = b[2]
    BY <1>0, <1>3, <1>4, <1>5
  <2>2. a # b
    BY <1>0, <1>3, <1>4, <1>5, <2>1
  <2>3. ASSUME a \in vmas \ {v} PROVE FALSE
    BY <1>3, <1>4, <1>7, <2>3
  <2>4. ASSUME b \in vmas \ {v} PROVE FALSE
    BY <1>3, <1>5, <1>7, <2>4
  <2>. QED
    BY <2>2, <2>3, <2>4
<1>9. /\ obj'.refs = obj.refs + 1 /\ obj'.table = obj.table /\ obj'.npages = obj.npages
      /\ obj'.hasTable = obj.hasTable
      /\ obj' \in [refs : Nat, hasTable : BOOLEAN, npages : 0 .. MaxPages, table : Seq(Pages)]
  <2>1. obj' = [refs |-> obj.refs + 1, hasTable |-> obj.hasTable, npages |-> obj.npages,
                table |-> obj.table]
    BY <1>2, <1>3
  <2>. QED
    BY <1>3, <2>1
<1>10. TypeOK'
  <2>1. vmas' \subseteq (1 .. MaxPages) \X (1 .. MaxPages)
    BY <1>4, <1>5, <1>6 DEF Inv, TypeOK
  <2>. QED
    BY <1>2, <1>9, <2>1 DEF Inv, TypeOK
<1>11. RefsCounted'
  <2>1. IsFiniteSet(vmas) /\ Cardinality(vmas) \in Nat
    BY VmasFinite DEF Inv, TypeOK
  <2>2. /\ IsFiniteSet(vmas \ {v}) /\ Cardinality(vmas \ {v}) = Cardinality(vmas) - 1
    BY <2>1, FS_RemoveElement
  <2>3. /\ IsFiniteSet((vmas \ {v}) \cup {a})
        /\ Cardinality((vmas \ {v}) \cup {a}) = Cardinality(vmas) - 1 + 1
    BY <1>8, <2>2, FS_AddElement
  <2>4. b \notin (vmas \ {v}) \cup {a}
    BY <1>8
  <2>5. Cardinality(((vmas \ {v}) \cup {a}) \cup {b}) = Cardinality(vmas) - 1 + 1 + 1
    BY <2>3, <2>4, FS_AddElement
  <2>6. Cardinality(vmas') = Cardinality(vmas) + 1
    BY <1>6, <2>1, <2>5
  <2>7. obj.refs = Cardinality(vmas) + 1 /\ vmas' # {}
    BY <1>6, <2>1 DEF Inv, RefsCounted
  <2>. QED
    BY <1>9, <2>1, <2>6, <2>7 DEF RefsCounted
<1>12. TableSound'
  BY <1>2, <1>6, <1>9 DEF Inv, TableSound
<1>13. MappingsSound'
  <2>1. \A w \in vmas' : w[1] <= w[2] /\ w[2] <= Len(obj.table)
    <3>1. a[1] <= a[2] /\ a[2] <= Len(obj.table) /\ b[1] <= b[2] /\ b[2] <= Len(obj.table)
      BY <1>0, <1>3, <1>4, <1>5
    <3>. QED
      BY <1>6, <1>7, <3>1
  <2>2. \A w \in vmas \ {v} : /\ w[2] < a[1] \/ a[2] < w[1]
                              /\ w[2] < b[1] \/ b[2] < w[1]
    <3>1. ASSUME NEW w \in vmas \ {v}
          PROVE  /\ w[2] < a[1] \/ a[2] < w[1]
                 /\ w[2] < b[1] \/ b[2] < w[1]
      <4>1. w[1] \in Nat /\ w[2] \in Nat /\ (w[2] < v[1] \/ v[2] < w[1])
        BY <1>7
      <4>2. PICK w1 \in Nat, w2 \in Nat : w1 = w[1] /\ w2 = w[2]
        BY <4>1
      <4>3. PICK v1 \in Nat, v2 \in Nat : v1 = v[1] /\ v2 = v[2]
        BY <1>3
      <4>4. w2 < v1 \/ v2 < w1
        BY <4>1, <4>2, <4>3
      <4>5. m \in Nat /\ v1 <= m /\ m + 1 <= v2
        BY <1>0, <4>3
      <4>6. /\ w2 < v1 \/ m < w1
            /\ w2 < m + 1 \/ v2 < w1
        BY <4>4, <4>5
      <4>. QED
        BY <1>4, <1>5, <4>2, <4>3, <4>6
    <3>. QED
      BY <3>1
  <2>3. a[2] < b[1]
    BY <1>0, <1>3, <1>4, <1>5
  <2>4. \A w, x \in vmas : w # x => w[2] < x[1] \/ x[2] < w[1]
    BY DEF Inv, MappingsSound
  <2>5. \A w, x \in vmas' : w # x => w[2] < x[1] \/ x[2] < w[1]
    BY <1>6, <2>2, <2>3, <2>4
  <2>. QED
    BY <1>9, <2>1, <2>5 DEF MappingsSound
<1>14. TouchedSound'
  <2>1. ASSUME NEW i \in DOMAIN ptes
        PROVE  \E w \in vmas' : i \in w[1] .. w[2]
    <3>1. PICK w \in vmas : i \in w[1] .. w[2]
      BY DEF Inv, TouchedSound
    <3>2. CASE w # v
      BY <1>6, <3>1, <3>2
    <3>3. CASE w = v
      <4>1. i \in a[1] .. a[2] \/ i \in b[1] .. b[2]
        BY <1>0, <1>3, <1>4, <1>5, <3>1, <3>3
      <4>. QED
        BY <1>6, <4>1
    <3>. QED
      BY <3>2, <3>3
  <2>. QED
    BY <1>2, <1>9, <2>1 DEF Inv, TouchedSound
<1>15. PagesCounted' /\ SharedHeld'
  BY <1>2, <1>9 DEF Inv, PagesCounted, SharedHeld
<1>. QED
  BY <1>10, <1>11, <1>12, <1>13, <1>14, <1>15 DEF Inv

LEMMA CloseStep ==
  ASSUME Inv, Close
  PROVE  Inv'
<1>1. /\ fd /\ fd' = FALSE /\ UNCHANGED <<vmas, ptes, pinned>>
      /\ IF vmas = {} THEN Put(1, page) ELSE UNCHANGED <<obj, page, failed>>
  BY DEF Close
<1>2. CASE vmas = {}
  <2>1. Put(1, page)
    BY <1>1, <1>2
  <2>2. obj.refs = 1 + Cardinality(vmas') + (IF fd' \/ vmas' # {} THEN 1 ELSE 0)
    BY <1>1, <1>2, FS_EmptySet DEF Inv, RefsCounted
  <2>3. /\ page \in [Pages -> [count : Nat, shared : BOOLEAN]]
        /\ \A p \in Pages : page[p].count = One(Range(obj.table), p) + One(Range(ptes'), p)
                                            + One(pinned, p)
    BY <1>1 DEF Inv, TypeOK, PagesCounted
  <2>4. \A i \in DOMAIN ptes' : \E v \in vmas' : i \in v[1] .. v[2]
    BY <1>1 DEF Inv, TouchedSound
  <2>. QED
    BY <1>1, <2>1, <2>2, <2>3, <2>4, PutStep
<1>3. CASE vmas # {}
  <2>1. UNCHANGED <<obj, page, failed>>
    BY <1>1, <1>3
  <2>2. TypeOK' /\ PagesCounted' /\ SharedHeld'
    BY <1>1, <2>1 DEF Inv, TypeOK, PagesCounted, SharedHeld
  <2>3. RefsCounted' /\ TableSound'
    BY <1>1, <1>3, <2>1 DEF Inv, RefsCounted, TableSound
  <2>4. MappingsSound' /\ TouchedSound'
    BY <1>1, <2>1 DEF Inv, MappingsSound, TouchedSound
  <2>. QED
    BY <2>2, <2>3, <2>4 DEF Inv
<1>. QED
  BY <1>2, <1>3

LEMMA MunmapStep ==
  ASSUME Inv, Munmap
  PROVE  Inv'
<1>1. PICK v \in vmas :
        /\ vmas' = vmas \ {v}
        /\ ptes' = [i \in DOMAIN ptes \ Touched(v) |-> ptes[i]]
        /\ Put(IF ~ fd /\ vmas' = {} THEN 2 ELSE 1,
               Dropped(page, {ptes[i] : i \in Touched(v)}))
        /\ UNCHANGED <<fd, pinned>>
  BY DEF Munmap
<1>2. PICK S : S = {ptes[i] : i \in Touched(v)}
  OBVIOUS
<1>3. PICK pg : pg = Dropped(page, S)
  OBVIOUS
<1>4. PICK n \in Nat : n = (IF ~ fd /\ vmas' = {} THEN 2 ELSE 1)
  OBVIOUS
<1>5. Put(n, pg)
  BY <1>1, <1>2, <1>3, <1>4
<1>6. page \in [Pages -> [count : Nat, shared : BOOLEAN]]
  BY DEF Inv, TypeOK
<1>7. \A p \in Pages : \A T : One(T, p) \in Nat
  BY DEF One
<1>8. \A p \in Pages : p \in Range(ptes') <=> p \in Range(ptes) /\ p \notin S
  <2>1. \A i, j \in DOMAIN ptes : ptes[i] = ptes[j] => i = j
    BY DEF Inv, TableSound, TouchedSound, IsInjective
  <2>2. Touched(v) \subseteq DOMAIN ptes
    BY DEF Touched
  <2>3. \A p : p \in Range(ptes') <=> \E i \in DOMAIN ptes \ Touched(v) : p = ptes[i]
    BY <1>1 DEF Range
  <2>. QED
    BY <1>2, <2>1, <2>2, <2>3 DEF Range
<1>9. \A p \in Pages : p \in S => p \in Range(ptes)
  BY <1>2 DEF Range, Touched
<1>10. \A p \in Pages : page[p].count = One(Range(obj.table), p) + One(Range(ptes), p)
                                        + One(pinned, p)
  BY DEF Inv, PagesCounted
<1>11. \A p \in Pages : p \in S => page[p].count > 0
  <2>1. ASSUME NEW p \in Pages, p \in S
        PROVE  page[p].count > 0
    <3>1. One(Range(ptes), p) = 1
      BY <1>9, <2>1 DEF One
    <3>. QED
      BY <1>7, <1>10, <3>1
  <2>. QED
    BY <2>1
<1>12. /\ pg \in [Pages -> [count : Nat, shared : BOOLEAN]]
       /\ \A p \in Pages : /\ pg[p].count = page[p].count - One(S, p)
                           /\ pg[p].shared = page[p].shared
  BY <1>3, <1>6, <1>11, DroppedCounts
<1>13. \A p \in Pages : pg[p].count = One(Range(obj.table), p) + One(Range(ptes'), p)
                                      + One(pinned, p)
  <2>1. ASSUME NEW p \in Pages
        PROVE  pg[p].count = One(Range(obj.table), p) + One(Range(ptes'), p) + One(pinned, p)
    <3>1. One(Range(ptes'), p) = One(Range(ptes), p) - One(S, p)
      BY <1>8, <1>9 DEF One
    <3>. QED
      BY <1>7, <1>10, <1>12, <3>1
  <2>. QED
    BY <2>1
<1>14. \A i \in DOMAIN ptes' :
         /\ i \in DOMAIN ptes /\ ptes'[i] = ptes[i]
         /\ \E w \in vmas' : i \in w[1] .. w[2]
  BY <1>1 DEF Inv, TouchedSound, Touched
<1>15. obj.refs = n + Cardinality(vmas') + (IF fd' \/ vmas' # {} THEN 1 ELSE 0)
  <2>1. IsFiniteSet(vmas) /\ Cardinality(vmas) \in Nat
    BY VmasFinite DEF Inv, TypeOK
  <2>2. Cardinality(vmas') = Cardinality(vmas) - 1
    BY <1>1, <2>1, FS_RemoveElement
  <2>3. obj.refs = Cardinality(vmas) + 1
    BY <2>1 DEF Inv, RefsCounted
  <2>4. fd' = fd
    BY <1>1
  <2>. QED
    BY <1>4, <2>1, <2>2, <2>3, <2>4
<1>16. fd' \in BOOLEAN /\ vmas' \subseteq vmas /\ pinned' = pinned /\ vmas # {}
  BY <1>1 DEF Inv, TypeOK
<1>. QED
  BY <1>5, <1>12, <1>13, <1>14, <1>15, <1>16, PutStep

LEMMA MmapStep ==
  ASSUME Inv, Mmap
  PROVE  Inv'
<1>1. PICK n \in 1 .. MaxPages :
        \E t \in UNION {[1 .. m -> Pages] : m \in 0 .. n} :
          \E shared \in 0 .. n :
            /\ fd /\ ~ obj.hasTable
            /\ AllocPages(n, t, shared)
            /\ vmas' = IF shared = n THEN {<<1, n>>} ELSE {}
            /\ UNCHANGED <<fd, ptes, pinned, failed>>
  BY DEF Mmap
<1>2. PICK t \in UNION {[1 .. m -> Pages] : m \in 0 .. n}, shared \in 0 .. n :
        /\ fd /\ ~ obj.hasTable
        /\ AllocPages(n, t, shared)
        /\ vmas' = IF shared = n THEN {<<1, n>>} ELSE {}
        /\ UNCHANGED <<fd, ptes, pinned, failed>>
  BY <1>1
<1>3. PICK m \in 0 .. n : t \in [1 .. m -> Pages]
  OBVIOUS
<1>4. n \in Nat /\ n <= MaxPages /\ MaxPages \in Nat /\ m \in Nat /\ m <= n
      /\ t \in Seq(Pages) /\ Len(t) = m /\ DOMAIN t = 1 .. m
  BY <1>3, MaxPagesAssumption
<1>5. /\ shared \in {m, m - 1} /\ IsInjective(t) /\ Range(t) \subseteq Free
      /\ page' = [p \in Pages |->
                   IF p \notin Range(t) THEN page[p]
                   ELSE [count |-> 1,
                         shared |-> page[p].shared \/ p \in {t[i] : i \in 1 .. shared}]]
      /\ obj' = [obj EXCEPT !.hasTable = TRUE, !.npages = n, !.table = t,
                            !.refs = IF shared = n THEN @ + 1 ELSE @]
  BY <1>2, <1>4 DEF AllocPages, Obtained
<1>6. /\ obj \in [refs : Nat, hasTable : BOOLEAN, npages : 0 .. MaxPages, table : Seq(Pages)]
      /\ obj.table = <<>> /\ vmas = {} /\ page \in [Pages -> [count : Nat, shared : BOOLEAN]]
      /\ obj.refs = 1
  <2>1. vmas = {} /\ obj.table = <<>>
    BY <1>2 DEF Inv, TableSound
  <2>2. obj.refs = 1
    BY <1>2, <2>1, FS_EmptySet DEF Inv, RefsCounted
  <2>. QED
    BY <2>1, <2>2 DEF Inv, TypeOK
<1>7. /\ obj'.refs = (IF shared = n THEN 2 ELSE 1) /\ obj'.table = t /\ obj'.npages = n
      /\ obj'.hasTable = TRUE
      /\ obj' \in [refs : Nat, hasTable : BOOLEAN, npages : 0 .. MaxPages, table : Seq(Pages)]
  <2>1. obj' = [refs |-> IF shared = n THEN obj.refs + 1 ELSE obj.refs, hasTable |-> TRUE,
                npages |-> n, table |-> t]
    BY <1>5, <1>6
  <2>2. n \in 0 .. MaxPages
    BY <1>4
  <2>. QED
    BY <1>4, <1>6, <2>1, <2>2
<1>8. DOMAIN ptes = {} /\ Range(ptes) = {} /\ Range(obj.table) = {}
  <2>1. \A i \in DOMAIN ptes : FALSE
    BY <1>6 DEF Inv, TouchedSound
  <2>2. DOMAIN ptes = {}
    BY <2>1
  <2>3. DOMAIN obj.table = {}
    BY <1>6
  <2>. QED
    BY <2>2, <2>3 DEF Range
<1>9. Range(t) \subseteq Pages /\ \A p \in Range(t) : page[p].count = 0
  BY <1>5 DEF Free
<1>10. \A p \in Pages :
         /\ page'[p] \in [count : Nat, shared : BOOLEAN]
         /\ page'[p].count = IF p \in Range(t) THEN 1 ELSE page[p].count
         /\ p \notin Range(t) => page'[p].shared = page[p].shared
  <2>1. ASSUME NEW p \in Pages, p \in Range(t)
        PROVE  page'[p] \in [count : Nat, shared : BOOLEAN] /\ page'[p].count = 1
    <3>1. PICK b \in BOOLEAN : b = (page[p].shared \/ p \in {t[i] : i \in 1 .. shared})
      OBVIOUS
    <3>2. page'[p] = [count |-> 1, shared |-> b]
      BY <1>5, <2>1, <3>1
    <3>. QED
      BY <3>2
  <2>2. ASSUME NEW p \in Pages, p \notin Range(t)
        PROVE  page'[p] = page[p]
    BY <1>5, <2>2
  <2>. QED
    BY <1>6, <2>1, <2>2
<1>11. page' \in [Pages -> [count : Nat, shared : BOOLEAN]]
  BY <1>5, <1>10
<1>12. TypeOK'
  <2>1. vmas' \subseteq (1 .. MaxPages) \X (1 .. MaxPages)
    <3>1. <<1, n>> \in (1 .. MaxPages) \X (1 .. MaxPages)
      BY <1>4
    <3>. QED
      BY <1>2, <3>1
  <2>. QED
    BY <1>2, <1>7, <1>11, <2>1 DEF Inv, TypeOK
<1>13. PagesCounted'
  <2>1. \A p \in Pages : page[p].count = One(pinned, p)
    BY <1>8 DEF Inv, PagesCounted, One
  <2>2. \A p \in Range(t) : p \notin pinned
    BY <1>9, <2>1 DEF One
  <2>3. \A p \in Pages : page'[p].count = One(Range(t), p) + One(Range(ptes), p) + One(pinned, p)
    BY <1>8, <1>10, <2>1, <2>2 DEF One
  <2>. QED
    BY <1>2, <1>7, <2>3 DEF PagesCounted
<1>14. RefsCounted'
  <2>1. Cardinality(vmas') = IF shared = n THEN 1 ELSE 0
    BY <1>2, FS_Singleton, FS_EmptySet
  <2>. QED
    BY <1>2, <1>7, <2>1 DEF RefsCounted
<1>15. TableSound'
  BY <1>2, <1>4, <1>5, <1>7 DEF TableSound
<1>16. MappingsSound'
  <2>1. shared = n => Len(t) = n
    BY <1>4, <1>5
  <2>2. ASSUME NEW v \in vmas'
        PROVE  v = <<1, n>> /\ v[1] = 1 /\ v[2] = n /\ shared = n
    BY <1>2
  <2>. QED
    BY <1>4, <1>7, <2>1, <2>2 DEF MappingsSound
<1>17. TouchedSound' /\ SharedHeld'
  <2>1. TouchedSound'
    BY <1>2, <1>8 DEF TouchedSound
  <2>2. SharedHeld'
    BY <1>2, <1>7, <1>8, <1>10 DEF Inv, SharedHeld
  <2>. QED
    BY <2>1, <2>2
<1>. QED
  BY <1>12, <1>13, <1>14, <1>15, <1>16, <1>17 DEF Inv

LEMMA StepInv == Inv /\ [Next]_vars => Inv'
<1> SUFFICES ASSUME Inv, [Next]_vars PROVE Inv'
  OBVIOUS
<1>1. CASE UNCHANGED vars
  BY <1>1 DEF vars, Inv, TypeOK, PagesCounted, RefsCounted, TableSound, MappingsSound,
              TouchedSound, SharedHeld
<1>. QED
  BY <1>1, OpenStep, MmapStep, SplitStep, FaultStep, MunmapStep, CloseStep, PinStep, UnpinStep
     DEF Next

(* In every reachable state of the device the pages are counted by their   *)
(* holders, mappings are disjoint parts of a table that has each page      *)
(* once, and shared pages are in that table.                               *)
THEOREM Invariant == Spec => []Inv
  BY InitInv, StepInv, PTL DEF Spec

(* Every variable keeps its type; in particular no count gets below zero.  *)
THEOREM TypeCorrect == Spec => []TypeOK
<1>1. Inv => TypeOK
  BY DEF Inv
<1>. QED
  BY <1>1, Invariant, PTL

(* In whatever order mappings are split and removed, pages registered and  *)
(* the descriptor closed: object and pages are counted once per holder, so *)
(* nothing that is mapped or registered is free.                           *)
THEOREM CountsStayTrue == Spec => []CountsAreTrue
  BY InvCounts, Invariant, PTL

(* When all holders are gone, all pages are free, and private unless their *)
(* conversion failed.                                                      *)
THEOREM EverythingReturned == Spec => []AllReturned
  BY InvReturns, Invariant, PTL
=============================================================================
