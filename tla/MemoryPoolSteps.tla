------------------------- MODULE MemoryPoolSteps --------------------------
(***************************************************************************)
(* The inductive invariant of MemoryPool, and what the loops of allocate() *)
(* and deallocate() do to it, for any number of threads, pages and pools.  *)
(***************************************************************************)
EXTENDS MemoryPoolProofs

USE ThreadAssumption, PoolAssumption, CounterAssumption, PointerAssumption

-----------------------------------------------------------------------------
(* The inductive invariant.  NoDoubleAllocation alone is not inductive: a   *)
(* CAS gives out the head of a list, so the lists must hold free pages      *)
(* only, and that in turn needs the links that a thread has read to be      *)
(* still the current ones when its CAS succeeds.                            *)
PlacedAt(t) ==
  /\ Owned(t) \subseteq made
  /\ pc[t] \in {"next", "cas"} => page[t] \in Free /\ PoolOf[page[t]] = pool_idx[t]
  /\ pc[t] = "cas" => link[t] = next[page[t]]
  /\ pc[t] \in {"dload", "dstore", "dcas"} => pool_idx[t] = PoolOf[page[t]]
  /\ pc[t] = "dcas" => link[t] = next[page[t]]
Placed ==
  /\ phase = "ctor" => \A t \in Thread : pc[t] = "idle" /\ held[t] = {}
  /\ \A t \in Thread : PlacedAt(t)

PageInv == TypeOK /\ Placed /\ NoDoubleAllocation /\ FreeListsBy(Nat)

(* The invariant holds before the constructor has made a page.             *)
LEMMA InitPage == Init => PageInv
<1> SUFFICES ASSUME Init PROVE PageInv
  OBVIOUS
<1>1. TypeOK
  BY InitType
<1>2. Free = {} /\ \A t \in Thread : Owned(t) = {} /\ InFlight(t) = {}
  BY DEF Init, Free, Owned, InFlight
<1>3. Placed
  BY <1>2 DEF Placed, PlacedAt, Init
<1>4. NoDoubleAllocation
  BY <1>2 DEF NoDoubleAllocation
<1>5. FreeListsBy(Nat)
  <2>1. Lists(local_pools, next, Free, [q \in Page |-> 0])
    BY <1>2 DEF Lists, Init
  <2> QED
    BY <2>1 DEF FreeListsBy
<1> QED
  BY <1>1, <1>3, <1>4, <1>5 DEF PageInv

(* A page is free when it exists and nobody has it.                        *)
LEMMA FreeMembers ==
  /\ \A q : q \in Free <=> q \in made /\ \A u \in Thread : q \notin Owned(u)
  /\ \A q : q \in Free' <=> q \in made' /\ \A u \in Thread : q \notin Owned(u)'
BY DEF Free

(* The types of the registers and the lists, and the parts of PageInv.      *)
LEMMA Fields ==
  ASSUME PageInv
  PROVE  /\ pc \in [Thread -> PC] /\ held \in [Thread -> SUBSET Page]
         /\ page \in [Thread -> Pointer] /\ link \in [Thread -> Pointer]
         /\ pool_idx \in [Thread -> Pools] /\ next \in [Page -> Pointer]
         /\ local_pools \in [Pools -> Pointer] /\ made \in SUBSET Page
         /\ \A t \in Thread :
              pc[t] \in {"cas", "dload", "dstore", "dcas"} => page[t] \in Page
BY DEF PageInv, TypeOK

(* No page has two owners and every thread is placed.                      *)
LEMMA Parts == ASSUME PageInv
               PROVE  NoDoubleAllocation /\ \A t \in Thread : PlacedAt(t)
BY DEF PageInv, Placed

(* A thread whose registers a step leaves alone is placed as before, when   *)
(* the page it wants to pop stays free and its link stays.                 *)
LEMMA StillPlaced ==
  ASSUME NEW u \in Thread, PlacedAt(u), Owned(u)' \subseteq made',
         pc'[u] = pc[u], page'[u] = page[u],
         pool_idx'[u] = pool_idx[u], link'[u] = link[u],
         pc[u] \in {"next", "cas"} => page[u] \in Free',
         pc[u] \in {"cas", "dcas"} => next'[page[u]] = next[page[u]]
  PROVE  PlacedAt(u)'
BY DEF PlacedAt

(* A step that moves no page, no head and no link of a free page keeps the  *)
(* free pages and the lists.                                               *)
LEMMA Quiet ==
  ASSUME PageInv, TypeOK',
         made' = made, local_pools' = local_pools,
         \A u \in Thread : Owned(u)' = Owned(u),
         \A u \in Thread : InFlight(u)' \cap held'[u] = {},
         \A q \in Free : next'[q] = next[q]
  PROVE  Free' = Free /\ NoDoubleAllocation' /\ FreeListsBy(Nat)'
<1>1. Free' = Free
  BY DEF Free
<1>2. NoDoubleAllocation'
  BY DEF NoDoubleAllocation, PageInv
<1>3. FreeListsBy(Nat)'
  <2>1. PICK r \in [Page -> Nat] : Lists(local_pools, next, Free, r)
    BY DEF PageInv, FreeListsBy
  <2>2. Free \in SUBSET Page
    BY DEF PageInv, TypeOK, Free
  <2>3. Lists(local_pools', next', Free', r)
    BY <1>1, <2>1, <2>2, ListsFrame
  <2> QED
    BY <2>3 DEF FreeListsBy
<1> QED
  BY <1>1, <1>2, <1>3

(* Pops, scans and pushes other than the two successful CASes move no page. *)
LEMMA QuietSteps ==
  ASSUME PageInv, TypeOK', NEW t \in Thread,
         \/ Allocate(t) \/ LoadHead(t) \/ LoadNext(t)
         \/ PopCasFail(t) \/ DecRemain(t) \/ Scan(t)
         \/ LoadExpected(t) \/ StoreNext(t) \/ PushCasFail(t) \/ IncRemain(t)
  PROVE  PageInv' /\ Free' = Free /\ \A u \in Thread : Owned(u)' = Owned(u)
<1> USE DEF Goto, shared, owner, locals
<1> DEFINE Same(u) == /\ pc'[u] = pc[u] /\ held'[u] = held[u]
                      /\ page'[u] = page[u] /\ link'[u] = link[u]
                      /\ pool_idx'[u] = pool_idx[u]
           Others == \A u \in Thread : u # t => Same(u)
           Mine == /\ Owned(t)' = Owned(t)
                   /\ InFlight(t)' \cap held'[t] = {}
<1>1. /\ pc \in [Thread -> PC] /\ held \in [Thread -> SUBSET Page]
      /\ page \in [Thread -> Pointer] /\ link \in [Thread -> Pointer]
      /\ pool_idx \in [Thread -> Pools] /\ next \in [Page -> Pointer]
      /\ pc[t] \in {"cas", "dload", "dstore", "dcas"} => page[t] \in Page
  BY DEF PageInv, TypeOK
<1>2. InFlight(t) \cap held[t] = {}
  BY DEF PageInv, NoDoubleAllocation
\* Only t's registers move, and only StoreNext writes a page.
<1>3. Others
  <2>1. CASE Allocate(t) \/ LoadHead(t) \/ LoadNext(t)
    BY <1>1, <2>1 DEF Allocate, AllocateFrom, LoadHead, LoadNext
  <2>2. CASE PopCasFail(t) \/ DecRemain(t)
    BY <1>1, <2>2 DEF PopCasFail, PopRetry, DecRemain
  <2>3. CASE Scan(t)
    BY <1>1, <2>3 DEF Scan, ScanCompare, ScanStore, ScanDone
  <2>4. CASE LoadExpected(t) \/ StoreNext(t)
    BY <1>1, <2>4 DEF LoadExpected, StoreNext, StoreLink
  <2>5. CASE PushCasFail(t) \/ IncRemain(t)
    BY <1>1, <2>5 DEF PushCasFail, IncRemain, AddRemain
  <2> QED
    BY <2>1, <2>2, <2>3, <2>4, <2>5
<1>4. /\ made' = made /\ local_pools' = local_pools
      /\ phase' = phase \/ phase' = "aborted"
      /\ phase = "live"
      /\ next' = next \/ StoreNext(t)
  BY DEF Allocate, AllocateFrom, LoadHead, LoadNext, PopCasFail, PopRetry,
         DecRemain, Scan, ScanCompare, ScanStore, ScanDone,
         LoadExpected, StoreNext, StoreLink, PushCasFail, IncRemain, AddRemain
<1>5. Mine
  <2>1. CASE DecRemain(t)
    BY <1>1, <1>2, <2>1 DEF DecRemain, Owned, InFlight
  <2>2. ASSUME held' = held, InFlight(t)' = InFlight(t) PROVE Mine
    BY <1>2, <2>2 DEF Owned
  <2>3. CASE Allocate(t) \/ LoadHead(t) \/ LoadNext(t) \/ PopCasFail(t)
    BY <1>1, <2>2, <2>3, Zenon
       DEF Allocate, AllocateFrom, LoadHead, LoadNext, PopCasFail,
           PopRetry, InFlight
  <2>4. CASE Scan(t)
    BY <1>1, <2>2, <2>4 DEF Scan, ScanCompare, ScanStore, ScanDone, InFlight
  <2>5. CASE LoadExpected(t) \/ StoreNext(t) \/ PushCasFail(t) \/ IncRemain(t)
    BY <1>1, <2>2, <2>5, Zenon
       DEF LoadExpected, StoreNext, StoreLink, PushCasFail,
           IncRemain, AddRemain, InFlight
  <2> QED
    BY <2>1, <2>3, <2>4, <2>5
<1>6. \A u \in Thread : Owned(u)' = Owned(u) /\ InFlight(u)' \cap held'[u] = {}
  <2>1. ASSUME NEW u \in Thread, u # t
        PROVE  Owned(u)' = Owned(u) /\ InFlight(u)' \cap held'[u] = {}
    BY <1>3, <2>1 DEF Owned, InFlight, PageInv, NoDoubleAllocation
  <2> QED
    BY <1>5, <2>1
<1>7. StoreNext(t) => /\ page[t] \in Owned(t) /\ page[t] \in Page /\ page[t] # Null
                      /\ next' = [next EXCEPT ![page[t]] = link[t]]
  BY <1>1 DEF StoreNext, StoreLink, Owned, InFlight
<1>8. \A q \in Free : next'[q] = next[q]
  <2>1. CASE next' = next
    BY <2>1
  <2>2. CASE StoreNext(t)
    <3>1. page[t] \notin Free
      BY <1>7, <2>2, FreeMembers
    <3>2. next \in [Page -> Pointer] /\ Free \subseteq Page
      BY <1>1, FreeMembers DEF TypeOK, PageInv
    <3>3. next' = [next EXCEPT ![page[t]] = link[t]]
      BY <1>7, <2>2
    <3> QED
      BY <3>1, <3>2, <3>3
  <2> QED
    BY <1>4, <2>1, <2>2
<1>9. Free' = Free /\ NoDoubleAllocation' /\ FreeListsBy(Nat)'
  BY <1>4, <1>6, <1>8, Quiet
<1>10. ASSUME NEW u \in Thread, u # t PROVE PlacedAt(u)'
  <2>1. PlacedAt(u) /\ Same(u) /\ Owned(u)' = Owned(u)
    BY <1>3, <1>6, <1>10 DEF PageInv, Placed
  <2>2. pc[u] = "cas" => next'[page[u]] = next[page[u]]
    BY <1>8, <2>1 DEF PlacedAt
  <2>3. pc[u] = "dcas" => next'[page[u]] = next[page[u]]
    <3>1. pc[u] = "dcas" => page[u] \in Owned(u) /\ page[u] \in Page
      BY DEF PageInv, TypeOK, Owned, InFlight
    <3>2. Owned(t) \cap Owned(u) = {}
      BY <1>10 DEF PageInv, NoDoubleAllocation
    <3> QED
      BY <1>1, <1>4, <1>7, <3>1, <3>2
  <2> QED
    BY <1>4, <1>9, <2>1, <2>2, <2>3 DEF PlacedAt
<1>11. PlacedAt(t)'
  <2>1. PlacedAt(t) /\ Owned(t)' = Owned(t) /\ Free' = Free /\ made' = made
    BY <1>4, <1>5, <1>9 DEF PageInv, Placed
  <2>2. CASE Allocate(t)
    BY <1>1, <2>1, <2>2 DEF Allocate, AllocateFrom, PlacedAt
  <2>3. CASE LoadHead(t)
    <3>1. local_pools[pool_idx[t]] # Null =>
            /\ local_pools[pool_idx[t]] \in Free
            /\ PoolOf[local_pools[pool_idx[t]]] = pool_idx[t]
      BY <1>1 DEF PageInv, FreeListsBy, Lists
    <3> QED
      BY <1>1, <2>1, <2>3, <3>1 DEF LoadHead, PlacedAt
  <2>4. CASE LoadNext(t)
    BY <1>1, <2>1, <2>4 DEF LoadNext, PlacedAt
  <2>5. CASE PopCasFail(t) \/ DecRemain(t)
    <3>1. pc'[t] \in {"load", "scan", "idle"}
      BY <1>1, <2>5 DEF PopCasFail, PopRetry, DecRemain
    <3> QED
      BY <2>1, <3>1 DEF PlacedAt
  <2>6. CASE Scan(t)
    BY <1>1, <2>1, <2>6 DEF Scan, ScanCompare, ScanStore, ScanDone, PlacedAt
  <2>7. CASE LoadExpected(t) \/ PushCasFail(t)
    BY <1>1, <2>1, <2>7 DEF LoadExpected, PushCasFail, PlacedAt
  <2>8. CASE StoreNext(t)
    BY <1>1, <1>7, <2>1, <2>8 DEF StoreNext, StoreLink, PlacedAt
  <2>9. CASE IncRemain(t)
    BY <1>1, <2>1, <2>9 DEF IncRemain, AddRemain, PlacedAt
  <2> QED
    BY <2>2, <2>3, <2>4, <2>5, <2>6, <2>7, <2>8, <2>9
<1>12. Placed'
  BY <1>4, <1>10, <1>11 DEF Placed
<1> QED
  BY <1>6, <1>9, <1>12 DEF PageInv

(* The successful CAS of allocate() takes the head of a list, a free page,  *)
(* and nobody else was about to pop it.                                    *)
LEMMA PopStep ==
  ASSUME PageInv, TypeOK', NoOverlappingPops, NEW t \in Thread, PopCas(t)
  PROVE  /\ PageInv' /\ Free' = Free \ {page[t]} /\ page[t] \in Free
         /\ Owned(t)' = Owned(t) \cup {page[t]}
         /\ \A u \in Thread \ {t} : Owned(u)' = Owned(u)
<1> USE DEF Goto, owner
<1> DEFINE p == page[t]
           j == pool_idx[t]
<1>1. /\ p \in Free /\ PoolOf[p] = j /\ j \in Pools /\ local_pools[j] = p
      /\ link[t] = next[p] /\ p \in Page /\ pc[t] = "cas"
  BY Fields, Parts DEF PopCas, HeadIs, PopExchange, PlacedAt
<1>2. /\ made' = made /\ next' = next /\ held' = held /\ page' = page
      /\ phase' = phase /\ pool_idx' = pool_idx
      /\ pc' = [pc EXCEPT ![t] = "dec"]
      /\ \A u \in Thread : u # t => pc'[u] = pc[u] /\ link'[u] = link[u]
      /\ pc'[t] = "dec"
      /\ local_pools' = [local_pools EXCEPT ![j] = next[local_pools[j]]]
  BY <1>1, Fields DEF PopCas, HeadIs, PopExchange
<1>3. /\ \A u \in Thread : u # t => Owned(u)' = Owned(u)
                                    /\ InFlight(u)' = InFlight(u)
      /\ Owned(t)' = Owned(t) \cup {p} /\ InFlight(t)' = {p}
      /\ InFlight(t) = {}
  BY <1>1, <1>2 DEF Owned, InFlight
<1> HIDE DEF p, j
<1>4. Free' = Free \ {p}
  <2>1. \A q : (\A u \in Thread : q \notin Owned(u)')
                <=> q # p /\ \A u \in Thread : q \notin Owned(u)
    BY <1>3
  <2>2. \A q : q \in Free' <=> q \in Free \ {p}
    BY <1>2, <2>1, FreeMembers
  <2> QED
    BY <2>2
<1>5. \A u \in Thread : p \notin Owned(u)
  BY <1>1 DEF Free
<1>6. NoDoubleAllocation'
  <2>1. ASSUME NEW u \in Thread, NEW v \in Thread, u # v
        PROVE  Owned(u)' \cap Owned(v)' = {}
    <3>1. /\ Owned(u) \cap Owned(v) = {}
          /\ p \notin Owned(u) /\ p \notin Owned(v)
      BY <1>5, <2>1, Parts DEF NoDoubleAllocation
    <3>2. /\ Owned(u)' = IF u = t THEN Owned(u) \cup {p} ELSE Owned(u)
          /\ Owned(v)' = IF v = t THEN Owned(v) \cup {p} ELSE Owned(v)
      BY <1>3
    <3> QED
      BY <2>1, <3>1, <3>2
  <2>2. ASSUME NEW u \in Thread PROVE InFlight(u)' \cap held'[u] = {}
    <3>1. p \notin held[u]
      BY <1>5 DEF Owned
    <3>2. InFlight(u) \cap held[u] = {}
      BY Parts DEF NoDoubleAllocation
    <3>3. held' = held /\ (InFlight(u)' = {p} \/ InFlight(u)' = InFlight(u))
      BY <1>2, <1>3
    <3> QED
      BY <3>1, <3>2, <3>3
  <2> QED
    BY <2>1, <2>2 DEF NoDoubleAllocation
<1>7. FreeListsBy(Nat)'
  <2>1. PICK r \in [Page -> Nat] : Lists(local_pools, next, Free, r)
    BY DEF PageInv, FreeListsBy
  <2>2. Free \in SUBSET Page /\ p # Null
    BY <1>1, Fields, PointerAssumption DEF Free
  <2>3. /\ local_pools \in [Pools -> Pointer] /\ next \in [Page -> Pointer]
        /\ local_pools[j] # Null /\ j \in Pools
    BY <1>1, <2>2, Fields
  <2>4. Lists([local_pools EXCEPT ![j] = next[local_pools[j]]], next,
              Free \ {local_pools[j]}, r)
    BY <2>1, <2>2, <2>3, ListsPop, Zenon
  <2>5. Lists(local_pools', next', Free', r)
    BY <1>1, <1>2, <1>4, <2>4
  <2> QED
    BY <2>5 DEF FreeListsBy
<1>8. Placed'
  <2>1. PlacedAt(t)'
    <3>1. Owned(t)' \subseteq made'
      BY <1>1, <1>2, <1>3, Parts DEF Free, PlacedAt
    <3> QED
      BY <1>2, <3>1 DEF PlacedAt
  <2>2. ASSUME NEW u \in Thread, u # t PROVE PlacedAt(u)'
    <3>1. pc[u] \in {"next", "cas"} => page[u] \in Free \ {p}
      <4>1. pc[u] \in {"next", "cas"} =>
              page[u] \in Free /\ PoolOf[page[u]] = pool_idx[u]
        BY Parts DEF PlacedAt
      <4>2. pc[u] \in {"next", "cas"} => pool_idx[u] # j
        BY <1>1, <2>2 DEF NoOverlappingPops, Popping, j
      <4> QED
        BY <1>1, <4>1, <4>2
    <3>2. PlacedAt(u) /\ Owned(u)' \subseteq made'
      BY <1>2, <1>3, <2>2, Parts DEF PlacedAt
    <3> QED
      BY <1>2, <1>4, <2>2, <3>1, <3>2, StillPlaced
  <2>3. phase' # "ctor"
    BY <1>2 DEF PopCas, PopExchange
  <2> QED
    BY <2>1, <2>2, <2>3 DEF Placed
<1> QED
  BY <1>1, <1>3, <1>4, <1>6, <1>7, <1>8 DEF p, PageInv

(* The successful CAS of deallocate() frees exactly the page it pushes.     *)
LEMMA PushStep ==
  ASSUME PageInv, TypeOK', NEW t \in Thread, PushCas(t)
  PROVE  /\ PageInv' /\ Free' = Free \cup {page[t]} /\ page[t] \in Owned(t)
         /\ Owned(t)' = Owned(t) \ {page[t]}
         /\ \A u \in Thread \ {t} : Owned(u)' = Owned(u)
<1> USE DEF Goto, owner
<1> DEFINE p == page[t]
           j == pool_idx[t]
<1>1. /\ p \in Page /\ j = PoolOf[p] /\ j \in Pools
      /\ next[p] = local_pools[j] /\ pc[t] = "dcas"
  BY Fields, Parts DEF PushCas, HeadIs, PushExchange, PlacedAt
<1>2. /\ made' = made /\ next' = next /\ held' = held
      /\ phase' = phase /\ pool_idx' = pool_idx
      /\ pc'[t] = "dinc"
      /\ \A u \in Thread : u # t => /\ pc'[u] = pc[u] /\ link'[u] = link[u]
                                    /\ page'[u] = page[u]
      /\ local_pools' = [local_pools EXCEPT ![PoolOf[p]] = p]
  BY <1>1, Fields DEF PushCas, HeadIs, PushExchange
<1>3. /\ \A u \in Thread : u # t => Owned(u)' = Owned(u)
                                    /\ InFlight(u)' = InFlight(u)
      /\ Owned(t)' = held[t] /\ InFlight(t)' = {}
      /\ Owned(t) = held[t] \cup {p} /\ InFlight(t) = {p}
  BY <1>1, <1>2, PointerAssumption, Zenon DEF Owned, InFlight
<1> HIDE DEF p, j
<1>4. p \notin Free /\ p \in made /\ p \notin held[t]
  BY <1>3, Parts DEF Free, PlacedAt, NoDoubleAllocation
<1>5. \A u \in Thread : u # t => p \notin Owned(u)
  BY <1>3, Parts DEF NoDoubleAllocation
<1>6. Free' = Free \cup {p}
  <2>1. \A q : (\A u \in Thread : q \notin Owned(u)')
                <=> q = p \/ \A u \in Thread : q \notin Owned(u)
    BY <1>3, <1>4, <1>5
  <2>2. \A q : q \in Free' <=> q \in Free \cup {p}
    BY <1>2, <1>4, <2>1, FreeMembers
  <2> QED
    BY <2>2
<1>7. NoDoubleAllocation'
  <2>1. \A u \in Thread : Owned(u)' \subseteq Owned(u)
    BY <1>3
  <2>2. \A u \in Thread : InFlight(u)' \subseteq InFlight(u)
    BY <1>3
  <2> QED
    BY <1>2, <2>1, <2>2, Parts DEF NoDoubleAllocation
<1>8. FreeListsBy(Nat)'
  <2>1. PICK r \in [Page -> Nat] : Lists(local_pools, next, Free, r)
    BY DEF PageInv, FreeListsBy
  <2>2. Free \in SUBSET Page
    BY Fields DEF Free
  <2>3. \E s \in [Page -> Nat] : Lists(local_pools', next', Free', s)
    BY <1>1, <1>2, <1>4, <1>6, <2>1, <2>2, Fields, ListsPush, Zenon
  <2> QED
    BY <2>3 DEF FreeListsBy
<1>9. Placed'
  <2>1. phase' = "ctor" => FALSE
    BY <1>1, <1>2 DEF PushCas, HeadIs, PushExchange
  <2>2. ASSUME NEW u \in Thread PROVE Owned(u)' \subseteq made'
    <3>1. Owned(u)' \subseteq Owned(u)
      BY <1>3
    <3>2. Owned(u) \subseteq made /\ made' = made
      BY <1>2, Parts DEF PlacedAt
    <3> QED
      BY <3>1, <3>2
  <2>3. PlacedAt(t)'
    BY <1>2, <2>2 DEF PlacedAt
  <2>4. ASSUME NEW u \in Thread, u # t PROVE PlacedAt(u)'
    <3>1. PlacedAt(u) /\ (pc[u] \in {"next", "cas"} => page[u] \in Free')
      BY <1>6, Parts DEF PlacedAt
    <3> QED
      BY <1>2, <2>2, <2>4, <3>1, StillPlaced
  <2> QED
    BY <2>1, <2>3, <2>4 DEF Placed
<1> QED
  BY <1>3, <1>4, <1>6, <1>7, <1>8, <1>9 DEF p, PageInv
=============================================================================
