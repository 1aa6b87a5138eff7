------------------------- MODULE MemoryPoolSafety -------------------------
(***************************************************************************)
(* Page safety of MemoryPool, for any number of threads, pages and pools,  *)
(* a discipline of its clients under which it holds, and the atomic page   *)
(* pool that MemoryPool implements.                                        *)
(***************************************************************************)
EXTENDS MemoryPoolSteps

USE ThreadAssumption, PoolAssumption, CounterAssumption, PointerAssumption

-----------------------------------------------------------------------------
(* Handing a page to deallocate() moves it from its holder to the caller.   *)
LEMMA DeallocateStep ==
  ASSUME PageInv, TypeOK', NEW t \in Thread, NEW u \in Thread, NEW p \in Page,
         Deallocate(t, u, p)
  PROVE  /\ PageInv' /\ Free' = Free
         /\ p \in Owned(u)
         /\ u = t => Owned(t)' = Owned(t)
         /\ u # t => /\ Owned(u)' = Owned(u) \ {p}
                     /\ Owned(t)' = Owned(t) \cup {p}
         /\ \A v \in Thread \ {t, u} : Owned(v)' = Owned(v)
<1> USE DEF Goto, owner, shared
<1>1. /\ made' = made /\ next' = next /\ local_pools' = local_pools
      /\ phase' = phase /\ phase = "live" /\ link' = link
      /\ pc[t] = "idle" /\ pc'[t] = "dload" /\ page'[t] = p
      /\ pool_idx'[t] = PoolOf[p]
      /\ \A v \in Thread : v # t => /\ pc'[v] = pc[v] /\ page'[v] = page[v]
                                    /\ pool_idx'[v] = pool_idx[v]
      /\ \A v \in Thread : v # u => held'[v] = held[v]
      /\ held'[u] = held[u] \ {p} /\ p \in held[u] /\ p # Null
  BY Fields, PointerAssumption DEF Deallocate
<1>2. p \in made /\ p \in Owned(u) /\ \A v \in Thread : v # u => p \notin Owned(v)
  BY <1>1, Parts DEF PlacedAt, NoDoubleAllocation, Owned
<1>3. p \notin InFlight(u)
  BY <1>1, Parts DEF NoDoubleAllocation
<1>4. /\ InFlight(t) = {} /\ InFlight(t)' = {p}
      /\ \A v \in Thread : v # t => InFlight(v)' = InFlight(v)
  BY <1>1, Zenon DEF InFlight
<1>5. u = t => Owned(t)' = Owned(t)
  <2>1. u = t => (held[t] \ {p}) \cup {p} = held[t] \cup {}
    <3>1. p \in held[u]
      BY <1>1
    <3> QED
      BY <3>1
  <2>2. u = t => held'[t] = held[t] \ {p}
    BY <1>1
  <2> QED
    BY <1>4, <2>1, <2>2 DEF Owned
<1>6. u # t => Owned(u)' = Owned(u) \ {p} /\ Owned(t)' = Owned(t) \cup {p}
  <2>1. u # t => held'[u] = held[u] \ {p} /\ held'[t] = held[t]
    BY <1>1
  <2>2. u # t => InFlight(u)' = InFlight(u)
    BY <1>4
  <2>3. (held[u] \ {p}) \cup InFlight(u) = (held[u] \cup InFlight(u)) \ {p}
    BY <1>3
  <2>4. held[t] \cup {p} = (held[t] \cup {}) \cup {p}
    OBVIOUS
  <2> QED
    BY <1>4, <2>1, <2>2, <2>3, <2>4 DEF Owned
<1>7. \A v \in Thread \ {t, u} : Owned(v)' = Owned(v)
  BY <1>1, <1>4 DEF Owned
<1>8. Free' = Free
  <2>1. ASSUME NEW q, q # p, NEW v \in Thread
        PROVE  q \in Owned(v)' <=> q \in Owned(v)
    BY <1>5, <1>6, <1>7, <2>1
  <2>2. p \in Owned(t)' /\ p \in Owned(u)
    BY <1>2, <1>5, <1>6
  <2>3. ASSUME NEW q PROVE q \in Free' <=> q \in Free
    <3>1. CASE q = p
      BY <2>2, <3>1, FreeMembers
    <3>2. CASE q # p
      BY <1>1, <2>1, <3>2, FreeMembers
    <3> QED
      BY <3>1, <3>2
  <2> QED
    BY <2>3, Zenon
<1>9. NoDoubleAllocation'
  <2>1. ASSUME NEW v \in Thread, NEW w \in Thread, v # w
        PROVE  Owned(v)' \cap Owned(w)' = {}
    <3>1. Owned(v) \cap Owned(w) = {}
      BY <2>1, Parts DEF NoDoubleAllocation
    <3>2. ASSUME NEW x \in Thread
          PROVE  /\ Owned(x)' \subseteq Owned(x) \cup {p}
                 /\ x # t => p \notin Owned(x)'
      BY <1>2, <1>5, <1>6, <1>7
    <3> QED
      BY <2>1, <3>1, <3>2
  <2>2. ASSUME NEW v \in Thread PROVE InFlight(v)' \cap held'[v] = {}
    <3>1. p \notin held'[t]
      BY <1>1, <1>2 DEF Owned
    <3>2. InFlight(v) \cap held[v] = {}
      BY Parts DEF NoDoubleAllocation
    <3>3. held'[v] \subseteq held[v]
      BY <1>1
    <3>4. CASE v = t
      BY <1>4, <3>1, <3>4
    <3>5. CASE v # t
      <4>1. InFlight(v)' = InFlight(v)
        BY <1>4, <3>5
      <4> QED
        BY <3>2, <3>3, <4>1
    <3> QED
      BY <3>4, <3>5
  <2> QED
    BY <2>1, <2>2 DEF NoDoubleAllocation
<1>10. FreeListsBy(Nat)'
  BY <1>1, <1>8 DEF PageInv, FreeListsBy
<1>11. Placed'
  <2>1. ASSUME NEW v \in Thread
        PROVE  PlacedAt(v)'
    <3>1. Owned(v)' \subseteq made'
      <4>1. Owned(v) \subseteq made
        BY Parts DEF PlacedAt
      <4>2. Owned(v)' \subseteq Owned(v) \cup {p}
        BY <1>5, <1>6, <1>7
      <4> QED
        BY <1>1, <1>2, <4>1, <4>2
    <3>2. CASE v = t
      BY <1>1, <3>1, <3>2 DEF PlacedAt
    <3>3. CASE v # t
      <4>1. PlacedAt(v) /\ (pc[v] \in {"next", "cas"} => page[v] \in Free')
        BY <1>8, Parts DEF PlacedAt
      <4> QED
        BY <1>1, <3>1, <3>3, <4>1, StillPlaced
    <3> QED
      BY <3>2, <3>3
  <2> QED
    BY <1>1, <2>1 DEF Placed
<1> QED
  BY <1>2, <1>5, <1>6, <1>7, <1>8, <1>9, <1>10, <1>11 DEF PageInv

(* A client that writes to a page it holds changes no list.                 *)
LEMMA ClientWriteStep ==
  ASSUME PageInv, TypeOK', NEW t \in Thread, NEW p \in Page, ClientWrite(t, p)
  PROVE  PageInv' /\ Free' = Free /\ \A u \in Thread : Owned(u)' = Owned(u)
<1> USE DEF owner, Goto
<1>1. /\ made' = made /\ local_pools' = local_pools /\ held' = held /\ pc' = pc
      /\ page' = page /\ link' = link /\ pool_idx' = pool_idx /\ phase' = phase
      /\ p \in held[t] /\ \A q \in Page : q # p => next'[q] = next[q]
  BY Fields DEF ClientWrite
<1>2. \A u \in Thread : Owned(u)' = Owned(u) /\ InFlight(u)' = InFlight(u)
  BY <1>1 DEF Owned, InFlight
<1>3. \A u \in Thread : InFlight(u)' \cap held'[u] = {}
  BY <1>1, <1>2 DEF PageInv, NoDoubleAllocation
<1>4. p \in Owned(t) /\ p \notin Free
  BY <1>1, FreeMembers DEF Owned
<1>5. \A q \in Free : next'[q] = next[q]
  BY <1>1, <1>4 DEF PageInv, Free, TypeOK
<1>6. Free' = Free /\ NoDoubleAllocation' /\ FreeListsBy(Nat)'
  BY <1>1, <1>2, <1>3, <1>5, Quiet, Zenon
<1>7. \A u \in Thread : pc[u] = "cas" => next'[page[u]] = next[page[u]]
  BY <1>5 DEF PageInv, Placed, PlacedAt
<1>8. \A u \in Thread : pc[u] = "dcas" => next'[page[u]] = next[page[u]]
  <2>1. ASSUME NEW u \in Thread, pc[u] = "dcas" PROVE page[u] # p
    <3>1. page[u] \in Page /\ InFlight(u) = {page[u]}
      <4>1. page[u] \in Page
        BY <2>1, Fields
      <4> QED
        BY <2>1, <4>1, PointerAssumption DEF InFlight
    <3> QED
      BY <1>1, <1>4, <3>1, Zenon DEF PageInv, NoDoubleAllocation, Owned
  <2> QED
    BY <1>1, <2>1 DEF PageInv, TypeOK
<1>9. Placed'
  BY <1>1, <1>2, <1>6, <1>7, <1>8 DEF PageInv, Placed, PlacedAt
<1> QED
  BY <1>2, <1>6, <1>9 DEF PageInv

(* The constructor puts one new page on the list of its pool.               *)
LEMMA CtorStep ==
  ASSUME PageInv, TypeOK', NEW p \in Page, CtorPage(p)
  PROVE  /\ PageInv' /\ Free' = Free \cup {p} /\ p \notin made
         /\ \A u \in Thread : Owned(u)' = Owned(u)
<1>1. /\ made' = made \cup {p} /\ p \notin made
      /\ held' = held /\ pc' = pc /\ page' = page
      /\ phase' = phase /\ phase = "ctor"
      /\ next' = [next EXCEPT ![p] = local_pools[PoolOf[p]]]
      /\ local_pools' = [local_pools EXCEPT ![PoolOf[p]] = p]
  BY DEF CtorPage, CtorPush, locals
<1>2. \A u \in Thread : /\ Owned(u)' = Owned(u) /\ InFlight(u)' = InFlight(u)
                        /\ pc[u] = "idle" /\ Owned(u) \subseteq made
  BY <1>1 DEF Owned, InFlight, PageInv, Placed, PlacedAt
<1>3. Free' = Free \cup {p} /\ p \notin Free
  <2>1. made' = made \cup {p} /\ \A u \in Thread : p \notin Owned(u)'
    BY <1>1, <1>2
  <2>2. ASSUME NEW q
        PROVE  (\A u \in Thread : q \notin Owned(u)')
                 <=> \A u \in Thread : q \notin Owned(u)
    BY <1>2
  <2>3. \A q : q \in Free' <=> q \in Free \cup {p}
    BY <2>1, <2>2, FreeMembers
  <2> QED
    BY <1>1, <2>3, FreeMembers
<1>4. FreeListsBy(Nat)'
  <2>1. PICK r \in [Page -> Nat] : Lists(local_pools, next, Free, r)
    BY DEF PageInv, FreeListsBy
  <2>2. /\ Free \in SUBSET Page /\ next' \in [Page -> Pointer]
        /\ local_pools \in [Pools -> Pointer]
        /\ \A q \in Free : next'[q] = next[q]
        /\ next'[p] = local_pools[PoolOf[p]]
    <3>1. Free \in SUBSET Page /\ next' \in [Page -> Pointer]
      BY Fields DEF TypeOK, Free
    <3> QED
      BY <1>1, <1>3, <3>1, Fields
  <2>3. Lists(local_pools, next', Free, r)
    BY <2>1, <2>2, ListsFrame
  <2>4. \E s \in [Page -> Nat] : Lists(local_pools', next', Free', s)
    BY <1>1, <1>3, <2>2, <2>3, ListsPush, Zenon
  <2> QED
    BY <2>4 DEF FreeListsBy
<1>5. NoDoubleAllocation'
  BY <1>1, <1>2, Parts DEF NoDoubleAllocation
<1>6. Placed'
  <2>1. ASSUME NEW u \in Thread PROVE PlacedAt(u)'
    <3>1. pc'[u] = "idle" /\ Owned(u)' \subseteq made'
      BY <1>1, <1>2
    <3> QED
      BY <3>1 DEF PlacedAt
  <2>2. pc' = pc /\ held' = held
    BY <1>1
  <2> QED
    BY <1>1, <2>1, <2>2 DEF PageInv, Placed
<1> QED
  BY <1>1, <1>2, <1>3, <1>4, <1>5, <1>6 DEF PageInv

(* The rest of the constructor and the destructor move no page.             *)
LEMMA OwnerStep ==
  ASSUME PageInv, TypeOK',
         CtorDone \/ DtorBegin \/ DtorFree \/ DtorNextPool \/ UNCHANGED vars
  PROVE  PageInv' /\ Free' = Free /\ \A u \in Thread : Owned(u)' = Owned(u)
<1>1. /\ made' = made /\ local_pools' = local_pools /\ next' = next
      /\ held' = held /\ pc' = pc /\ page' = page /\ link' = link
      /\ pool_idx' = pool_idx
      /\ phase' = "ctor" => phase = "ctor"
  BY DEF CtorDone, DtorBegin, DtorFree, DtorNextPool, DtorAdvance,
         vars, shared, locals
<1>2. \A u \in Thread : Owned(u)' = Owned(u) /\ InFlight(u)' = InFlight(u)
  BY <1>1 DEF Owned, InFlight
<1>3. Free' = Free /\ NoDoubleAllocation' /\ FreeListsBy(Nat)'
  BY <1>1, <1>2, Quiet DEF PageInv, NoDoubleAllocation
<1>4. Placed'
  <2>1. ASSUME NEW u \in Thread PROVE PlacedAt(u)'
    <3>1. /\ PlacedAt(u) /\ Owned(u)' \subseteq made'
          /\ pc[u] \in {"next", "cas"} => page[u] \in Free'
      BY <1>1, <1>2, <1>3, Parts DEF PlacedAt
    <3> QED
      BY <1>1, <3>1, StillPlaced, Zenon
  <2> QED
    BY <1>1, <2>1, Zenon DEF PageInv, Placed
<1> QED
  BY <1>2, <1>3, <1>4 DEF PageInv

(* The invariant is inductive as long as pops do not overlap.               *)
LEMMA NextPage == PageInv /\ NoOverlappingPops /\ [Next]_vars => PageInv'
<1> SUFFICES ASSUME PageInv, NoOverlappingPops, [Next]_vars
             PROVE  PageInv'
  OBVIOUS
<1>1. TypeOK'
  BY NextType DEF PageInv
<1>2. CASE UNCHANGED vars
  BY <1>1, <1>2, OwnerStep
<1>3. CASE Owner
  BY <1>1, <1>3, CtorStep, OwnerStep DEF Owner, Ended
<1>4. ASSUME NEW t \in Thread, Call(t) PROVE PageInv'
  BY <1>1, <1>4, QuietSteps, DeallocateStep, ClientWriteStep DEF Call
<1>5. ASSUME NEW t \in Thread, Pop(t) \/ Scan(t) PROVE PageInv'
  BY <1>1, <1>5, QuietSteps, PopStep DEF Pop
<1>6. ASSUME NEW t \in Thread, Push(t) PROVE PageInv'
  BY <1>1, <1>6, QuietSteps, PushStep DEF Push
<1> QED
  BY <1>2, <1>3, <1>4, <1>5, <1>6 DEF Next

(* Page safety: in every execution in which no two threads are between the  *)
(* load of the same head and their CAS on it, allocate() gives no page out  *)
(* twice and every list holds exactly the free pages of its pool, for any   *)
(* number of threads, pages and pools and any client behaviour.             *)
THEOREM PageSafety ==
  Spec /\ []NoOverlappingPops => [](NoDoubleAllocation /\ FreeListsBy(Nat))
<1>1. PageInv => NoDoubleAllocation /\ FreeListsBy(Nat)
  BY DEF PageInv
<1> QED
  BY <1>1, InitPage, NextPage, PTL DEF Spec

-----------------------------------------------------------------------------
(* A client discipline that keeps pops apart: only one thread allocates,    *)
(* any number deallocate.                                                  *)
OneAllocator == \A t, u \in Allocators : t = u

AllocatorsPop ==
  \A t \in Thread : pc[t] \in {"load", "next", "cas", "dec", "scan", "max"}
                      => t \in Allocators

(* Only Allocate() takes a thread into allocate(), and it is for allocators. *)
LEMMA NextAllocatorsPop ==
  TypeOK /\ AllocatorsPop /\ [Next]_vars => AllocatorsPop'
<1> SUFFICES ASSUME TypeOK, AllocatorsPop, [Next]_vars
             PROVE  AllocatorsPop'
  OBVIOUS
<1> USE DEF Goto, shared, owner, locals
<1>1. CASE UNCHANGED vars
  BY <1>1 DEF vars, AllocatorsPop
<1>2. CASE Owner
  <2>1. ASSUME NEW p \in Page, CtorPage(p) PROVE pc' = pc
    BY <2>1 DEF CtorPage, CtorPush
  <2>2. CASE CtorDone \/ DtorBegin \/ DtorFree \/ DtorNextPool \/ Ended
    <3>1. pc' = pc
      BY <2>2 DEF CtorDone, DtorBegin, DtorFree, DtorNextPool, DtorAdvance,
                  Ended, vars
    <3> QED
      BY <3>1 DEF AllocatorsPop
  <2> QED
    BY <1>2, <2>1, <2>2 DEF Owner, AllocatorsPop
<1>3. ASSUME NEW t \in Thread, Call(t) PROVE AllocatorsPop'
  <2>1. CASE Allocate(t)
    BY <2>1 DEF Allocate, AllocateFrom, AllocatorsPop, TypeOK
  <2>2. ASSUME NEW u \in Thread, NEW p \in Page, Deallocate(t, u, p)
        PROVE  AllocatorsPop'
    <3>1. pc'[t] = "dload" /\ \A v \in Thread : v # t => pc'[v] = pc[v]
      BY <2>2 DEF Deallocate, TypeOK
    <3> QED
      BY <3>1 DEF AllocatorsPop
  <2>3. ASSUME NEW p \in Page, ClientWrite(t, p) PROVE AllocatorsPop'
    <3>1. pc' = pc
      BY <2>3 DEF ClientWrite, TypeOK
    <3> QED
      BY <3>1 DEF AllocatorsPop
  <2> QED
    BY <1>3, <2>1, <2>2, <2>3 DEF Call
<1>4. ASSUME NEW t \in Thread, Pop(t) PROVE AllocatorsPop'
  <2>1. /\ pc[t] \in {"load", "next", "cas", "dec"}
        /\ \A u \in Thread : u # t => pc'[u] = pc[u]
    BY <1>4 DEF Pop, LoadHead, LoadNext, PopCas, HeadIs, PopExchange,
                PopCasFail, PopRetry, DecRemain, TypeOK
  <2> QED
    BY <2>1 DEF AllocatorsPop
<1>5. ASSUME NEW t \in Thread, Scan(t) PROVE AllocatorsPop'
  BY <1>5 DEF Scan, ScanCompare, ScanStore, ScanDone, AllocatorsPop, TypeOK
<1>6. ASSUME NEW t \in Thread, Push(t) PROVE AllocatorsPop'
  <2>1. /\ pc'[t] \in {"dload", "dstore", "dcas", "dinc", "idle"}
        /\ \A u \in Thread : u # t => pc'[u] = pc[u]
    BY <1>6 DEF Push, LoadExpected, StoreNext, StoreLink, PushCas, HeadIs,
                PushExchange, PushCasFail, IncRemain, AddRemain, TypeOK
  <2> QED
    BY <2>1 DEF AllocatorsPop
<1> QED
  BY <1>1, <1>2, <1>3, <1>4, <1>5, <1>6 DEF Next

(* With one allocating thread, whatever the others deallocate meanwhile,    *)
(* no page is given out twice and the lists stay exact.                     *)
THEOREM OneAllocatorSafe ==
  ASSUME OneAllocator
  PROVE  Spec => [](NoDoubleAllocation /\ FreeListsBy(Nat))
<1>1. Init => AllocatorsPop
  BY DEF Init, AllocatorsPop
<1>2. AllocatorsPop => NoOverlappingPops
  BY DEF AllocatorsPop, NoOverlappingPops, Popping, OneAllocator
<1>3. Spec => []NoOverlappingPops
  BY <1>1, <1>2, NextAllocatorsPop, TypeCorrect, PTL DEF Spec
<1> QED
  BY <1>3, PageSafety, PTL

-----------------------------------------------------------------------------
(* MemoryPool implements the atomic page pool.                              *)

(* The pool before its constructor is the empty atomic pool.               *)
LEMMA InitAtomic == Init => Atomic!Init
<1> SUFFICES ASSUME Init PROVE Atomic!Init
  OBVIOUS
<1>1. Free = {} /\ \A t \in Thread : Owned(t) = {}
  BY DEF Init, Free, Owned, InFlight
<1> QED
  BY <1>1 DEF Atomic!Init

(* Only the constructor, the two successful CASes and the call of           *)
(* deallocate() move a page, each as one step of the atomic pool.           *)
LEMMA NextAtomic ==
  PageInv /\ NoOverlappingPops /\ [Next]_vars => [Atomic!Next]_(Atomic!vars)
<1> SUFFICES ASSUME PageInv, NoOverlappingPops, [Next]_vars
             PROVE  [Atomic!Next]_(Atomic!vars)
  OBVIOUS
<1> DEFINE owned == [t \in Thread |-> Owned(t)]
<1>0. TypeOK'
  BY NextType DEF PageInv
<1>1. ASSUME Free' = Free, \A u \in Thread : Owned(u)' = Owned(u)
      PROVE  [Atomic!Next]_(Atomic!vars)
  BY <1>1 DEF Atomic!vars
<1>2. CASE UNCHANGED vars
  BY <1>0, <1>1, <1>2, OwnerStep
<1>3. CASE CtorDone \/ DtorBegin \/ DtorFree \/ DtorNextPool \/ Ended
  BY <1>0, <1>1, <1>3, OwnerStep DEF Ended
<1>4. ASSUME NEW p \in Page, CtorPage(p) PROVE Atomic!Next
  <2>1. Free' = Free \cup {p} /\ owned' = owned
    BY <1>0, <1>4, CtorStep
  <2>2. p \notin Atomic!Known
    <3>1. p \notin made
      BY <1>0, <1>4, CtorStep
    <3>2. Free \subseteq made /\ \A t \in Thread : Owned(t) \subseteq made
      BY FreeMembers, Parts DEF PlacedAt
    <3> QED
      BY <3>1, <3>2 DEF Atomic!Known
  <2>3. Atomic!Create(p)
    BY <2>1, <2>2 DEF Atomic!Create
  <2> QED
    BY <2>3 DEF Atomic!Next
<1>5. ASSUME NEW t \in Thread, PopCas(t) PROVE Atomic!Next
  <2>1. /\ Free' = Free \ {page[t]} /\ page[t] \in Free /\ page[t] \in Page
        /\ Owned(t)' = Owned(t) \cup {page[t]}
        /\ \A u \in Thread \ {t} : Owned(u)' = Owned(u)
    BY <1>0, <1>5, PopStep DEF PageInv, TypeOK, Free
  <2>2. owned' = [owned EXCEPT ![t] = @ \cup {page[t]}]
    BY <2>1, Zenon
  <2>3. Atomic!Take(t, page[t])
    BY <2>1, <2>2 DEF Atomic!Take
  <2> QED
    BY <2>1, <2>3 DEF Atomic!Next
<1>6. ASSUME NEW t \in Thread, PushCas(t) PROVE Atomic!Next
  <2>1. /\ Free' = Free \cup {page[t]} /\ page[t] \in Owned(t)
        /\ Owned(t)' = Owned(t) \ {page[t]}
        /\ \A u \in Thread \ {t} : Owned(u)' = Owned(u)
        /\ page[t] \in Page
    BY <1>0, <1>6, PushStep, Zenon
       DEF PageInv, TypeOK, PushCas, HeadIs, PushExchange, Goto
  <2>2. owned' = [owned EXCEPT ![t] = @ \ {page[t]}]
    BY <2>1, Zenon
  <2>3. Atomic!Give(t, page[t])
    BY <2>1, <2>2 DEF Atomic!Give
  <2> QED
    BY <2>1, <2>3 DEF Atomic!Next
<1>7. ASSUME NEW t \in Thread, NEW u \in Thread, NEW p \in Page,
             Deallocate(t, u, p)
      PROVE  [Atomic!Next]_(Atomic!vars)
  <2>1. /\ Free' = Free
        /\ p \in Owned(u)
        /\ u = t => Owned(t)' = Owned(t)
        /\ u # t => /\ Owned(u)' = Owned(u) \ {p}
                    /\ Owned(t)' = Owned(t) \cup {p}
        /\ \A v \in Thread \ {t, u} : Owned(v)' = Owned(v)
    BY <1>0, <1>7, DeallocateStep
  <2>2. CASE u = t
    BY <1>1, <2>1, <2>2
  <2>3. CASE u # t
    <3>1. owned' = [owned EXCEPT ![u] = @ \ {p}, ![t] = @ \cup {p}]
      BY <2>1, <2>3, Zenon
    <3>2. Atomic!Pass(u, t, p)
      BY <2>1, <2>3, <3>1 DEF Atomic!Pass
    <3> QED
      BY <3>2 DEF Atomic!Next
  <2> QED
    BY <2>2, <2>3
<1>8. ASSUME NEW t \in Thread, NEW p \in Page, ClientWrite(t, p)
      PROVE  [Atomic!Next]_(Atomic!vars)
  BY <1>0, <1>1, <1>8, ClientWriteStep
<1>9. ASSUME NEW t \in Thread,
             \/ Allocate(t) \/ LoadHead(t) \/ LoadNext(t)
             \/ PopCasFail(t) \/ DecRemain(t) \/ Scan(t) \/ LoadExpected(t)
             \/ StoreNext(t) \/ PushCasFail(t) \/ IncRemain(t)
      PROVE  [Atomic!Next]_(Atomic!vars)
  BY <1>0, <1>1, <1>9, QuietSteps
<1> QED
  BY <1>2, <1>3, <1>4, <1>5, <1>6, <1>7, <1>8, <1>9
     DEF Next, Owner, Call, Pop, Push

(* Seen as who has which page, every execution whose pops do not overlap    *)
(* is an execution of the atomic page pool.                                 *)
THEOREM ImplementsPagePool == Spec /\ []NoOverlappingPops => AtomicPool
BY InitPage, NextPage, InitAtomic, NextAtomic, PTL
   DEF Spec, AtomicPool, Atomic!Spec
=============================================================================
