---------------------------- MODULE MemoryPool ----------------------------
(***************************************************************************)
(* The page pool of src/phy_page_pool.h: one Treiber stack of free pages   *)
(* per pool, and one counter of remaining pages per pool that is updated   *)
(* separately from the stack.                                              *)
(*                                                                         *)
(* Every access to shared memory is an action of its own: the loads of a   *)
(* list head and of page->next, each compare_exchange_weak, each counter   *)
(* update, and the two reads of a counter in get_rough_richest_pool.  All  *)
(* accesses after construction are memory_order_seq_cst, so interleaving   *)
(* is the right semantics.                                                 *)
(***************************************************************************)
EXTENDS Integers, FiniteSets

CONSTANTS
  Thread,      \* threads that use the pool
  Allocators,  \* those of them that call allocate()
  Passes,      \* <<t, u>>: a page allocated by t may be deallocated by u
  Page,        \* the pages the constructor obtains from aligned_alloc
  NumPools,    \* num_pools_
  PoolOf,      \* page -> ((size_t)page / page_size_) % num_pools_
  HomeOf,      \* thread -> hash(thread id) % num_pools_
  Quota,       \* pages that a client keeps at once
  Modulus,     \* 2^w of the size_t counters
  Spurious,    \* compare_exchange_weak may fail on an unchanged head
  Null,        \* nullptr
  Junk         \* any pointer value made of client data (0x2a2a...)

Pools == 0 .. NumPools - 1

ASSUME ThreadAssumption == /\ Allocators \subseteq Thread
                           /\ Passes \subseteq Thread \X Thread
ASSUME PoolAssumption == /\ NumPools \in Nat \ {0}
                         /\ PoolOf \in [Page -> Pools]
                         /\ HomeOf \in [Thread -> Pools]
ASSUME CounterAssumption == Modulus \in Nat \ {0} /\ Quota \in Nat
ASSUME CasAssumption == Spurious \in BOOLEAN
ASSUME PointerAssumption == /\ Null \notin Page
                            /\ Junk \notin Page
                            /\ Null # Junk

VARIABLES
  phase,               \* what the owner of the MemoryPool object is doing
  made,                \* pages the constructor has obtained so far
  local_pools,         \* pool -> head of its free list
  next,                \* page -> the bits stored at page->next
  local_remain_pages,  \* pool -> counter
  pages_per_pool,      \* pool -> number of pages it was built with
  held,                \* thread -> pages the client got from allocate()
  pc,                  \* thread -> where it is in allocate/deallocate
  pool_idx,            \* thread -> pool_idx of allocate, idx of deallocate
  page,                \* thread -> page of allocate/deallocate
  link,                \* thread -> page->next read by allocate,
                       \*           expected of deallocate
  scan,                \* thread -> i, max_remain_pages, richest_pool_idx
  dtor                 \* the destructor's i, page, free_cnt, and what it freed

shared == <<local_pools, next, local_remain_pages>>
owner == <<phase, made, pages_per_pool, dtor>>
locals == <<held, pc, pool_idx, page, link, scan>>
vars == <<phase, made, local_pools, next, local_remain_pages, pages_per_pool,
          held, pc, pool_idx, page, link, scan, dtor>>

Pointer == Page \cup {Null, Junk}
NoPool == -1
ScanAt(i, max, best) == [i |-> i, max |-> max, best |-> best]
NoScan == ScanAt(0, 0, NoPool)
Walk(i, p, n, freed) == [i |-> i, page |-> p, free_cnt |-> n, freed |-> freed]
PC == {"idle", "load", "next", "cas", "dec", "scan", "max",
       "dload", "dstore", "dcas", "dinc"}

-----------------------------------------------------------------------------
(* Who has a page.  A page is in flight between the CAS that pops it and   *)
(* the return of allocate(), and between the call of deallocate() and the  *)
(* CAS that pushes it.                                                      *)
InFlight(t) == IF pc[t] \in {"dec", "dload", "dstore", "dcas"}
               THEN {page[t]} \ {Null} ELSE {}
Owned(t) == held[t] \cup InFlight(t)
Free == made \ UNION {Owned(t) : t \in Thread}
FreeOf(i) == {p \in Free : PoolOf[p] = i}

Idle == \A t \in Thread : pc[t] = "idle"
AtRest == phase = "live" /\ Idle /\ \A t \in Thread : held[t] = {}

PlusUnbounded(n, d) == n + d                                       \* mutant
Plus(n, d) == (n + d) % Modulus
CountersFull == \A i \in Pools : local_remain_pages[i] = pages_per_pool[i]

-----------------------------------------------------------------------------
(* The constructor: one page per step, then its final assertion.           *)
Init ==
  /\ phase = "ctor"
  /\ made = {}
  /\ local_pools = [i \in Pools |-> Null]
  /\ next = [p \in Page |-> Null]
  /\ local_remain_pages = [i \in Pools |-> 0]
  /\ pages_per_pool = [i \in Pools |-> 0]
  /\ held = [t \in Thread |-> {}]
  /\ pc = [t \in Thread |-> "idle"]
  /\ pool_idx = [t \in Thread |-> 0]
  /\ page = [t \in Thread |-> Null]
  /\ link = [t \in Thread |-> Null]
  /\ scan = [t \in Thread |-> NoScan]
  /\ dtor = Walk(0, Null, 0, {})

CtorPush(p, behind) ==
  /\ phase = "ctor"
  /\ p \notin made
  /\ made' = made \cup {p}
  /\ next' = [next EXCEPT ![p] = behind]
  /\ local_pools' = [local_pools EXCEPT ![PoolOf[p]] = p]
  /\ local_remain_pages' = [local_remain_pages EXCEPT ![PoolOf[p]] = Plus(@, 1)]
  /\ pages_per_pool' = [pages_per_pool EXCEPT ![PoolOf[p]] = @ + 1]
  /\ UNCHANGED <<phase, locals, dtor>>
CtorPage(p) == CtorPush(p, local_pools[PoolOf[p]])

CtorDone ==
  /\ phase = "ctor"
  /\ made = Page
  /\ phase' = IF CountersFull THEN "live" ELSE "aborted"
  /\ UNCHANGED <<made, pages_per_pool, dtor, shared, locals>>

-----------------------------------------------------------------------------
(* allocate()                                                               *)
Goto(t, from, to) ==
  /\ phase = "live"
  /\ pc[t] = from
  /\ pc' = [pc EXCEPT ![t] = to]

AllocateFrom(t, i) ==
  /\ t \in Allocators
  /\ Cardinality(held[t]) < Quota
  /\ Goto(t, "idle", "load")
  /\ pool_idx' = [pool_idx EXCEPT ![t] = i]
  /\ UNCHANGED <<owner, shared, held, page, link, scan>>
AllocateFromPool0(t) == AllocateFrom(t, 0)                         \* mutant
Allocate(t) == AllocateFrom(t, HomeOf[t])

LoadHead(t) ==
  /\ LET h == local_pools[pool_idx[t]]
     IN /\ page' = [page EXCEPT ![t] = h]
        /\ Goto(t, "load", IF h = Null THEN "dec" ELSE "next")
  /\ UNCHANGED <<owner, shared, held, pool_idx, link, scan>>

\* A page pointer that is client data faults when page->next is read.
LoadNext(t) ==
  /\ phase = "live" /\ pc[t] = "next"
  /\ IF page[t] \in Page
     THEN /\ Goto(t, "next", "cas")
          /\ link' = [link EXCEPT ![t] = next[page[t]]]
          /\ UNCHANGED phase
     ELSE phase' = "aborted" /\ UNCHANGED <<pc, link>>
  /\ UNCHANGED <<made, pages_per_pool, dtor, shared, held, pool_idx, page, scan>>

\* compare_exchange_weak(page, page->next)
HeadIs(t, expected) == local_pools[pool_idx[t]] = expected
PopExchange(t, desired) ==
  /\ Goto(t, "cas", "dec")
  /\ local_pools' = [local_pools EXCEPT ![pool_idx[t]] = desired]
  /\ link' = [link EXCEPT ![t] = Null]
  /\ UNCHANGED <<owner, next, local_remain_pages, held, pool_idx, page, scan>>
PopKeepsHead(t) == HeadIs(t, page[t]) /\ PopExchange(t, page[t])   \* mutant
PopCas(t) == HeadIs(t, page[t]) /\ PopExchange(t, link[t])

\* The head has changed, or compare_exchange_weak fails spuriously.
PopRetry(t, at, p) ==
  /\ HeadIs(t, page[t]) => Spurious
  /\ Goto(t, "cas", at)
  /\ page' = [page EXCEPT ![t] = p]
  /\ link' = [link EXCEPT ![t] = Null]
  /\ UNCHANGED <<owner, shared, held, pool_idx, scan>>
PopRetryStale(t) == PopRetry(t, "next", page[t])                   \* mutant
PopCasFail(t) == PopRetry(t, "load", Null)

\* The counter goes down also when no page was found; with a page the call
\* returns, without one get_rough_richest_pool() starts.
DecRemain(t) ==
  /\ Goto(t, "dec", IF page[t] = Null THEN "scan" ELSE "idle")
  /\ local_remain_pages' =
       [local_remain_pages EXCEPT ![pool_idx[t]] = Plus(@, -1)]
  /\ held' = [held EXCEPT ![t] = @ \cup ({page[t]} \ {Null})]
  /\ page' = [page EXCEPT ![t] = Null]
  /\ pool_idx' = [pool_idx EXCEPT ![t] = 0]
  /\ UNCHANGED <<owner, local_pools, next, link, scan>>

(* get_rough_richest_pool(): line 88 reads the counter to compare, line 90 *)
(* reads it again to store.                                                *)
ScanCompare(t) ==
  /\ scan[t].i < NumPools
  /\ LET more == local_remain_pages[scan[t].i] > scan[t].max
     IN /\ Goto(t, "scan", IF more THEN "max" ELSE "scan")
        /\ scan' = IF more THEN scan ELSE
                   [scan EXCEPT ![t] = ScanAt(@.i + 1, @.max, @.best)]
  /\ UNCHANGED <<owner, shared, held, pool_idx, page, link>>

ScanStore(t) ==
  /\ Goto(t, "max", "scan")
  /\ scan' = [scan EXCEPT ![t] = ScanAt(@.i + 1, local_remain_pages[@.i], @.i)]
  /\ UNCHANGED <<owner, shared, held, pool_idx, page, link>>

\* -1 makes allocate() return nullptr; a pool index makes it start again there.
ScanDone(t) ==
  /\ scan[t].i = NumPools
  /\ Goto(t, "scan", IF scan[t].best = NoPool THEN "idle" ELSE "load")
  /\ pool_idx' = [pool_idx EXCEPT ![t] = IF scan[t].best = NoPool
                                         THEN 0 ELSE scan[t].best]
  /\ scan' = [scan EXCEPT ![t] = NoScan]
  /\ UNCHANGED <<owner, shared, held, page, link>>

-----------------------------------------------------------------------------
(* deallocate()                                                             *)

\* deallocate(nullptr) returns at once and changes nothing: not a step.
Deallocate(u, t, p) ==
  /\ <<t, u>> \in Passes
  /\ p \in held[t]
  /\ Goto(u, "idle", "dload")
  /\ held' = [held EXCEPT ![t] = @ \ {p}]
  /\ page' = [page EXCEPT ![u] = p]
  /\ pool_idx' = [pool_idx EXCEPT ![u] = PoolOf[p]]
  /\ UNCHANGED <<owner, shared, link, scan>>

LoadExpected(t) ==
  /\ Goto(t, "dload", "dstore")
  /\ link' = [link EXCEPT ![t] = local_pools[pool_idx[t]]]
  /\ UNCHANGED <<owner, shared, held, pool_idx, page, scan>>

StoreLink(t, v) ==
  /\ Goto(t, "dstore", "dcas")
  /\ next' = [next EXCEPT ![page[t]] = v]
  /\ UNCHANGED <<owner, local_pools, local_remain_pages, held, pool_idx, page,
                 link, scan>>
StoreSkipped(t) == StoreLink(t, next[page[t]])                     \* mutant
StoreNext(t) == StoreLink(t, link[t])

\* compare_exchange_weak(expected, page)
PushExchange(t) ==
  /\ Goto(t, "dcas", "dinc")
  /\ local_pools' = [local_pools EXCEPT ![pool_idx[t]] = page[t]]
  /\ page' = [page EXCEPT ![t] = Null]
  /\ link' = [link EXCEPT ![t] = Null]
  /\ UNCHANGED <<owner, next, local_remain_pages, held, pool_idx, scan>>
PushUncompared(t) == PushExchange(t)                               \* mutant
PushCas(t) == HeadIs(t, link[t]) /\ PushExchange(t)

PushCasFail(t) ==
  /\ HeadIs(t, link[t]) => Spurious
  /\ Goto(t, "dcas", "dload")
  /\ link' = [link EXCEPT ![t] = Null]
  /\ UNCHANGED <<owner, shared, held, pool_idx, page, scan>>

AddRemain(t, i, n) ==
  /\ Goto(t, "dinc", "idle")
  /\ local_remain_pages' = [local_remain_pages EXCEPT ![i] = Plus(@, n)]
  /\ pool_idx' = [pool_idx EXCEPT ![t] = 0]
  /\ UNCHANGED <<owner, local_pools, next, held, page, link, scan>>
IncPool0(t) == AddRemain(t, 0, 1)                                  \* mutant
IncRemain(t) == AddRemain(t, pool_idx[t], 1)

\* The client fills a page it holds (memset(page, 42, PAGE_SIZE)): the bytes
\* of page->next are client data from then on.
ClientWrite(t, p) ==
  /\ Goto(t, "idle", "idle")
  /\ p \in held[t]
  /\ next' = [next EXCEPT ![p] = Junk]
  /\ UNCHANGED <<owner, local_pools, local_remain_pages, held, pool_idx, page,
                 link, scan>>

-----------------------------------------------------------------------------
(* The destructor, run when every client is done and has returned its      *)
(* pages.                                                                  *)
DtorBegin ==
  /\ AtRest
  /\ phase' = IF CountersFull THEN "dtor" ELSE "aborted"
  /\ dtor' = Walk(0, local_pools[0], 0, {})
  /\ UNCHANGED <<made, pages_per_pool, shared, locals>>

\* A page that is not a live block (client data, or freed before) is a fault.
DtorFree ==
  /\ phase = "dtor"
  /\ dtor.page # Null
  /\ IF dtor.page \in Page \ dtor.freed
     THEN /\ dtor' = Walk(dtor.i, next[dtor.page], dtor.free_cnt + 1,
                          dtor.freed \cup {dtor.page})
          /\ UNCHANGED phase
     ELSE phase' = "aborted" /\ UNCHANGED dtor
  /\ UNCHANGED <<made, pages_per_pool, shared, locals>>

DtorAdvance(i) ==
  /\ phase = "dtor"
  /\ dtor.page = Null
  /\ IF dtor.free_cnt # local_remain_pages[dtor.i]
     THEN phase' = "aborted" /\ UNCHANGED dtor
     ELSE IF i = NumPools
     THEN phase' = "destroyed" /\ UNCHANGED dtor
     ELSE dtor' = Walk(i, local_pools[i], 0, dtor.freed) /\ UNCHANGED phase
  /\ UNCHANGED <<made, pages_per_pool, shared, locals>>
DtorFirstPoolOnly == DtorAdvance(NumPools)                         \* mutant
DtorNextPool == DtorAdvance(dtor.i + 1)

Ended == phase \in {"destroyed", "aborted"} /\ UNCHANGED vars

-----------------------------------------------------------------------------
Pop(t) == \/ LoadHead(t) \/ LoadNext(t)
          \/ PopCas(t) \/ PopCasFail(t) \/ DecRemain(t)
Scan(t) == ScanCompare(t) \/ ScanStore(t) \/ ScanDone(t)
Push(t) == \/ LoadExpected(t) \/ StoreNext(t)
           \/ PushCas(t) \/ PushCasFail(t) \/ IncRemain(t)
Call(t) == \/ Allocate(t)
           \/ \E u \in Thread, p \in Page : Deallocate(t, u, p)
           \/ \E p \in Page : ClientWrite(t, p)
Owner == \/ \E p \in Page : CtorPage(p)
         \/ CtorDone \/ DtorBegin \/ DtorFree \/ DtorNextPool \/ Ended

Next == Owner \/ \E t \in Thread : Call(t) \/ Pop(t) \/ Scan(t) \/ Push(t)

Spec == Init /\ [][Next]_vars

\* Every thread keeps running inside a call.
FairSpec == Spec /\ \A t \in Thread : WF_vars(Pop(t) \/ Scan(t) \/ Push(t))

-----------------------------------------------------------------------------
(* Type invariant: the variables stay in their ranges; in particular the   *)
(* counters stay within size_t, pool_idx and the scan's i are valid when   *)
(* used as an index, and page is a page when it is used as one.            *)
TypeOK ==
  /\ phase \in {"ctor", "live", "dtor", "destroyed", "aborted"}
  /\ made \subseteq Page
  /\ local_pools \in [Pools -> Pointer]
  /\ next \in [Page -> Pointer]
  /\ local_remain_pages \in [Pools -> 0 .. Modulus - 1]
  /\ pages_per_pool \in [Pools -> Nat]
  /\ held \in [Thread -> SUBSET Page]
  /\ pc \in [Thread -> PC]
  /\ pool_idx \in [Thread -> Pools]
  /\ page \in [Thread -> Pointer]
  /\ link \in [Thread -> Pointer]
  /\ scan \in [Thread -> [i : 0 .. NumPools, max : 0 .. Modulus - 1,
                          best : Pools \cup {NoPool}]]
  /\ \A t \in Thread :
       /\ pc[t] = "max" => scan[t].i \in Pools
       /\ pc[t] \in {"cas", "dload", "dstore", "dcas"} => page[t] \in Page
       /\ pc[t] = "dec" => page[t] # Junk
  /\ dtor \in [i : Pools, page : Pointer, free_cnt : Nat, freed : SUBSET Page]

(* allocate() never gives out a page that somebody already has, whatever   *)
(* the interleaving of pops and pushes (phy_page_pool.h:110-115, 162-167). *)
NoDoubleAllocation ==
  /\ \A t, u \in Thread : t # u => Owned(t) \cap Owned(u) = {}
  /\ \A t \in Thread : InFlight(t) \cap held[t] = {}

(* The lists with heads h and links n hold exactly the pages F: r ranks    *)
(* the pages of a list from its last page up to its head.                  *)
Lists(h, n, F, r) ==
  \A i \in Pools :
    /\ h[i] = Null => \A p \in F : PoolOf[p] # i
    /\ h[i] # Null => h[i] \in F /\ PoolOf[h[i]] = i
    /\ \A p \in F : PoolOf[p] = i =>
         /\ 1 <= r[p] /\ r[p] <= r[h[i]]
         /\ n[p] = Null => r[p] = 1
         /\ n[p] # Null => /\ n[p] \in F /\ PoolOf[n[p]] = i
                           /\ r[p] = r[n[p]] + 1
         /\ \A q \in F : PoolOf[q] = i /\ r[p] = r[q] => p = q
FreeListsBy(R) == \E r \in [Page -> R] : Lists(local_pools, next, Free, r)

(* The list of every pool holds exactly the free pages of that pool, each  *)
(* once and in a chain that ends in nullptr: no page is lost, on two lists *)
(* or reachable from a head while a client has it (phy_page_pool.h:110,    *)
(* 162; the destructor's walk at 60-70 relies on it).                      *)
FreeListsExact == FreeListsBy(0 .. Cardinality(Page))

(* The client discipline under which the pool is safe: two threads are     *)
(* never both between the load of the same head and their CAS on it.       *)
Popping(t, i) == pc[t] \in {"next", "cas"} /\ pool_idx[t] = i
NoOverlappingPops ==
  \A t, u \in Thread, i \in Pools : Popping(t, i) /\ Popping(u, i) => t = u

(* Without misses a counter differs from the length of its list only by    *)
(* the pops and pushes whose counter update is still to come, modulo the   *)
(* width of size_t (phy_page_pool.h:137, 190).                             *)
Late(i, at) == {t \in Thread : pc[t] = at /\ pool_idx[t] = i}
CountersAgree ==
  \A i \in Pools :
    Plus(local_remain_pages[i], Cardinality(Late(i, "dinc")))
      = Plus(Cardinality(FreeOf(i)), Cardinality(Late(i, "dec")))

(* No assertion of the constructor or the destructor fails, and no pointer *)
(* made of client data is followed (phy_page_pool.h:49, 56, 73, 113).      *)
NoAbort == phase # "aborted"

(* The destructor gives every page back to the heap (phy_page_pool.h:60).  *)
DtorFreesEverything == phase = "destroyed" => dtor.freed = Page

(* allocate() returns although other threads keep pushing pages onto the   *)
(* list it pops from: its CAS loop (phy_page_pool.h:110-115) cannot be     *)
(* starved by deallocations.                                               *)
AllocateReturns ==
  \A t \in Thread : pc[t] \in {"load", "next", "cas", "dec", "scan", "max"}
                      ~> (pc[t] = "idle" \/ phase = "aborted")

(* Seen as who has which page, the steps of MemoryPool are those of an     *)
(* atomic page pool: the successful CAS of allocate() is the moment a page *)
(* is taken, the successful CAS of deallocate() the moment it is given     *)
(* back (phy_page_pool.h:112, 166).                                        *)
Atomic == INSTANCE PagePool
            WITH free <- Free, owned <- [t \in Thread |-> Owned(t)]
AtomicPool == Atomic!Spec

-----------------------------------------------------------------------------
(* What comments and assertions of the code say of the program.            *)

(* phy_page_pool.h:73: assert(free_cnt == local_remain_pages_[i]->load())  *)
(* when the destructor has walked a list to its end.                       *)
WalkCountsAllPages ==
  phase = "dtor" /\ dtor.page = Null
    => dtor.free_cnt = local_remain_pages[dtor.i]
=============================================================================
