------------------------- MODULE MemoryPoolProofs -------------------------
(***************************************************************************)
(* Proofs about MemoryPool for any number of threads, pages and pools.     *)
(***************************************************************************)
EXTENDS MemoryPool, TLAPS

USE ThreadAssumption, PoolAssumption, CounterAssumption, PointerAssumption

-----------------------------------------------------------------------------
(* Type correctness.                                                        *)

(* Counter arithmetic stays within size_t.                                 *)
LEMMA PlusType ==
  ASSUME NEW n \in Int, NEW k \in Int
  PROVE  Plus(n, k) \in 0 .. Modulus - 1
BY DEF Plus

(* The constructed object has its types.                                   *)
LEMMA InitType == Init => TypeOK
<1>1. Modulus - 1 \in Nat /\ 0 \in 0 .. Modulus - 1
  OBVIOUS
<1>2. 0 \in Pools /\ 0 \in 0 .. NumPools
  BY DEF Pools
<1> QED
  BY <1>1, <1>2 DEF Init, TypeOK, Pointer, PC, NoScan, NoPool, ScanAt, Walk

(* Every step keeps the types.                                              *)
LEMMA NextType == TypeOK /\ [Next]_vars => TypeOK'
<1> SUFFICES ASSUME TypeOK, [Next]_vars
             PROVE  TypeOK'
  OBVIOUS
<1> USE DEF Goto, shared, owner, locals, ScanAt, Walk
<1>0. /\ \A i \in Pools : local_remain_pages[i] \in Int
      /\ 0 .. Modulus - 1 \subseteq Nat
      /\ 0 \in Pools
  BY DEF TypeOK, Pools
<1>1. CASE UNCHANGED vars
  BY <1>1 DEF vars, TypeOK
<1>2. ASSUME NEW p \in Page, CtorPage(p) PROVE TypeOK'
  <2>1. PoolOf[p] \in Pools
    OBVIOUS
  <2>2. local_remain_pages' \in [Pools -> 0 .. Modulus - 1]
    BY <1>0, <1>2, <2>1, PlusType DEF CtorPage, CtorPush, TypeOK
  <2>3. pages_per_pool' \in [Pools -> Nat]
    BY <1>2, <2>1 DEF CtorPage, CtorPush, TypeOK
  <2>4. next' \in [Page -> Pointer] /\ local_pools' \in [Pools -> Pointer]
    BY <1>2, <2>1 DEF CtorPage, CtorPush, TypeOK, Pointer
  <2> QED
    BY <1>2, <2>2, <2>3, <2>4 DEF CtorPage, CtorPush, TypeOK
<1>3. CASE CtorDone
  BY <1>3 DEF CtorDone, TypeOK
<1>4. CASE DtorBegin
  BY <1>0, <1>4 DEF DtorBegin, TypeOK
<1>5. CASE DtorFree
  BY <1>5 DEF DtorFree, TypeOK
<1>6. CASE DtorNextPool
  <2>1. ASSUME dtor.i + 1 # NumPools PROVE dtor.i + 1 \in Pools
    BY SMTT(30), <2>1 DEF TypeOK, Pools
  <2> QED
    BY <1>6, <2>1 DEF DtorNextPool, DtorAdvance, TypeOK
<1>7. CASE Ended
  BY <1>7 DEF Ended, vars, TypeOK
<1>8. ASSUME NEW t \in Thread, Call(t) PROVE TypeOK'
  <2>1. CASE Allocate(t)
    BY <2>1 DEF Allocate, AllocateFrom, TypeOK, PC
  <2>2. ASSUME NEW u \in Thread, NEW p \in Page, Deallocate(t, u, p)
        PROVE  TypeOK'
    BY <2>2 DEF Deallocate, TypeOK, PC, Pointer
  <2>3. ASSUME NEW p \in Page, ClientWrite(t, p) PROVE TypeOK'
    BY <2>3 DEF ClientWrite, TypeOK, Pointer
  <2> QED
    BY <1>8, <2>1, <2>2, <2>3 DEF Call
<1>9. ASSUME NEW t \in Thread, Pop(t) PROVE TypeOK'
  <2>1. CASE LoadHead(t)
    BY <2>1 DEF LoadHead, TypeOK, PC
  <2>2. CASE LoadNext(t)
    <3>1. CASE page[t] \in Page
      BY <2>2, <3>1 DEF LoadNext, TypeOK, PC
    <3>2. CASE page[t] \notin Page
      BY <2>2, <3>2 DEF LoadNext, TypeOK
    <3> QED
      BY <3>1, <3>2
  <2>3. CASE PopCas(t)
    BY <2>3 DEF PopCas, HeadIs, PopExchange, TypeOK, PC, Pointer
  <2>4. CASE PopCasFail(t)
    BY <2>4 DEF PopCasFail, PopRetry, TypeOK, PC, Pointer
  <2>5. CASE DecRemain(t)
    <3>1. local_remain_pages' \in [Pools -> 0 .. Modulus - 1]
      <4>1. local_remain_pages[pool_idx[t]] \in Int
        BY <1>0 DEF TypeOK
      <4>2. Plus(local_remain_pages[pool_idx[t]], -1) \in 0 .. Modulus - 1
        BY <4>1 DEF Plus
      <4> QED
        BY <2>5, <4>2 DEF DecRemain, TypeOK
    <3>2. {page[t]} \ {Null} \subseteq Page
      BY <2>5 DEF DecRemain, TypeOK, Pointer
    <3> QED
      BY <1>0, <2>5, <3>1, <3>2 DEF DecRemain, TypeOK, PC, Pointer
  <2> QED
    BY <1>9, <2>1, <2>2, <2>3, <2>4, <2>5 DEF Pop
<1>10. ASSUME NEW t \in Thread, Scan(t) PROVE TypeOK'
  <2>1. CASE ScanCompare(t)
    <3>1. /\ scan[t] \in [i : 0 .. NumPools, max : 0 .. Modulus - 1,
                           best : Pools \cup {NoPool}]
          /\ scan[t].i \in 0 .. NumPools /\ scan[t].i < NumPools
      BY <2>1 DEF ScanCompare, TypeOK
    <3>2. scan[t].i \in Pools /\ scan[t].i + 1 \in 0 .. NumPools
      BY <3>1 DEF Pools
    <3>3. CASE local_remain_pages[scan[t].i] > scan[t].max
      BY <2>1, <3>2, <3>3 DEF ScanCompare, TypeOK, PC
    <3>4. CASE ~(local_remain_pages[scan[t].i] > scan[t].max)
      <4>1. scan' \in [Thread -> [i : 0 .. NumPools, max : 0 .. Modulus - 1,
                                  best : Pools \cup {NoPool}]]
        BY <2>1, <3>1, <3>2, <3>4 DEF ScanCompare, TypeOK
      <4> QED
        BY <2>1, <3>4, <4>1 DEF ScanCompare, TypeOK, PC
    <3> QED
      BY <3>3, <3>4
  <2>2. CASE ScanStore(t)
    <3>1. scan[t].i \in Pools
      BY <2>2 DEF ScanStore, TypeOK
    <3>2. scan[t].i + 1 \in 0 .. NumPools
      BY <3>1 DEF Pools
    <3>3. local_remain_pages[scan[t].i] \in 0 .. Modulus - 1
      BY <3>1 DEF TypeOK
    <3>4. scan' \in [Thread -> [i : 0 .. NumPools, max : 0 .. Modulus - 1,
                                best : Pools \cup {NoPool}]]
      BY <2>2, <3>1, <3>2, <3>3 DEF ScanStore, TypeOK
    <3> QED
      BY <2>2, <3>4 DEF ScanStore, TypeOK, PC
  <2>3. CASE ScanDone(t)
    BY <1>0, <2>3 DEF ScanDone, TypeOK, PC, NoScan
  <2> QED
    BY <1>10, <2>1, <2>2, <2>3 DEF Scan
<1>11. ASSUME NEW t \in Thread, Push(t) PROVE TypeOK'
  <2>1. CASE LoadExpected(t)
    BY <2>1 DEF LoadExpected, TypeOK, PC
  <2>2. CASE StoreNext(t)
    BY <2>2 DEF StoreNext, StoreLink, TypeOK, PC
  <2>3. CASE PushCas(t)
    BY <2>3 DEF PushCas, HeadIs, PushExchange, TypeOK, PC, Pointer
  <2>4. CASE PushCasFail(t)
    BY <2>4 DEF PushCasFail, TypeOK, PC, Pointer
  <2>5. CASE IncRemain(t)
    <3>1. local_remain_pages' \in [Pools -> 0 .. Modulus - 1]
      <4>1. local_remain_pages[pool_idx[t]] \in Int
        BY <1>0 DEF TypeOK
      <4>2. Plus(local_remain_pages[pool_idx[t]], 1) \in 0 .. Modulus - 1
        BY <4>1 DEF Plus
      <4> QED
        BY <2>5, <4>2 DEF IncRemain, AddRemain, TypeOK
    <3> QED
      BY <1>0, <2>5, <3>1 DEF IncRemain, AddRemain, TypeOK, PC
  <2> QED
    BY <1>11, <2>1, <2>2, <2>3, <2>4, <2>5 DEF Push
<1> QED
  BY <1>1, <1>2, <1>3, <1>4, <1>5, <1>6, <1>7, <1>8, <1>9, <1>10, <1>11
     DEF Next, Owner

(* The types hold in every reachable state, for any client.                *)
THEOREM TypeCorrect == Spec => []TypeOK
BY InitType, NextType, PTL DEF Spec

-----------------------------------------------------------------------------
(* The free lists.  These lemmas speak of any heads h, links n, set of      *)
(* pages F and ranking r, so they apply to the state before and after a    *)
(* step alike.                                                             *)

(* Only the links of pages on the lists matter.                            *)
LEMMA ListsFrame ==
  ASSUME NEW h, NEW n, NEW m, NEW F \in SUBSET Page, NEW r,
         Lists(h, n, F, r),
         \A q \in F : m[q] = n[q]
  PROVE  Lists(h, m, F, r)
BY DEF Lists

(* Linking a page that is on no list in front of the head of its pool, as  *)
(* the constructor and deallocate() do, puts exactly that page on a list.  *)
LEMMA ListsPush ==
  ASSUME NEW h \in [Pools -> Pointer], NEW n \in [Page -> Pointer],
         NEW F \in SUBSET Page, NEW r \in [Page -> Nat],
         NEW p \in Page, p \notin F,
         Lists(h, n, F, r),
         n[p] = h[PoolOf[p]]
  PROVE  \E s \in [Page -> Nat] :
           Lists([h EXCEPT ![PoolOf[p]] = p], n, F \cup {p}, s)
<1> DEFINE j == PoolOf[p]
           g == [h EXCEPT ![j] = p]
           top == IF h[j] = Null THEN 1 ELSE r[h[j]] + 1
           s == [r EXCEPT ![p] = top]
<1>1. j \in Pools /\ (h[j] # Null => h[j] \in F)
  BY DEF Lists
<1>2. top \in Nat /\ s \in [Page -> Nat]
  BY <1>1
<1>3. /\ \A q \in F : s[q] = r[q]
      /\ s[p] = top
      /\ g[j] = p /\ \A i \in Pools : i # j => g[i] = h[i]
  BY <1>1
<1>4. \A q \in F : PoolOf[q] = j => r[q] < top
  BY <1>1 DEF Lists
<1>5. Lists(g, n, F \cup {p}, s)
  <2> HIDE DEF j, g, top, s
  <2> SUFFICES ASSUME NEW i \in Pools
               PROVE /\ g[i] = Null => \A q \in F \cup {p} : PoolOf[q] # i
                     /\ g[i] # Null => g[i] \in F \cup {p} /\ PoolOf[g[i]] = i
                     /\ \A q \in F \cup {p} : PoolOf[q] = i =>
                          /\ 1 <= s[q] /\ s[q] <= s[g[i]]
                          /\ n[q] = Null => s[q] = 1
                          /\ n[q] # Null => /\ n[q] \in F \cup {p}
                                            /\ PoolOf[n[q]] = i
                                            /\ s[q] = s[n[q]] + 1
                          /\ \A x \in F \cup {p} :
                               PoolOf[x] = i /\ s[q] = s[x] => q = x
    BY DEF Lists
  <2>1. CASE i # j
    BY <1>3, <2>1 DEF Lists, j
  <2>2. CASE i = j
    <3>1. /\ g[i] = p /\ p # Null /\ p \notin F
          /\ PoolOf[p] = i
      BY <1>3, <2>2 DEF j
    <3>2. n[p] = h[i] /\ top = IF h[i] = Null THEN 1 ELSE r[h[i]] + 1
      BY <2>2 DEF top, j
    <3>3. ASSUME NEW q \in F, PoolOf[q] = i
          PROVE  /\ 1 <= s[q] /\ s[q] < top
                 /\ n[q] = Null => s[q] = 1
                 /\ n[q] # Null => /\ n[q] \in F
                                   /\ PoolOf[n[q]] = i
                                   /\ s[q] = s[n[q]] + 1
                 /\ \A x \in F : PoolOf[x] = i /\ s[q] = s[x] => q = x
      BY <1>3, <1>4, <2>2, <3>3 DEF Lists
    <3>4. /\ 1 <= top
          /\ h[i] = Null => top = 1
          /\ h[i] # Null => /\ h[i] \in F /\ PoolOf[h[i]] = i
                            /\ top = s[h[i]] + 1
      BY <1>1, <1>2, <1>3, <2>2, <3>2 DEF Lists
    <3>5. top \in Nat /\ \A q \in F : s[q] \in Nat
      BY <1>2
    <3>6. ASSUME NEW q \in F \cup {p}, PoolOf[q] = i
          PROVE  /\ 1 <= s[q] /\ s[q] <= top
                 /\ n[q] = Null => s[q] = 1
                 /\ n[q] # Null => /\ n[q] \in F /\ PoolOf[n[q]] = i
                                   /\ s[q] = s[n[q]] + 1
      <4>1. CASE q = p
        BY <1>3, <3>2, <3>4, <3>5, <4>1
      <4>2. CASE q \in F
        BY <3>3, <3>5, <3>6, <4>2
      <4> QED
        BY <4>1, <4>2
    <3>7. ASSUME NEW q \in F \cup {p}, NEW x \in F \cup {p},
                 PoolOf[q] = i, PoolOf[x] = i, s[q] = s[x]
          PROVE  q = x
      <4>1. CASE q \in F /\ x \in F
        BY <3>3, <3>7, <4>1
      <4>2. CASE q \in F /\ x = p
        BY <1>3, <3>3, <3>5, <3>7, <4>2
      <4>3. CASE q = p /\ x \in F
        BY <1>3, <3>3, <3>5, <3>7, <4>3
      <4> QED
        BY <4>1, <4>2, <4>3
    <3> QED
      BY <1>3, <3>1, <3>6, <3>7
  <2> QED
    BY <2>1, <2>2
<1> QED
  BY <1>2, <1>5, Zenon

(* Replacing a head by its link, as the CAS of allocate() does, takes       *)
(* exactly the first page off its list.                                    *)
LEMMA ListsPop ==
  ASSUME NEW h \in [Pools -> Pointer], NEW n \in [Page -> Pointer],
         NEW F \in SUBSET Page, NEW r \in [Page -> Nat], NEW j \in Pools,
         Lists(h, n, F, r),
         h[j] # Null
  PROVE  Lists([h EXCEPT ![j] = n[h[j]]], n, F \ {h[j]}, r)
<1> DEFINE p == h[j]
           g == [h EXCEPT ![j] = n[p]]
<1>1. /\ p \in F /\ PoolOf[p] = j /\ r[p] \in Nat
      /\ g[j] = n[p] /\ \A i \in Pools : i # j => g[i] = h[i]
  BY DEF Lists
<1>2. \A q \in F \ {p} : PoolOf[q] = j => r[q] < r[p] /\ n[q] # p
  BY <1>1 DEF Lists
<1>3. \A q \in F : PoolOf[q] # j => n[q] # p
  BY <1>1 DEF Lists
<1> HIDE DEF p, g
<1>4. Lists(g, n, F \ {p}, r)
  <2> SUFFICES ASSUME NEW i \in Pools
               PROVE /\ g[i] = Null => \A q \in F \ {p} : PoolOf[q] # i
                     /\ g[i] # Null => g[i] \in F \ {p} /\ PoolOf[g[i]] = i
                     /\ \A q \in F \ {p} : PoolOf[q] = i =>
                          /\ 1 <= r[q] /\ r[q] <= r[g[i]]
                          /\ n[q] = Null => r[q] = 1
                          /\ n[q] # Null => /\ n[q] \in F \ {p}
                                            /\ PoolOf[n[q]] = i
                                            /\ r[q] = r[n[q]] + 1
                          /\ \A x \in F \ {p} :
                               PoolOf[x] = i /\ r[q] = r[x] => q = x
    BY DEF Lists
  <2>1. CASE i # j
    BY <1>1, <1>3, <2>1 DEF Lists, p
  <2>2. CASE i = j
    <3>1. CASE n[p] = Null
      <4>1. r[p] = 1
        BY <1>1, <3>1 DEF Lists
      <4>2. \A q \in F \ {p} : PoolOf[q] # i
        BY <1>1, <1>2, <2>2, <4>1 DEF Lists
      <4> QED
        BY <1>1, <2>2, <3>1, <4>2
    <3>2. CASE n[p] # Null
      <4>1. /\ n[p] \in F /\ PoolOf[n[p]] = i /\ r[p] = r[n[p]] + 1
            /\ n[p] # p
        BY <1>1, <2>2, <3>2 DEF Lists
      <4>2. \A q \in F \ {p} : PoolOf[q] = i => r[q] <= r[n[p]]
        BY <1>1, <1>2, <2>2, <4>1
      <4>3. ASSUME NEW q \in F \ {p}, PoolOf[q] = i
            PROVE  /\ 1 <= r[q]
                   /\ n[q] = Null => r[q] = 1
                   /\ n[q] # Null => /\ n[q] \in F \ {p} /\ PoolOf[n[q]] = i
                                     /\ r[q] = r[n[q]] + 1
                   /\ \A x \in F \ {p} : PoolOf[x] = i /\ r[q] = r[x] => q = x
        BY <1>2, <2>2, <4>3 DEF Lists
      <4>4. g[i] = n[p]
        BY <1>1, <2>2
      <4> QED
        BY <3>2, <4>1, <4>2, <4>3, <4>4
    <3> QED
      BY <3>1, <3>2
  <2> QED
    BY <2>1, <2>2
<1> QED
  BY <1>4 DEF p, g
=============================================================================
