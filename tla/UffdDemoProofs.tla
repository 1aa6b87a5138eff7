--------------------------- MODULE UffdDemoProofs ---------------------------
(***************************************************************************)
(* Proofs about UffdDemo for every number of pages, buffers and letters:   *)
(* the demo implements DemandPaging, its handler waits for itself only     *)
(* where a fault got no page table, there are buffers enough for the       *)
(* pages, and every page shows a letter of its own.  The inductive         *)
(* invariant says that main meets the pages in order, so that fault_cnt    *)
(* follows its position and page p gets buffer p.                          *)
(***************************************************************************)
EXTENDS UffdDemo, TLAPS

Serving == {"fill", "update", "probe", "wake", "stuck"}
Letter(n) == (n + 1) % Letters

Shape ==
  /\ pages \in 0 .. MaxPages /\ l \in Nat /\ l <= pages * ReadsPerPage
  /\ mpc \in {"setup", "read", "fault"}
  /\ mpc = "fault" => l < pages * ReadsPerPage
  /\ hpc \in {"none", "init", "poll"} \cup Serving
  /\ mpc = "setup" => hpc = "none"
  /\ hpc = "stuck" => Running
  /\ fault_cnt \in 0 .. BUFPOOLSIZE
  /\ bufpool \in [Buffer -> Int] /\ pte \in [Page -> Int]
  /\ got \in [Page -> SUBSET Int]

(* The buffers that were filled have their letters (lines 116-117), and    *)
(* main has read no others.                                                *)
Filled ==
  /\ \A b \in Buffer : b < fault_cnt => bufpool[b] = Letter(b)
  /\ \A p \in Page : got[p] \subseteq {Letter(p)}

(* Pages are supplied in order, the handler works for the page main waits  *)
(* for, and the counter is one ahead of it once the buffer is filled.  A   *)
(* page whose fault got no page table is the last one main comes to.       *)
Supplied(p) ==
  p < fault_cnt /\ ~(p = Here /\ (hpc = "update" \/ Here \notin table))
Order ==
  Running =>
    /\ fault_cnt \in {Here, Here + 1}
    /\ hpc \in Serving => mpc = "fault" /\ msg = Here
    /\ mpc = "fault" => (fault_cnt = Here + 1 <=> hpc \in Serving \ {"fill"})
    /\ hpc = "wake" \/ (fault_cnt = Here + 1 /\ mpc # "fault") => Here \in table
    /\ hpc = "stuck" => Here \notin table
    /\ \A p \in Page : pte[p] = IF Supplied(p) THEN p ELSE None

IInv == Shape /\ Filled /\ Order /\ EnoughBuffers

-----------------------------------------------------------------------------
(* A read below the end of the region is in one of its pages (line 229).   *)
LEMMA HereType ==
  ASSUME NEW n \in Nat, NEW k \in Nat, k < n * ReadsPerPage
  PROVE  k \div ReadsPerPage \in 0 .. n - 1
BY SizeAssumption, SMTT(30)

(* Where main is before the end is a page of the region.                   *)
LEMMA HereInRegion ==
  ASSUME Shape, l < pages * ReadsPerPage
  PROVE  Here \in Page /\ Here \in Nat /\ Here < pages
<1>1. pages \in Nat /\ pages <= MaxPages /\ l \in Nat /\ MaxPages \in Nat
  BY SizeAssumption DEF Shape
<1>2. Here \in 0 .. pages - 1
  BY <1>1, HereType DEF Here
<1> QED
  BY <1>1, <1>2 DEF Page

(* The next read is in the same page or in the next one (line 236).        *)
LEMMA HereStep ==
  ASSUME NEW k \in Nat
  PROVE  /\ k \div ReadsPerPage \in Nat
         /\ (k + 1) \div ReadsPerPage
              \in {k \div ReadsPerPage, k \div ReadsPerPage + 1}
BY SizeAssumption, SMTT(30)

(* A remainder is determined by any quotient.                              *)
LEMMA ModUnique ==
  ASSUME NEW x \in Int, NEW m \in Int, m > 0,
         NEW q \in Int, NEW r \in 0 .. m - 1, x = m * q + r
  PROVE  x % m = r
BY SMTT(30)

(* Consecutive numbers have different remainders.                          *)
LEMMA ModStep ==
  ASSUME NEW x \in Nat, NEW m \in Nat, m > 1
  PROVE  x % m \in Int /\ x % m # (x + 1) % m
<1> DEFINE q == x \div m
           r == x - m * q
<1>1. q \in Int /\ m * q <= x /\ x < m * q + m /\ m * q \in Int
  BY SMTT(30)
<1>2. q \in Int /\ r \in 0 .. m - 1 /\ x = m * q + r
  BY <1>1
<1> HIDE DEF q, r
<1>3. x % m = r
  BY <1>2, ModUnique
<1>4. CASE r + 1 < m
  <2>1. r + 1 \in 0 .. m - 1 /\ x + 1 = m * q + (r + 1)
    BY <1>2, <1>4
  <2>2. (x + 1) % m = r + 1
    BY <1>2, <2>1, ModUnique
  <2> QED
    BY <1>2, <1>3, <2>2
<1>5. CASE r = m - 1
  <2>1. /\ x + 1 = m * (q + 1) + 0 /\ q + 1 \in Int
        /\ 0 \in 0 .. m - 1 /\ x + 1 \in Int /\ m \in Int /\ m > 0
    BY <1>2, <1>5
  <2>2. (x + 1) % m = 0
    BY <2>1, ModUnique, Zenon
  <2> QED
    BY <1>2, <1>3, <1>5, <2>2
<1> QED
  BY <1>2, <1>4, <1>5

(* Neighbouring buffers have different letters (line 117).                 *)
LEMMA LettersDiffer ==
  ASSUME NEW n \in Nat
  PROVE  Letter(n) \in Int /\ Letter(n) # Letter(n + 1)
<1>1. n + 1 \in Nat /\ Letters \in Nat /\ Letters > 1
  BY SizeAssumption
<1> QED
  BY <1>1, ModStep DEF Letter

(* The program starts with every page missing.                             *)
LEMMA InitIInv == Init => IInv /\ Paging!Init
<1> SUFFICES ASSUME Init PROVE IInv /\ Paging!Init
  OBVIOUS
<1>1. Here = 0
  BY SizeAssumption, SMTT(30) DEF Init, Here
<1>2. Shape
  BY SizeAssumption DEF Init, Shape, Serving, Running, Buffer, Page, None
<1>3. Filled /\ EnoughBuffers /\ Order
  BY <1>1, SizeAssumption
  DEF Init, Filled, Order, Supplied, EnoughBuffers, Serving, Buffer, Page, None
<1> QED
  BY <1>2, <1>3 DEF IInv, Init, Paging!Init, Mapped

(* Main reads a page that is there, or faults on the first missing one     *)
(* (line 230).                                                             *)
LEMMA ReadStep == ASSUME IInv, Read PROVE IInv' /\ pte' = pte
<1>1. Here \in Page /\ Here \in Nat /\ Here < pages
  BY HereInRegion DEF IInv, Read
<1>2. hpc \notin Serving
  BY DEF IInv, Order, Read, Main
<1>3. CASE Present(Here)
  <2>1. fault_cnt = Here + 1 /\ pte[Here] = Here /\ Here \in Buffer
    <3>1. Here < fault_cnt /\ pte[Here] = Here
      BY <1>1, <1>3 DEF IInv, Order, Supplied, Read, Main, Present
    <3>2. fault_cnt = Here + 1
      BY <1>1, <3>1 DEF IInv, Order, Read, Main
    <3> QED
      BY <1>1, <3>1, <3>2, SizeAssumption DEF IInv, Shape, Buffer
  <2>2. bufpool[pte[Here]] = Letter(Here) /\ Letter(Here) \in Int
    BY <1>1, <2>1, LettersDiffer DEF IInv, Filled
  <2>3. l' = l + 1 /\ Here' \in {Here, Here + 1} /\ mpc' = "read"
    BY <1>3, HereStep DEF Read, Main, Here, IInv, Shape
  <2>4. got' = [got EXCEPT ![Here] = @ \cup {Letter(Here)}]
    BY <1>3, <2>2 DEF Read
  <2>5. l' \in Nat /\ l' <= pages * ReadsPerPage
    BY <2>3, SizeAssumption DEF Read, IInv, Shape
  <2>6. got' \in [Page -> SUBSET Int]
    BY <2>2, <2>4 DEF IInv, Shape
  <2>7. Shape'
    BY <2>3, <2>5, <2>6 DEF Read, Main, IInv, Shape, Running
  <2>8. Filled'
    BY <2>4 DEF Read, IInv, Filled, Shape
  <2>9. Order'
    <3>1. UNCHANGED <<ended, hpc, fault_cnt, msg, table, pte>> /\ Running
      BY <1>3 DEF Read, Main
    <3>2. Here \in table /\ hpc # "update"
      BY <1>2, <2>1 DEF IInv, Order, Read, Main, Serving
    <3>3. \A p \in Page : Supplied(p)' <=> Supplied(p)
      BY <1>1, <2>1, <2>3, <3>1, <3>2 DEF Supplied, Page
    <3> QED
      <4>1. \A p \in Page : pte'[p] = IF Supplied(p)' THEN p ELSE None
        BY <3>1, <3>3 DEF IInv, Order
      <4>2. fault_cnt' \in {Here', Here' + 1} /\ (fault_cnt' = Here' + 1 => Here' = Here)
        <5>1. fault_cnt' = Here + 1 /\ Here \in Nat
          BY <1>1, <2>1, <3>1
        <5>2. CASE Here' = Here
          BY <5>1, <5>2
        <5>3. CASE Here' = Here + 1
          BY <5>1, <5>3
        <5> QED
          BY <2>3, <5>2, <5>3
      <4> QED
        BY <1>2, <2>3, <3>1, <3>2, <4>1, <4>2 DEF Order, Serving
  <2> QED
    BY <2>7, <2>8, <2>9 DEF Read, IInv, EnoughBuffers
<1>4. CASE ~Present(Here)
  <2>1. fault_cnt = Here
    BY <1>1, <1>2, <1>4
    DEF IInv, Order, Supplied, Shape, Present, Read, Main, Serving, None
  <2>2. l' = l /\ Here' = Here /\ mpc' = "fault" /\ got' = got
    BY <1>4 DEF Read, Main, Here
  <2>3. Shape'
    BY <2>2 DEF Read, Main, IInv, Shape, Running
  <2>4. Order'
    <3>1. UNCHANGED <<ended, hpc, fault_cnt, msg, pte>> /\ Running
      BY <1>4 DEF Read, Main
    <3>2. \A p \in Page : Supplied(p)' <=> Supplied(p)
      <4>1. \A p \in Page : p < Here => p # Here
        BY <1>1 DEF Page
      <4> QED
        BY <2>1, <2>2, <3>1, <4>1 DEF Supplied
    <3> QED
      BY <1>1, <1>2, <2>1, <2>2, <3>1, <3>2 DEF IInv, Order, Running, Serving
  <2> QED
    BY <2>2, <2>3, <2>4 DEF Read, IInv, Filled, EnoughBuffers
<1> QED
  BY <1>3, <1>4 DEF Read

(* A buffer is filled for the page main waits for (lines 115-117).         *)
LEMMA FillStep == ASSUME IInv, Fill PROVE IInv' /\ pte' = pte
<1>1. /\ Running /\ hpc = "fill" /\ hpc' = "update" /\ mpc = "fault" /\ mpc' = mpc
      /\ l' = l /\ Here' = Here /\ pages' = pages /\ got' = got /\ msg' = msg
      /\ pte' = pte /\ table' = table
  BY DEF IInv, Order, Fill, FillBuffer, Handler, Serving, Here
<1>2. Here \in Page /\ Here \in Nat /\ Here < pages
  BY <1>1, HereInRegion DEF IInv, Shape
<1>3. fault_cnt = Here /\ msg = Here
  BY <1>1, <1>2 DEF IInv, Order, Serving
<1>4. CASE fault_cnt < BUFPOOLSIZE
  <2>1. /\ fault_cnt' = fault_cnt + 1 /\ ended' = ended
        /\ bufpool' = [bufpool EXCEPT ![fault_cnt] = Letter(fault_cnt)]
    BY <1>4 DEF Fill, FillBuffer, Letter
  <2>2. Letter(fault_cnt) \in Int
    BY <1>2, <1>3, LettersDiffer
  <2>3. Shape'
    <3>1. fault_cnt' \in 0 .. BUFPOOLSIZE
      BY <1>4, <2>1, SizeAssumption DEF IInv, Shape
    <3>2. bufpool' \in [Buffer -> Int]
      BY <2>1, <2>2 DEF IInv, Shape
    <3> QED
      BY <1>1, <3>1, <3>2 DEF IInv, Shape, Serving
  <2>4. Filled'
    BY <1>1, <1>4, <2>1 DEF IInv, Shape, Filled, Buffer
  <2>5. Order'
    BY <1>1, <1>2, <1>3, <2>1
    DEF IInv, Order, Supplied, Running, Serving, Page
  <2> QED
    BY <1>1, <2>1, <2>3, <2>4, <2>5 DEF IInv, EnoughBuffers
<1>5. CASE ~(fault_cnt < BUFPOOLSIZE)
  <2>1. fault_cnt' = fault_cnt /\ ended' = "assert" /\ bufpool' = bufpool
    BY <1>5 DEF Fill, FillBuffer
  <2>2. pages > BUFPOOLSIZE
    BY <1>2, <1>3, <1>5, SizeAssumption DEF IInv, Shape
  <2>3. Shape' /\ Filled' /\ EnoughBuffers'
    BY <1>1, <2>1, <2>2 DEF IInv, Shape, Filled, EnoughBuffers, Serving
  <2>4. Order'
    BY <2>1 DEF Order, Running
  <2> QED
    BY <1>1, <2>3, <2>4 DEF IInv
<1> QED
  BY <1>4, <1>5

(* The entry of the missing page gets the frame of a buffer that no other  *)
(* page shows (lines 120-140), or there is no table for it.                *)
LEMMA UpdateStep ==
  ASSUME IInv, Update PROVE IInv' /\ [Paging!Next]_<<pte, Mapped>>
<1>1. /\ Running /\ hpc = "update" /\ hpc' = "probe" /\ mpc = "fault" /\ mpc' = mpc
      /\ l' = l /\ Here' = Here /\ pages' = pages /\ got' = got /\ msg' = msg
      /\ fault_cnt' = fault_cnt /\ bufpool' = bufpool /\ ended' = ended
      /\ table' = table
      /\ pte' = IF msg \in table THEN [pte EXCEPT ![msg] = fault_cnt - 1] ELSE pte
  BY DEF IInv, Order, Update, UpdateEntry, Handler, Serving, Here
<1>2. Here \in Page /\ Here \in Nat /\ Here < pages
  BY <1>1, HereInRegion DEF IInv, Shape
<1>3. fault_cnt = Here + 1 /\ msg = Here
  BY <1>1 DEF IInv, Order, Serving
<1>4. /\ pte' = IF Here \in table THEN [pte EXCEPT ![Here] = Here] ELSE pte
      /\ pte[Here] = None
      /\ \A q \in Page : pte[q] # Here
  BY <1>1, <1>2, <1>3 DEF IInv, Order, Supplied, Shape, Page, None
<1>5. Here \in Buffer
  BY <1>2, <1>3, SizeAssumption DEF IInv, Shape, Buffer
<1>6. Mapped' = Mapped /\ Here \in Mapped
  BY <1>1, <1>2 DEF Mapped, IInv, Shape
<1>7. [Paging!Next]_<<pte, Mapped>>
  BY <1>2, <1>4, <1>5, <1>6 DEF Paging!Next, Paging!Supply
<1>8. Shape' /\ Filled' /\ EnoughBuffers'
  <2>1. pte' \in [Page -> Int]
    BY <1>2, <1>4 DEF IInv, Shape
  <2> QED
    BY <1>1, <2>1 DEF IInv, Shape, Filled, EnoughBuffers, Serving, Running
<1>9. Order'
  BY <1>1, <1>2, <1>3, <1>4
  DEF IInv, Order, Supplied, Shape, Running, Serving, Page
<1> QED
  BY <1>7, <1>8, <1>9 DEF IInv

(* The steps that touch neither a buffer nor an entry.                     *)
LEMMA OtherSteps ==
  ASSUME IInv, Setup \/ Exit \/ HandlerInit \/ ReadEvent \/ NoUmem \/ Probe \/ Wake
  PROVE  IInv' /\ pte' = pte
<1>0. l' = l /\ Here' = Here
  BY DEF Setup, Exit, HandlerInit, ReadEvent, NoUmem, Probe, Wake, WakePage, Here
<1>1. CASE Setup
  BY <1>0, <1>1 DEF Setup, Main, IInv, Shape, Filled, Order, Supplied, EnoughBuffers,
     Running, Serving
<1>2. CASE Exit
  BY <1>0, <1>2 DEF Exit, Main, IInv, Shape, Filled, Order, Supplied, EnoughBuffers,
     Running, Serving
<1>3. CASE HandlerInit
  BY <1>0, <1>3 DEF HandlerInit, Handler, IInv, Shape, Filled, Order, Supplied, EnoughBuffers,
     Running, Serving
<1>4. CASE ReadEvent
  BY <1>0, <1>4 DEF ReadEvent, Handler, IInv, Shape, Filled, Order, Supplied, EnoughBuffers,
     Running, Serving
<1>5. CASE Probe
  <2>1. Running /\ mpc = "fault" /\ hpc = "probe" /\ msg = Here
    BY <1>5 DEF Probe, Handler, IInv, Order, Serving
  <2>2. fault_cnt = Here + 1 /\ (Present(msg) <=> Here \in table)
    <3>1. Here \in Page /\ Here \in Nat
      BY <2>1, HereInRegion DEF IInv, Shape
    <3> QED
      BY <2>1, <3>1 DEF IInv, Order, Supplied, Serving, Present, None
  <2> QED
    BY <1>0, <1>5, <2>1, <2>2
    DEF Probe, Handler, IInv, Shape, Filled, Order, Supplied, EnoughBuffers,
        Running, Serving
<1>6. CASE Wake
  <2>1. /\ Running /\ Running' /\ hpc = "wake" /\ hpc' = "poll" /\ mpc = "fault"
        /\ mpc' = "read" /\ msg = Here
        /\ UNCHANGED <<ended, pages, l, got, fault_cnt, bufpool, table, pte>>
    BY <1>6 DEF Wake, WakePage, Handler, IInv, Order, Running, Serving
  <2>2. Shape' /\ Filled' /\ EnoughBuffers'
    BY <2>1 DEF IInv, Shape, Filled, EnoughBuffers
  <2>3. \A p \in Page : Supplied(p)' <=> Supplied(p)
    BY <1>0, <2>1 DEF Supplied
  <2>4. Order'
    <3>1. \A p \in Page : pte'[p] = IF Supplied(p)' THEN p ELSE None
      BY <2>1, <2>3 DEF IInv, Order
    <3>2. fault_cnt = Here + 1 /\ Here \in table
      BY <2>1 DEF IInv, Order, Serving
    <3> QED
      BY <1>0, <2>1, <3>1, <3>2 DEF Order, Serving
  <2> QED
    BY <2>1, <2>2, <2>4 DEF IInv
<1>7. CASE NoUmem
  BY <1>0, <1>7 DEF NoUmem, Handler, IInv, Shape, Filled, Order, Supplied, EnoughBuffers,
     Running, Serving
<1> QED
  BY <1>1, <1>2, <1>3, <1>4, <1>5, <1>6, <1>7

-----------------------------------------------------------------------------
(* The mapping is made once, in Setup, and stays.                          *)
LEMMA MappedStep ==
  ASSUME IInv, Next
  PROVE  \/ Setup /\ Mapped = {} /\ Mapped' \in SUBSET Page
         \/ Mapped' = Mapped
<1>1. CASE Setup
  <2>1. hpc = "none" /\ pages' = pages /\ pages \in 0 .. MaxPages
    BY <1>1 DEF Setup, Main, IInv, Shape
  <2> QED
    BY <1>1, <2>1, SizeAssumption DEF Mapped, Page
<1>2. CASE ~Setup
  <2>1. pages' = pages /\ (hpc' = "none" <=> hpc = "none")
    BY <1>2 DEF Next, MainNext, HandlerNext, Ended, vars, Read, Exit, HandlerInit,
       ReadEvent, Fill, FillBuffer, Update, UpdateEntry, NoUmem, Probe, Wake,
       WakePage, Handler
  <2> QED
    BY <2>1 DEF Mapped
<1> QED
  BY <1>1, <1>2

(* Every step keeps the invariant and is a step of demand paging.          *)
LEMMA NextStep == IInv /\ [Next]_vars => IInv' /\ [Paging!Next]_<<pte, Mapped>>
<1> SUFFICES ASSUME IInv, [Next]_vars
             PROVE  IInv' /\ [Paging!Next]_<<pte, Mapped>>
  OBVIOUS
<1>1. CASE UNCHANGED vars
  <2>1. IInv' /\ pte' = pte
    BY <1>1 DEF vars, IInv, Shape, Filled, Order, Supplied, EnoughBuffers,
       Running, Here
  <2> QED
    BY <1>1, <2>1 DEF vars, Mapped
<1>2. CASE Update
  BY <1>2, UpdateStep
<1>3. CASE Next /\ ~Update
  <2>1. IInv' /\ pte' = pte
    BY <1>1, <1>3, ReadStep, FillStep, OtherSteps
    DEF Next, MainNext, HandlerNext, Ended, vars
  <2>2. CASE Mapped' = Mapped
    BY <2>1, <2>2
  <2>3. CASE Mapped = {} /\ Mapped' \in SUBSET Page
    BY <2>1, <2>3 DEF Paging!Next, Paging!Map
  <2> QED
    BY <1>3, <2>1, <2>2, <2>3, MappedStep
<1> QED
  BY <1>1, <1>2, <1>3

(* The invariant holds throughout.                                         *)
LEMMA Invariance == Spec => []IInv
BY InitIInv, NextStep, PTL DEF Spec

(* The handler's own read of the page (line 151) hangs the program only    *)
(* when the fault got no page table, so that line 140 wrote nothing; in    *)
(* every other case the entry is in force before the read.                 *)
THEOREM HandlerIsServed == Spec => []HandlerServesItself
<1>1. IInv => HandlerServesItself
  BY DEF IInv, Shape, Order, Serving, HandlerServesItself
<1> QED
  BY <1>1, Invariance, PTL

(* However many pages: the assertion of line 115 fails only when there are *)
(* more pages than buffers.                                                *)
THEOREM BuffersSuffice == Spec => []EnoughBuffers
<1>1. IInv => EnoughBuffers
  BY DEF IInv
<1> QED
  BY <1>1, Invariance, PTL

(* Each page shows one letter, and not the letter of its neighbour.        *)
THEOREM FaultsHandledSeparately == Spec => []HandledSeparately
<1>1. IInv => HandledSeparately
  <2> SUFFICES ASSUME IInv PROVE HandledSeparately
    OBVIOUS
  <2>1. \A p \in Page : got[p] \subseteq {Letter(p)}
    BY DEF IInv, Filled
  <2>2. \A p \in Page : Letter(p) # Letter(p + 1)
    BY LettersDiffer, SizeAssumption DEF Page
  <2> QED
    BY <2>1, <2>2 DEF HandledSeparately
<1> QED
  BY <1>1, Invariance, PTL

(* The demo is demand paging: a missing page of the region gets a frame of *)
(* its own, and as the mapping is never removed it keeps the frame; no     *)
(* page outside the region shows one.                                      *)
THEOREM ImplementsDemandPaging == Spec => PagingSpec
<1>1. Init => Paging!Init
  BY InitIInv
<1>2. IInv /\ [Next]_vars => [Paging!Next]_<<pte, Mapped>>
  BY NextStep
<1> QED
  BY <1>1, <1>2, Invariance, PTL DEF Spec, PagingSpec, Paging!Spec
=============================================================================
