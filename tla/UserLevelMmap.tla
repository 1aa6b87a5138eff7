--------------------------- MODULE UserLevelMmap ---------------------------
(***************************************************************************)
(* ul_mmap, ul_munmap and page_fault_handler of src/user_level_mmap.cc:    *)
(* regions whose missing pages are supplied by one handler thread each,    *)
(* which writes the page-table entries itself through PTEditor.            *)
(*                                                                         *)
(* Memory is measured in cells, two to a page.  The heap is one row of     *)
(* cells, frame f being cells 2f and 2f+1; malloc takes the next page-     *)
(* sized block and places it MallocOffset cells into a frame.  The kernel  *)
(* side (page faults, userfaultfd, munmap) is external and modelled from   *)
(* how the code uses it.                                                   *)
(***************************************************************************)
EXTENDS Integers, FiniteSets

CONSTANTS
  Thread,        \* application threads
  Region,        \* the regions they create, each by one call of ul_mmap
  Base,          \* region -> page number of its first page
  Length,        \* region -> the length argument, in cells
  FileCells,     \* region -> cells of its file, 0 for an anonymous region
  Offset,        \* region -> the offset argument, in cells
  Writable,      \* regions created with PROT_WRITE
  Failures,      \* what may fail: "kernel", calls of ul_mmap; "umem", /proc/umem
  NoTable,       \* pages that fault without getting a page table (huge pages)
  Touches,       \* <<t, v>>: thread t accesses page v
  Writes,        \* regions that are written
  Unmaps,        \* regions that are passed to ul_munmap
  MallocOffset,  \* cells between a frame boundary and a malloc block
  MaxBlocks,     \* page-sized blocks the heap can supply
  Letters,       \* fill patterns of an anonymous page (26)
  Nobody         \* no thread

CellsPerPage == 2
PagesOf(r) == Base[r] .. Base[r] + (Length[r] + 1) \div CellsPerPage - 1
Vpn == UNION {PagesOf(r) : r \in Region}
RegionOf(v) == CHOOSE r \in Region : v \in PagesOf(r)
Cells == 0 .. CellsPerPage * MaxBlocks
NoPage == -1

ASSUME RegionAssumption ==
  /\ Base \in [Region -> Nat]
  /\ Length \in [Region -> Nat]
  /\ FileCells \in [Region -> Nat]
  /\ Offset \in [Region -> Nat]
  /\ \A r, s \in Region : r # s => PagesOf(r) \cap PagesOf(s) = {}
ASSUME ClientAssumption == /\ Touches \subseteq Thread \X Vpn
                           /\ Nobody \notin Thread
ASSUME HeapAssumption == /\ MallocOffset \in 0 .. CellsPerPage - 1
                         /\ MaxBlocks \in Nat
                         /\ Letters \in Nat \ {0}

VARIABLES
  ended,               \* "no", or where the process was made to end
  pteditor_init_flag,  \* static of ul_mmap
  device_busy,         \* of the PTEditor kernel module
  umem,                \* ptedit_umem: /proc/umem could be opened
  mmap_regions_mu,     \* the thread that has the mutex
  mmap_regions,        \* keys of the map
  vma,                 \* regions the kernel has a mapping for
  hpc,                 \* region -> where its handler thread is
  msg,                 \* static of page_fault_handler: the fault address
  given_page,          \* region -> block its handler works on
  fault_cnt,           \* region -> counter
  blocks,              \* page-sized blocks handed out by malloc
  heap,                \* cell -> contents
  pte,                 \* page -> frame, or NoPage when not present
  apc,                 \* application thread -> where it is
  job,                 \* application thread -> region of its call
  addr,                \* application thread -> page it accesses
  writing,             \* application thread -> its access is a write
  seen,                \* application thread -> its fault has been read
  started,             \* regions for which ul_mmap was called
  closed,              \* regions for which ul_munmap was called
  written              \* pages that were written since they were mapped

process == <<ended, pteditor_init_flag, device_busy, umem>>
table == <<mmap_regions_mu, mmap_regions, vma, started, closed>>
handlers == <<hpc, msg, given_page, fault_cnt, blocks>>
memory == <<heap, pte, written>>
apps == <<apc, job, addr, writing, seen>>
vars == <<process, table, handlers, memory, apps>>

Running == ended = "no"
May(f) == IF f \in Failures THEN BOOLEAN ELSE {TRUE}
Blank == <<"heap", 0>>
Mine == <<"app", 0>>
Present(v) == pte[v] # NoPage
CellOf(v, c) == heap[CellsPerPage * pte[v] + c]

Init ==
  /\ ended = "no" /\ pteditor_init_flag = FALSE /\ device_busy = FALSE
  /\ umem = FALSE
  /\ mmap_regions_mu = Nobody /\ mmap_regions = {} /\ vma = {}
  /\ started = {} /\ closed = {}
  /\ hpc = [r \in Region |-> "none"]
  /\ msg = NoPage
  /\ given_page = [r \in Region |-> 0]
  /\ fault_cnt = [r \in Region |-> 0]
  /\ blocks = 0
  /\ heap = [c \in Cells |-> Blank]
  /\ pte = [v \in Vpn |-> NoPage]
  /\ written = {}
  /\ apc = [t \in Thread |-> "idle"]
  /\ job = [t \in Thread |-> CHOOSE r \in Region : TRUE]
  /\ addr = [t \in Thread |-> NoPage]
  /\ writing = [t \in Thread |-> FALSE]
  /\ seen = [t \in Thread |-> FALSE]

-----------------------------------------------------------------------------
(* ul_mmap                                                                  *)
Step(t, from, to) ==
  /\ Running
  /\ apc[t] = from
  /\ apc' = [apc EXCEPT ![t] = to]
Exit(where) == ended' = where

MmapCall(t, r) ==
  /\ r \notin started
  /\ Step(t, "idle", IF pteditor_init_flag THEN "mmap" ELSE "open")
  /\ started' = started \cup {r}
  /\ job' = [job EXCEPT ![t] = r]
  /\ UNCHANGED <<process, mmap_regions_mu, mmap_regions, vma, closed, handlers,
                 memory, addr, writing, seen>>

\* ptedit_init(): device_open() refuses a second opener, and misc_open()
\* of the kernel serialises the openers.  Whether /proc/umem could be
\* opened is not looked at.
PteditInit(t) ==
  /\ Step(t, "open", "flag")
  /\ IF device_busy THEN Exit("ul_mmap") /\ UNCHANGED <<device_busy, umem>>
                    ELSE /\ device_busy' = TRUE /\ UNCHANGED ended
                         /\ umem' \in May("umem")
  /\ UNCHANGED <<pteditor_init_flag, table, handlers, memory, job, addr,
                 writing, seen>>

SetInitFlag(t) ==
  /\ Step(t, "flag", "mmap")
  /\ pteditor_init_flag' = TRUE
  /\ UNCHANGED <<ended, device_busy, umem, table, handlers, memory, job, addr,
                 writing, seen>>

\* mmap, which wants an offset in whole pages, userfaultfd, UFFDIO_API,
\* UFFDIO_REGISTER, which wants a length in whole pages, and dup.
Register(t) ==
  LET r == job[t]
  IN /\ Step(t, "mmap", "start")
     /\ \E granted \in May("kernel") :
          IF granted /\ Length[r] % CellsPerPage = 0 /\ Offset[r] % CellsPerPage = 0
          THEN vma' = vma \cup {r} /\ UNCHANGED ended
          ELSE Exit("ul_mmap") /\ UNCHANGED vma
     /\ UNCHANGED <<pteditor_init_flag, device_busy, umem, mmap_regions_mu,
                    mmap_regions, started, closed, handlers, memory, job,
                    addr, writing, seen>>

StartHandler(t) ==
  /\ Step(t, "start", "insert")
  /\ hpc' = [hpc EXCEPT ![job[t]] = "poll"]
  /\ UNCHANGED <<process, table, msg, given_page, fault_cnt, blocks, memory,
                 job, addr, writing, seen>>

Insert(t) ==
  /\ Step(t, "insert", "idle")
  /\ mmap_regions_mu = Nobody
  /\ mmap_regions' = mmap_regions \cup {job[t]}
  /\ UNCHANGED <<process, mmap_regions_mu, vma, started, closed, handlers,
                 memory, job, addr, writing, seen>>

-----------------------------------------------------------------------------
(* Accesses of the application to a region that ul_mmap has returned and   *)
(* that nobody has passed to ul_munmap.  A missing page makes the kernel   *)
(* queue the thread on the region's userfaultfd; it then looks at the      *)
(* entry once more and sleeps only when the page is still missing.         *)
InAccess(t) == apc[t] \in {"access", "fault", "queued", "waiting"}
Queued(t, r) == apc[t] \in {"queued", "waiting"} /\ RegionOf(addr[t]) = r
Pending(r) == {t \in Thread : Queued(t, r) /\ ~seen[t]}

Touch(t, v, w) ==
  /\ <<t, v>> \in Touches
  /\ RegionOf(v) \in mmap_regions \ closed
  /\ w => RegionOf(v) \in Writes
  /\ Step(t, "idle", "access")
  /\ addr' = [addr EXCEPT ![t] = v]
  /\ writing' = [writing EXCEPT ![t] = w]
  /\ UNCHANGED <<process, table, handlers, memory, job, seen>>

Access(t) ==
  LET v == addr[t]
      allowed == /\ RegionOf(v) \in vma
                 /\ writing[t] => RegionOf(v) \in Writable
  IN /\ Step(t, "access", IF Present(v) THEN "idle" ELSE "fault")
     /\ IF Present(v) /\ writing[t]
        THEN /\ heap' = [c \in Cells |-> IF c \div CellsPerPage = pte[v]
                                         THEN Mine ELSE heap[c]]
             /\ written' = written \cup {v}
        ELSE UNCHANGED <<heap, written>>
     /\ IF Present(v) \/ allowed THEN UNCHANGED ended ELSE Exit("segv")
     /\ UNCHANGED <<pteditor_init_flag, device_busy, umem, table, handlers, pte,
                    job, addr, writing, seen>>

Enqueue(t) ==
  /\ Step(t, "fault", "queued")
  /\ seen' = [seen EXCEPT ![t] = FALSE]
  /\ UNCHANGED <<process, table, handlers, memory, job, addr, writing>>

Block(t) ==
  /\ Step(t, "queued", IF Present(addr[t]) THEN "access" ELSE "waiting")
  /\ UNCHANGED <<process, table, handlers, memory, job, addr, writing, seen>>

-----------------------------------------------------------------------------
(* page_fault_handler: msg is read anew by every step that uses it.        *)
HandlerStep(r, from, to) ==
  /\ Running
  /\ hpc[r] = from
  /\ hpc' = [hpc EXCEPT ![r] = to]

Poll(r) ==
  /\ Pending(r) # {}
  /\ HandlerStep(r, "poll", "read")
  /\ UNCHANGED <<process, table, msg, given_page, fault_cnt, blocks, memory,
                 apps>>

\* The descriptor is non-blocking: without a message read fails.
Read(r) ==
  /\ HandlerStep(r, "read", "fill")
  /\ IF Pending(r) = {}
     THEN Exit("read") /\ UNCHANGED <<msg, seen>>
     ELSE /\ \E t \in Pending(r) : /\ msg' = addr[t]
                                   /\ seen' = [seen EXCEPT ![t] = TRUE]
          /\ UNCHANGED ended
  /\ UNCHANGED <<pteditor_init_flag, device_busy, umem, table, given_page,
                 fault_cnt, blocks, memory, apc, job, addr, writing>>

\* malloc a page and fill it: with a letter, or with the file's bytes from
\* offset + region_offset on, which must be there in full.
FillFrom(r, block, region_offset) ==
  LET p == CellsPerPage * block + MallocOffset
      offset == Offset[r] + CellsPerPage * region_offset
      data(c) == IF FileCells[r] = 0 THEN <<"letter", fault_cnt[r] % Letters>>
                                     ELSE <<r, offset + c>>
      full == \/ FileCells[r] = 0
              \/ 0 <= offset /\ offset + CellsPerPage <= FileCells[r]
  IN /\ HandlerStep(r, "fill", "update")
     /\ IF block < MaxBlocks /\ full
        THEN /\ heap' = [c \in Cells |-> IF c - p \in 0 .. CellsPerPage - 1
                                         THEN data(c - p) ELSE heap[c]]
             /\ blocks' = block + 1
             /\ given_page' = [given_page EXCEPT ![r] = p]
             /\ fault_cnt' = [fault_cnt EXCEPT ![r] = @ + 1]
             /\ UNCHANGED ended
        ELSE Exit("assert") /\ UNCHANGED <<heap, blocks, given_page, fault_cnt>>
     /\ UNCHANGED <<pteditor_init_flag, device_busy, umem, table, msg, pte,
                    written, apps>>
FillFirstPage(r) == FillFrom(r, blocks, 0)                         \* mutant
FillSameBlock(r) == FillFrom(r, 0, msg - Base[r])                  \* mutant
Fill(r) == FillFrom(r, blocks, msg - Base[r])

\* From the frame of given_page to ptedit_update.  The first call of
\* PTEditor is the end of the process when there is no /proc/umem.  The
\* entry is written if there is a page table for it: a page of NoTable has
\* none, and munmap may or may not have freed that of a region.  The entry
\* resolved before gives the written one only bits that are not modelled,
\* so a msg that is overwritten between the two calls makes no difference.
SetPte(r, frame) ==
  LET set == [pte EXCEPT ![msg] = frame]
      table_there == IF msg \in NoTable THEN {FALSE}
                     ELSE IF RegionOf(msg) \in vma THEN {TRUE} ELSE BOOLEAN
  IN /\ HandlerStep(r, "update", "wake")
     /\ \/ /\ umem
           /\ \E there \in table_there : pte' = IF there THEN set ELSE pte
           /\ UNCHANGED ended
        \/ ~umem /\ Exit("segv") /\ UNCHANGED pte
     /\ UNCHANGED <<pteditor_init_flag, device_busy, umem, table, msg,
                    given_page, fault_cnt, blocks, heap, written, apps>>
UpdateUnshifted(r) == SetPte(r, given_page[r])                     \* mutant
Update(r) == SetPte(r, given_page[r] \div CellsPerPage)

\* UFFDIO_WAKE on this handler's userfaultfd.
WakeThreads(r, range, then) ==
  /\ HandlerStep(r, "wake", then)
  /\ apc' = [t \in Thread |-> IF Queued(t, r) /\ addr[t] \in range
                              THEN "access" ELSE apc[t]]
  /\ UNCHANGED <<process, table, msg, given_page, fault_cnt, blocks, memory,
                 job, addr, writing, seen>>
WakeSkipped(r) == WakeThreads(r, {}, "poll")                       \* mutant
WakeThenRefill(r) == WakeThreads(r, {msg}, "fill")                 \* mutant
WakeThenReturn(r) == WakeThreads(r, {msg}, "returned")             \* mutant
Wake(r) == WakeThreads(r, {msg}, "poll")

-----------------------------------------------------------------------------
(* ul_munmap                                                                *)
MunmapCall(t, r) ==
  /\ r \in (Unmaps \cap mmap_regions) \ closed
  /\ \A u \in Thread : InAccess(u) => RegionOf(addr[u]) # r
  /\ Step(t, "idle", "lock")
  /\ job' = [job EXCEPT ![t] = r]
  /\ closed' = closed \cup {r}
  /\ UNCHANGED <<process, mmap_regions_mu, mmap_regions, vma, started,
                 handlers, memory, addr, writing, seen>>

\* An address that is not in the map only prints a message.
Lock(t) ==
  LET found == job[t] \in mmap_regions
  IN /\ mmap_regions_mu = Nobody
     /\ Step(t, "lock", IF found THEN "munmap" ELSE "idle")
     /\ mmap_regions_mu' = IF found THEN t ELSE Nobody
     /\ UNCHANGED <<process, mmap_regions, vma, started, closed, handlers,
                    memory, job, addr, writing, seen>>

\* munmap, UFFDIO_UNREGISTER (without effect: there is no mapping any more)
\* and finish = true, which nobody reads.
Munmap(t) ==
  LET pages == PagesOf(job[t])
  IN /\ Step(t, "munmap", "join")
     /\ vma' = vma \ {job[t]}
     /\ pte' = [v \in Vpn |-> IF v \in pages THEN NoPage ELSE pte[v]]
     /\ written' = written \ pages
     /\ UNCHANGED <<process, mmap_regions_mu, mmap_regions, started, closed,
                    handlers, heap, job, addr, writing, seen>>

\* join() waits for the handler to return, which page_fault_handler never
\* does: this step is part of UnmapSpec only.
Join(t) ==
  /\ hpc[job[t]] = "returned"
  /\ Step(t, "join", "idle")
  /\ mmap_regions_mu' = Nobody
  /\ mmap_regions' = mmap_regions \ {job[t]}
  /\ UNCHANGED <<process, vma, started, closed, handlers, memory, job, addr,
                 writing, seen>>

Ended == ~Running /\ UNCHANGED vars

-----------------------------------------------------------------------------
InMmap(t) == \/ PteditInit(t) \/ SetInitFlag(t) \/ Register(t)
             \/ StartHandler(t) \/ Insert(t)
InFault(t) == Access(t) \/ Enqueue(t) \/ Block(t)
InMunmap(t) == Lock(t) \/ Munmap(t)
Handler(r) == Poll(r) \/ Read(r) \/ Fill(r) \/ Update(r) \/ Wake(r)
Call(t) == \/ \E r \in Region : MmapCall(t, r) \/ MunmapCall(t, r)
           \/ \E v \in Vpn, w \in BOOLEAN : Touch(t, v, w)

Next == \/ \E t \in Thread : Call(t) \/ InMmap(t) \/ InFault(t) \/ InMunmap(t)
        \/ \E r \in Region : Handler(r)
        \/ Ended

Spec == Init /\ [][Next]_vars

\* The scheduler runs every thread that can run; a call is never owed.
Fairness ==
  /\ \A t \in Thread : WF_vars(InMmap(t) \/ InFault(t) \/ InMunmap(t))
  /\ \A r \in Region : WF_vars(Handler(r))
FairSpec == Spec /\ Fairness
UnmapSpec == /\ Init /\ [][Next \/ \E t \in Thread : Join(t)]_vars
             /\ Fairness
             /\ \A t \in Thread : WF_vars(Join(t))

-----------------------------------------------------------------------------
(* Type invariant; in particular given_page and the entries stay within    *)
(* the heap, and the map holds only regions that ul_mmap was called for.   *)
TypeOK ==
  /\ ended \in {"no", "ul_mmap", "read", "assert", "segv"}
  /\ pteditor_init_flag \in BOOLEAN /\ device_busy \in BOOLEAN
  /\ umem \in BOOLEAN
  /\ mmap_regions_mu \in Thread \cup {Nobody}
  /\ closed \subseteq mmap_regions /\ mmap_regions \subseteq started
  /\ started \subseteq Region /\ vma \subseteq started
  /\ hpc \in [Region -> {"none", "poll", "read", "fill", "update", "wake",
                    "returned"}]
  /\ msg \in Vpn \cup {NoPage}
  /\ given_page \in [Region -> Cells]
  /\ fault_cnt \in [Region -> 0 .. MaxBlocks] /\ blocks \in 0 .. MaxBlocks
  /\ DOMAIN heap = Cells
  /\ pte \in [Vpn -> 0 .. MaxBlocks \cup {NoPage}]
  /\ written \subseteq Vpn
  /\ apc \in [Thread -> {"idle", "open", "flag", "mmap", "start", "insert",
                         "access", "fault", "queued", "waiting",
                         "lock", "munmap", "join"}]
  /\ job \in [Thread -> Region]
  /\ addr \in [Thread -> Vpn \cup {NoPage}]
  /\ writing \in [Thread -> BOOLEAN] /\ seen \in [Thread -> BOOLEAN]

(* Copy semantics of a fault (user_level_mmap.cc:105-120, 142-147): a page *)
(* that is present shows the application's last write, or else exactly the *)
(* bytes of the file from the mapping's offset on, or one fill pattern.    *)
PageContents ==
  \A v \in Vpn :
    Present(v) =>
      LET r == RegionOf(v)
          first == Offset[r] + CellsPerPage * (v - Base[r])
          Shows(x(_)) == \A c \in 0 .. CellsPerPage - 1 : CellOf(v, c) = x(c)
      IN \/ v \in written /\ Shows(LAMBDA c : Mine)
         \/ v \notin written /\ FileCells[r] # 0
              /\ Shows(LAMBDA c : <<r, first + c>>)
         \/ v \notin written /\ FileCells[r] = 0
              /\ \E k \in 0 .. Letters - 1 : Shows(LAMBDA c : <<"letter", k>>)

(* Only missing pages are supplied (user_level_mmap.cc:218-220): the entry *)
(* of a present page changes only when its region is unmapped.             *)
StableMapping ==
  [][\A v \in Vpn :
       Present(v) => \/ pte'[v] = pte[v]
                     \/ pte'[v] = NoPage /\ RegionOf(v) \notin vma']_vars

(* When no two threads access one page, the library is demand paging: a    *)
(* missing page of a mapping gets a block of its own and keeps it until    *)
(* ul_munmap removes the mapping, no late message replaces it, and none    *)
(* brings it back afterwards (user_level_mmap.cc:109, 142-147, 200, 260).  *)
Paging == INSTANCE DemandPaging
            WITH Page <- Vpn, Frame <- 0 .. MaxBlocks, Missing <- NoPage,
                 frameOf <- pte, mapped <- UNION {PagesOf(r) : r \in vma}
PagingSpec == Paging!Spec

(* Every fault gets a block of its own (user_level_mmap.cc:109): whatever  *)
(* the races between faults and handlers, two pages never share a frame.   *)
FramesPrivate ==
  \A u, v \in Vpn : Present(u) /\ pte[u] = pte[v] => u = v

(* The discipline under which the shared msg does no harm: at most one     *)
(* handler is between its read and its wake.                               *)
Busy(r) == hpc[r] \in {"fill", "update", "wake"}
OneHandlerBusy == \A r, s \in Region : Busy(r) /\ Busy(s) => r = s

(* A sleeping thread is still queued for its handler, or its handler is    *)
(* working on exactly its page (user_level_mmap.cc:82, 134, 147, 167-170). *)
NoLostWakeup ==
  \A t \in Thread :
    apc[t] = "waiting" =>
      LET r == RegionOf(addr[t])
      IN \/ t \in Pending(r)
         \/ Busy(r) /\ msg = addr[t]

(* Blocks are never freed (user_level_mmap.cc:109), and a message that is  *)
(* handled late takes one for a page that has one already; still, however  *)
(* often a thread accesses a page, the two cost one block at most.         *)
OneBlockPerAccess == blocks <= Cardinality(Touches)

(* Every access of the application to a region completes.                  *)
AccessCompletes ==
  \A t \in Thread : InAccess(t) ~> (~InAccess(t) \/ ~Running)

-----------------------------------------------------------------------------
(* What comments and documentation of the code say of the program, and     *)
(* what the model shows to be false of it.                                 *)

(* user_level_mmap.cc:105-107, "each fault is handled separately": what a  *)
(* handler works on is a page of its own region.                           *)
HandledSeparately ==
  Running => \A r \in Region : Busy(r) => msg \in PagesOf(r)

(* user_level_mmap.cc:80, "Read an event from the userfaultfd": the read   *)
(* that follows poll finds one, and err() does not end the process.        *)
ReadFindsEvent == ended # "read"

(* user_level_mmap.cc:141, "update to pfn of fault address, and set valid  *)
(* bit, and update": when the handler goes on to the wakeup, the page that *)
(* faulted is present.                                                     *)
MappedBeforeWake ==
  Running => \A r \in Region : hpc[r] = "wake" => Present(msg)

(* user_level_mmap.h:17, "on failure, returns MAP_FAILED": a call of       *)
(* ul_mmap that fails does not end the process.                            *)
FailureReturned == ended # "ul_mmap"

(* user_level_mmap.h:22: ul_munmap "causes further references to addresses *)
(* within the range to generate invalid memory references": once munmap    *)
(* has removed the region, no page of it is present again.                 *)
NoMappingWithoutVma == \A v \in Vpn : Present(v) => RegionOf(v) \in vma

(* user_level_mmap.h:21-27: ul_munmap deletes the mappings and returns an  *)
(* int; a call of ul_munmap or ul_mmap returns unless the process ends.    *)
CallsReturn ==
  \A t \in Thread : apc[t] \in {"open", "flag", "mmap", "start", "insert",
                                "lock", "munmap", "join"}
                      ~> (apc[t] = "idle" \/ ~Running)
=============================================================================
