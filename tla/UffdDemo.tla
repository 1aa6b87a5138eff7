------------------------------ MODULE UffdDemo ------------------------------
(***************************************************************************)
(* demos/userfaultfd_demo/userfaultfd_demo.c: a thread that supplies the   *)
(* pages of a region from a pool of buffers, by writing the page-table     *)
(* entry through PTEditor, and a main thread that reads the region from    *)
(* start to end, several times in every page.  The kernel side of a fault  *)
(* is external.                                                            *)
(***************************************************************************)
EXTENDS Integers

CONSTANTS
  MaxPages,      \* largest num-pages argument
  BUFPOOLSIZE,
  Letters,       \* fill patterns (20)
  ReadsPerPage,  \* page_size / 1024
  Failures       \* what may fail: "kernel", "memalign", "ptedit", "umem",
                 \* "table": a fault gets no page table (huge pages)

ASSUME SizeAssumption == /\ MaxPages \in Nat /\ BUFPOOLSIZE \in Nat
                         /\ Letters \in Nat /\ Letters > 1
                         /\ ReadsPerPage \in Nat \ {0}

Page == 0 .. MaxPages - 1
Buffer == 0 .. BUFPOOLSIZE - 1
None == -1

VARIABLES
  ended,      \* "no", or how the process ended
  pages,      \* num-pages, the argument
  mpc,        \* where main is
  l,          \* reads that main has completed
  got,        \* page -> the letters main has read in it
  hpc,        \* where fault_handler_thread is
  fault_cnt,
  msg,        \* the fault address of the event that was read
  bufpool,    \* buffer -> its contents, None before it is filled
  table,      \* pages for which the kernel has made a page table
  pte         \* page -> the buffer whose frame it shows, None if missing

vars == <<ended, pages, mpc, l, got, hpc, fault_cnt, msg, bufpool, table, pte>>

Running == ended = "no"
May(call) == {TRUE} \cup {call \notin Failures}
Here == l \div ReadsPerPage
Present(p) == pte[p] # None

Init ==
  /\ ended = "no" /\ pages \in 0 .. MaxPages
  /\ mpc = "setup" /\ l = 0 /\ got = [p \in Page |-> {}]
  /\ hpc = "none" /\ fault_cnt = 0 /\ msg = None
  /\ bufpool = [b \in Buffer |-> None] /\ table = {}
  /\ pte = [p \in Page |-> None]

-----------------------------------------------------------------------------
(* main                                                                     *)
Main(from, to) == Running /\ mpc = from /\ mpc' = to

\* userfaultfd, UFFDIO_API, mmap (which wants a length), UFFDIO_REGISTER
\* and pthread_create.
Setup ==
  /\ Main("setup", "read")
  /\ \E ok \in May("kernel") :
       IF ok /\ pages > 0 THEN hpc' = "init" /\ UNCHANGED ended
                          ELSE ended' = "failure" /\ UNCHANGED hpc
  /\ UNCHANGED <<pages, l, got, fault_cnt, msg, bufpool, table, pte>>

\* A fault makes the page table when it finds none, unless it is one for a
\* huge page.
Read ==
  /\ l < pages * ReadsPerPage
  /\ Main("read", IF Present(Here) THEN "read" ELSE "fault")
  /\ IF Present(Here)
     THEN /\ got' = [got EXCEPT ![Here] = @ \cup {bufpool[pte[Here]]}]
          /\ l' = l + 1
          /\ UNCHANGED table
     ELSE /\ \E made \in May("table") :
               table' = IF made THEN table \cup {Here} ELSE table
          /\ UNCHANGED <<got, l>>
  /\ UNCHANGED <<ended, pages, hpc, fault_cnt, msg, bufpool, pte>>

Exit ==
  /\ l = pages * ReadsPerPage
  /\ Main("read", "read")
  /\ ended' = "success"
  /\ UNCHANGED <<pages, l, got, hpc, fault_cnt, msg, bufpool, table, pte>>

-----------------------------------------------------------------------------
(* fault_handler_thread                                                     *)
Handler(from, to) == Running /\ hpc = from /\ hpc' = to

\* posix_memalign for every buffer, ptedit_init.
HandlerInit ==
  /\ Handler("init", "poll")
  /\ \E ok \in May("memalign"), opened \in May("ptedit") :
       ended' = IF ok /\ opened THEN ended ELSE "failure"
  /\ UNCHANGED <<pages, mpc, l, got, fault_cnt, msg, bufpool, table, pte>>

\* poll and read: main sleeps until the wake, so the event is still there.
ReadEvent ==
  /\ mpc = "fault"
  /\ Handler("poll", "fill")
  /\ msg' = Here
  /\ UNCHANGED <<ended, pages, mpc, l, got, fault_cnt, bufpool, table, pte>>

FillBuffer(b) ==
  /\ Handler("fill", "update")
  /\ IF b < BUFPOOLSIZE
     THEN /\ fault_cnt' = b + 1
          /\ bufpool' = [bufpool EXCEPT ![b] = (b + 1) % Letters]
          /\ UNCHANGED ended
     ELSE ended' = "assert" /\ UNCHANGED <<fault_cnt, bufpool>>
  /\ UNCHANGED <<pages, mpc, l, got, msg, table, pte>>
FillRound == FillBuffer(fault_cnt % BUFPOOLSIZE)                   \* mutant
Fill == FillBuffer(fault_cnt)

\* ptedit_pte_get_pfn, ptedit_resolve and ptedit_update, which writes the
\* entry if there is a page table and does nothing otherwise.
UpdateEntry(p, b) ==
  /\ Handler("update", "probe")
  /\ pte' = IF p \in table THEN [pte EXCEPT ![p] = b] ELSE pte
  /\ UNCHANGED <<ended, pages, mpc, l, got, fault_cnt, msg, bufpool, table>>
UpdateFirst == UpdateEntry(msg, 0)                                 \* mutant
UpdateBefore == UpdateEntry(msg - 1, fault_cnt - 1)                \* mutant
Update == UpdateEntry(msg, fault_cnt - 1)

\* Without /proc/umem the implementation PTEDIT_IMPL_USER faults when it is
\* first used.
NoUmem ==
  /\ "umem" \in Failures /\ fault_cnt = 1
  /\ Handler("update", "update")
  /\ ended' = "failure"
  /\ UNCHANGED <<pages, mpc, l, got, fault_cnt, msg, bufpool, table, pte>>

\* The handler reads the page itself: while it is missing, nobody serves
\* this fault.
Probe ==
  /\ Handler("probe", IF Present(msg) THEN "wake" ELSE "stuck")
  /\ UNCHANGED <<ended, pages, mpc, l, got, fault_cnt, msg, bufpool, table, pte>>

WakePage(p) ==
  /\ Handler("wake", "poll")
  /\ mpc' = IF mpc = "fault" /\ Here = p THEN "read" ELSE mpc
  /\ UNCHANGED <<ended, pages, l, got, fault_cnt, msg, bufpool, table, pte>>
WakeNext == WakePage(msg + 1)                                      \* mutant
Wake == WakePage(msg)

-----------------------------------------------------------------------------
MainNext == Setup \/ Read \/ Exit
HandlerNext == HandlerInit \/ ReadEvent \/ Fill \/ Update \/ NoUmem \/ Probe \/ Wake
Ended == (~Running \/ hpc = "stuck") /\ UNCHANGED vars
Next == MainNext \/ HandlerNext \/ Ended

Spec == Init /\ [][Next]_vars

\* The scheduler runs both threads.
FairSpec == Spec /\ WF_vars(MainNext) /\ WF_vars(HandlerNext)

-----------------------------------------------------------------------------
(* userfaultfd_demo.c:111-113, "Vary the contents that are copied in, so   *)
(* that it is more obvious that each fault is handled separately": all     *)
(* reads of a page show one letter, the next page shows another one.       *)
HandledSeparately ==
  /\ \A p \in Page : \A x, y \in got[p] : x = y
  /\ \A p \in Page : p + 1 \in Page => got[p] \cap got[p + 1] = {}

(* The handler reads the page it has just mapped (lines 149-153), in the   *)
(* region that only it can serve: it waits for itself only where the fault *)
(* got no page table, so that the update of line 140 wrote nothing.        *)
HandlerServesItself == hpc = "stuck" => msg \notin table

(* Every event takes one buffer and every page causes one event (lines     *)
(* 115-116): the assertion fails only when there are more pages than       *)
(* buffers.                                                                *)
EnoughBuffers == ended = "assert" => pages > BUFPOOLSIZE

(* Seen as the frame every page shows, the demo is demand paging; its one  *)
(* mapping, made in Setup (lines 200-219), is never removed, so a page     *)
(* keeps the frame it was given (lines 115-140).                           *)
Mapped == IF hpc = "none" THEN {} ELSE 0 .. pages - 1
Paging == INSTANCE DemandPaging
            WITH Frame <- Buffer, Missing <- None, frameOf <- pte,
                 mapped <- Mapped
PagingSpec == Paging!Spec

(* The program reads the region to its end, or a call has failed, or the   *)
(* region has more pages than there are buffers, or a page that got no     *)
(* page table hangs the handler (lines 151, 229-240).                      *)
ReadsToEnd == <>(\/ ended \in {"success", "failure"}
                 \/ ended = "assert" /\ pages > BUFPOOLSIZE
                 \/ hpc = "stuck" /\ Here \notin table)
=============================================================================
