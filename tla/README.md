# Verification of user_level_mmap

TLA+ models of the programs in this repository, the TLC configurations that
check them on small instances, and TLAPS proofs of their central properties
for all instances. Paths below are relative to the repository.

## The system

| part | source | state | operations |
|---|---|---|---|
| page pool | `src/phy_page_pool.h`, client in `src/mem_pool_benchmark.cc` | per pool a Treiber stack and a counter, updated separately | constructor, `allocate`, `deallocate`, `get_rough_richest_pool`, destructor |
| user-level mmap | `src/user_level_mmap.cc`, `include/user_level_mmap.h` | map of regions with its mutex, `pteditor_init_flag`, one handler thread per region, one `static msg` for all of them | `ul_mmap`, `page_fault_handler`, `ul_munmap` |
| PTEditor library | `PTEditor/ptedit.c`, `ptedit.h`, `ptedit_header.h` | device descriptors, paging definition, function pointers, cached paging root | `ptedit_init`, `resolve`, `update`, pfn, bit, memory-type and page operations |
| PTEditor kernel module | `PTEditor/module/pteditor.c` | `device_busy`, `mm_is_locked`, the TLB invalidation method | `open`, `release`, `ioctl` |
| Windows driver | `PTEditor/driver/PTEdit/Driver.c` | none of its own | ioctl dispatch |
| userfaultfd demo | `demos/userfaultfd_demo/userfaultfd_demo.c` | a pool of buffers, the number of faults so far | main reads, one handler supplies |
| PTEditor programs | `PTEditor/example.c`, `PTEditor/demos/` | entries they change and put back | resolve, update, pmap, memory types |
| experiment | `experiments/neovmcache_vs_vmcache.cc` | a `PageState` word per page, a data file | create and map the file, fix and unfix |
| tests | `PTEditor/test/` | none | calls of the library |

How they interact: `ul_mmap` opens the PTEditor device once per process, maps
anonymous memory, registers it with a userfaultfd and starts a handler thread.
An access to a missing page is queued by the kernel; the handler reads the
message, obtains a page with `malloc`, fills it from the file, asks PTEditor for
the frame behind it, writes that frame into the page-table entry of the faulting
address, and wakes the address. PTEditor does this with an ioctl to its kernel
module, which walks and writes the page tables under the `mm` lock and flushes
the TLB, or from user space through `/proc/umem`. The page pool is a separate
library meant to hand out the pages. The userfaultfd demo is the same scheme with
one region and buffers of its own. The experiment compares three ways to latch
pages and uses no other part. All programs on PTEditor share its device, which
one process at a time may open, and the memory types of the processors.

What is hard here: lock-free lists (ABA, a counter that is not updated together
with its list), a `static` message shared by threads, messages that are stale
when they are handled, read-modify-write of page-table entries in several calls,
TLB entries that outlive the tables, a mutex held across `join`, memory whose
alignment is assumed rather than requested, a device and flags that outlive the
process that set them, and files that a killed run leaves half made.

## Modules

| module | models |
|---|---|
| `PagePool` | what a page pool promises: every page is free or has one owner; create, take, give back and pass on are atomic |
| `MemoryPool` | `src/phy_page_pool.h`, one action per access to shared memory, and its client |
| `MCMemoryPool` | instances of it |
| `MemoryPoolProofs`, `MemoryPoolSteps`, `MemoryPoolSafety` | theorems about `MemoryPool`: types and free lists; the inductive invariant and the loops; page safety, client discipline and refinement |
| `UserLevelMmap` | `src/user_level_mmap.cc`, with the application's accesses and the kernel's fault queue |
| `MCUserLevelMmap` | instances of it |
| `UserLevelMmapProofs`, `UserLevelMmapWakeups` | theorems about `UserLevelMmap`: types and frames; wakeups |
| `PTEditor` | `resolve`, change and `update` of an entry in `PTEditor/ptedit_header.h` and `module/pteditor.c`, with processor and kernel |
| `MCPTEditor` | an instance of it |
| `MemoryTypes` | the memory-type functions of `ptedit_header.h` as operators on the PAT and on the bits of an entry |
| `PTEditorSession` | loading of the kernel module, its device, `/proc/umem`, the PAT of every processor, `VM_LOCK`, and the calls that open and close a session |
| `PTEditorDemos` | `PTEditor/example.c` and the demos, run by several processes on one `PTEditorSession` |
| `MCPTEditorDemos` | an instance of it |
| `PTEditorDemosProofs` | theorems about `PTEditorDemos` and `MemoryTypes` |
| `DemandPaging` | what a supplier of pages promises: only a mapped page that is missing gets a frame, one that no page has; it keeps it while it is mapped, and no unmapped page shows one |
| `UffdDemo` | `demos/userfaultfd_demo/userfaultfd_demo.c` |
| `MCUffdDemo`, `UffdDemoProofs` | an instance of it, and theorems |
| `Latch` | what a page latch promises: one holder, who releases it |
| `NeoVmcache` | `experiments/neovmcache_vs_vmcache.cc` |
| `MCNeoVmcache`, `NeoVmcacheProofs` | an instance of it, and theorems |

A definition marked `mutant` is a wrong version of the one that follows it, kept
to show that the properties notice the difference. No specification uses it.

### MemoryPool

`local_pools`, `next`, `local_remain_pages` and `pages_per_pool` are the members
of the class; `pc`, `pool_idx`, `page`, `link` and `scan` are the registers of a
thread in `allocate`, `deallocate` and `get_rough_richest_pool`; `held` is what
the client has. The constructor makes one page per step (`CtorPage`) and ends
with its assertion (`CtorDone`). `allocate` is `Allocate`, `LoadHead`,
`LoadNext`, `PopCas` or `PopCasFail`, `DecRemain`, and on a miss `ScanCompare`,
`ScanStore`, `ScanDone`; `deallocate` is `Deallocate`, `LoadExpected`,
`StoreNext`, `PushCas` or `PushCasFail`, `IncRemain`. The client of
`mem_pool_benchmark.cc` fills its pages, so the bits at `page->next` of a page in
use are `Junk` (`ClientWrite`); reading a `Junk` pointer as a page is a fault and
ends the run in phase `aborted`. The destructor asserts the counters
(`DtorBegin`), frees page by page (`DtorFree`) and compares the count
(`DtorNextPool`). Counters are `size_t`: arithmetic is modulo `Modulus`.
`compare_exchange_weak` may fail on an unchanged head when `Spurious` is TRUE.
`deallocate(nullptr)` returns at once and changes nothing, so it is not a step.

### UserLevelMmap

A page is two cells, which is enough to tell an aligned block from an unaligned
one; the heap is an array of cells, a block the next `CellsPerPage` cells at
`MallocOffset`, and a page-table entry the number of a frame of the heap.
`ul_mmap` is `MmapCall`, `PteditInit`, `SetInitFlag` (the flag is tested by the
call and set later), `Register`, `StartHandler`, `Insert`. `Register` stands for
`mmap`, the three calls about the userfaultfd and `dup`, any of which may fail.
`Offset` is the offset argument, from which the handler reads. A handler repeats
`Poll`, `Read`, `Fill`, `Update`, `Wake`, each reading the shared `msg` anew.
`ul_munmap` is `MunmapCall`, `Lock`, `Munmap`, `Join`. Environment: the
application touches pages of regions it has mapped and not unmapped (`Touch`,
`Access`); the kernel queues a fault (`Enqueue`) and looks at the entry once
more before the thread sleeps (`Block`). `err`, `exit`, failed assertions and
segmentation faults end the process; `ended` says where. `Failures` and
`NoTable` say what can go wrong outside: refused calls, no `/proc/umem` (the
first call of PTEditor is then a fault), pages that fault without getting a page
table, into which `ptedit_update` writes nothing. After `munmap` the page table
may be there or not, so a late `Update` has both outcomes.

### PTEditor

Page tables are frames of entries (`mem`), an entry is a set of bits and a frame
number, a page is a path of four indices. A call to `ptedit_pte_set_bit`,
`ptedit_pte_clear_bit` or `ptedit_pte_set_pfn` is `EditCall`, a resolve,
`Change`, an update and `Return`. Through the kernel module the resolve is
`KernelResolve` (the walk, under the lock for reading) and `VmToUser` (the reads
through the pointers, after the lock), the update is `UpdateVm` and
`KernelFlush` with the lock held for writing across both. From user space every
entry is one read (`UserResolve`, and again `UserCurrent` inside the update),
then `UserWrite` and two flushes (`UserFlush`), without a lock. `HardwareWalk`,
`KernelWalk` and the walk of `UserGoes` stop at different entries, as the code
does. `UseImplementation` and `SwitchTlbInvalidation` are taken while no thread
is in the library. Environment: the processor caches a translation and sets the
accessed bit (`Translate`); Linux maps, faults in and unmaps pages and frees a
page table that no area needs (`KernelMap`, `KernelFault`, `KernelUnmap`). The
application does not unmap a page that it is editing. `Memmap` is the listing
that `demos/memmap.c` makes of the tables, taken at one moment; the program
reads table after table, and the lower 256 entries of the top level.
`KernelWalk` keeps an empty top-level slot where `resolve_vm` returns without
one; no step uses it.

### MemoryTypes, PTEditorSession, PTEditorDemos

A memory type is the set of the one-bits of its number, a PAT a function from
indices to types, the attributes of an entry a set of bit numbers.
`ptedit_set_mt` shifts an `int` too far for an index above 3; `SetMt` has both
outcomes that compilers produce.

`Insmod` is `pteditor_init`: it may fail before the device is registered, after
it (and then leaves the device behind), or succeed with or without `/proc/umem`
and its probe. `PteditInit`, `Refuses` and `PteditCleanup` are `ptedit_init` and
`ptedit_cleanup` with `device_open` and `device_release`. `ptedit_set_mt` reads
the PAT of the processor it runs on and has `set_pat` send an interrupt to every
processor (`SetPat`, variable `ipi`); `SetPatOn` is one processor serving it, and
the caller goes on when all have. `VmLock` takes the lock of the mm for writing;
the read lock it asks for next is the one it keeps from itself, so the process
hangs there and `mm_is_locked` is not reached.

A program of `PTEditorDemos` is the sequence of its calls, stores and checks
(`Example`, `MapPt`, `MapPtManual`, `Uncachable`, `Performance`); `Client` makes
the calls that no demo makes. There is one action per kind of step. A page is
named like the frame it has at first; page `w` is the window that
`ptedit_pmap` maps, page `h` a huge page, frame `tables` the page table of `a`.
The processor caches translations at any time (`Translate`), processes are
killed at any step (`Kill`; inside `set_pat`, which waits without a way out, the
signal takes effect after it), the module is loaded and unloaded (`Admin`). An
access to a window that could not be mapped, and the use of `PTEDIT_IMPL_USER`
without `/proc/umem`, end the process (`Segv`). The comparison that
`performance.c` makes of its three resolvers is one of entries here; the walks
themselves are in `PTEditor`.

### UffdDemo

`main` is `Setup`, `Read` (several per page), `Exit`; `fault_handler_thread` is
`HandlerInit`, then `ReadEvent`, `Fill`, `Update`, `Probe` (its own read of the
page), `Wake`. The fill patterns repeat after `Letters`, 20 in the code. `NoUmem`
is the fault of the user-space implementation when there is no `/proc/umem`. A
fault that gets no page table (`table`) leaves `Update` without effect and the
handler waiting for itself in `Probe`. Main is taken to sleep from its fault to
the wake; that it may see the entry earlier is in `UserLevelMmap` (`Block`).

### NeoVmcache

`main` and `check_data_file` are `Start`, `Create`, `Extend`, `Open`, `Map`,
`TestsDone`; `Kill` may come at any point and the file stays as it is. An
operation of `performTest` is `Choose`, `Read` (the copy of the `PageState` and
its test), `Cas`, `Use`, `UnfixRead` and `Clear` (the bit-field write of
`setUnlocked` reads the word and writes it back). The three managers differ in
where the word is, in the second word that `neovmcache_fix` looks at, and in the
table of `hash_fix`, whose allocation is not tested. A fix takes a marked page
whether or not it is locked; the program marks none, but the file it finds may
have marked words, and those pages are no latches. `data[1]` is never written, so
it is read together with the word. The code runs one thread;
`Thread` is a parameter because the compare-and-swap loops are written for more.

## Runs

| run | shows |
|---|---|
| `pool_single` | one allocating thread, others that free its pages, counters modulo 4: no page is given out twice, the lists hold exactly the free pages, and the pool refines `PagePool` (`AtomicPool`) |
| `pool_partition` | two allocating threads with home pools of their own: their pops do not overlap, counters agree with lists up to pending updates, no assertion fails, `allocate` returns, the destructor frees every page |
| `pool_aba` | violated: two threads that pop and push one list; a delayed pop installs a stale `next` and the destructor's count (line 73) is wrong |
| `mmap_own_pages` | three threads on pages of their own of a file mapped from an offset, with calls that may fail and a page without page table: contents are the file's or the last write, it refines `DemandPaging` (`PagingSpec`), accesses complete or the process ends |
| `mmap_shared_pages` | two threads on the same pages, unaligned blocks: pages never share a frame, no wakeup is lost, a thread and a page cost one block at most, an access completes or the process ends |
| `mmap_static_msg` | violated: two regions, two handlers, one `msg` (line 56) |
| `mmap_remap` | violated: a second message for a page that is present replaces its frame (line 142) |
| `mmap_returns` | violated: `ul_munmap` joins a thread that never returns (line 270) |
| `ptedit_own` | two threads edit neighbouring entries through either implementation against processor and kernel: walks without lock stay valid, the implementations find the same entries, an edit writes its entry only, it is in force on return, stale translations exist only between write and flush, `memmap.c` lists the small pages that are mapped |
| `ptedit_demos` | two processes run the PTEditor programs, interrupts of `set_pat` served one by one: one process has the device and `device_busy` says so, every check of a program passes whatever the processor has cached, a memory type is in force on every processor when it is announced (`TypeInForce`), the processors agree for a process that has the device and is not inside `set_pat` (`PatUniform`), changed entries are put back, and no call but `VM_LOCK` keeps a program from ending |
| `uffd_demo` | the demo with zero pages to more pages than buffers: neighbouring pages show different letters, the demo refines `DemandPaging`, the handler waits for itself only on a page without page table, and otherwise the region is read to its end unless buffers run out |
| `neovmcache` | two threads, two runs with kills and failing calls: an unmarked page is fixed by one thread and keeps no lock, the managers implement `Latch`, the tests see a file of full size only, the program ends |

Four runs end in a violation. Each checks one statement that a comment, an
assertion or a documentation line of the repository makes and that the code
does not keep; `PROJECT.json` quotes the line. More disagreements follow from
the same models and have no run:

- `NoMappingWithoutVma`, with the instance of `mmap_remap`, `Unmaps = {r1}`: a
  late message makes a page present again after `munmap`
  (`user_level_mmap.cc:147`, against `user_level_mmap.h:22`).
- `ReadFindsEvent`, with the instance of `mmap_remap`: the fault that made `poll`
  return is gone when `read` is called, and `err` ends the process (line 88,
  against the comment at line 80).
- `FailureReturned`, with the instance of `mmap_static_msg`: two first calls of
  `ul_mmap` open the device and one ends the process (line 184, against
  `user_level_mmap.h:17`).
- `MappedBeforeWake`, with the instance of `mmap_own_pages`: without page table
  the update writes nothing and the thread is woken all the same (line 146,
  against the comment at line 141).
- A miss in `allocate` decrements a counter (`phy_page_pool.h:137`), so that the
  assertion at line 56 can fail with every page returned.
- `malloc` off a page boundary maps the wrong bytes (`user_level_mmap.cc:109`,
  `PageContents` with `MallocOffset` = 1).
- The flush after an edit of another process is for the caller's address space
  (`pteditor.c:216`).

### Bounds

- Pool: three or four pages in one or two pools, two or three threads. Two pages
  in one pool are the least for a list with a `next`, three for ABA; a second
  pool is needed for the scan. `Modulus` 4 makes the counter wrap; `Quota` bounds
  the pages of one client so that pools empty or, with 1, never do.
- Mmap: `mmap_own_pages` has every kind of failure, the violation runs only what
  they are about; its page 3 never gets a page table. `MaxBlocks` bounds the
  blocks `malloc` hands out: one per fault that can happen, and one or two more
  where a fault can be handled twice. `Letters`, 26 in the code, is the number
  of fill patterns. `Length` gives regions of one to three pages; one page is
  enough for two threads to meet, two for the file offset and for an unaligned
  block to reach into a neighbour.
- PTEditor: indices 0 and 1; two pages in one page table, one under a large page
  and one under an empty entry; one spare table, so that a table can be freed
  and another put in its place. `Edits` lists the changes each thread makes: one
  sets the frame, the other clears *present*. `Fresh` is the frame of new pages.
- PTEditorDemos: two processes, two processors, two starts (`MaxStarts`), each
  of any of the six programs: enough for a program to find the device open, left
  by one that was killed, or held by one that hangs. `BootPats` are the PAT of
  Linux and that of a processor after reset. The client makes index 3 WB, which
  leaves no UC in the first and UC at index 7, with its PAT bit, in the second;
  or it writes index 5, whose mask is not defined.
- UffdDemo: up to six pages with five buffers and three letters, so that buffers
  run out and letters repeat; four reads per page as in the code.
- NeoVmcache: two threads, two pages, two operations per test, two runs, and
  before the first no file, an empty one, one of the program or one of others.
  The one of others has a marked page, and bits set that `PageState` does not
  use; one whose first words are locked or evicted, or whose second words are
  not 0, makes `neovmcache_fix` spin or assert, and the code does not look at
  them.

### Fairness

`FairSpec` of `MemoryPool` has weak fairness of each thread inside a call: the
operating system keeps running it. Calls themselves are never owed. A CAS that
fails spuriously for ever is excluded there by `Spurious = FALSE`, since
`compare_exchange_weak` bounds nothing. `FairSpec` of `UserLevelMmap` has weak
fairness of each thread inside `ul_mmap`, an access or `ul_munmap`, and of each
handler. `UnmapSpec` adds the return of `join` when the handler has returned,
for the run about `ul_munmap`. In `PTEditorDemos` every running process, in
`UffdDemo` both threads, and in `NeoVmcache` main and every thread are scheduled
again and again; nobody has to start or kill a process, or to load the module.
Every processor serves the interrupts of `set_pat` (`PatInterrupt`). A
fix that spins is a step, so `Finishes` says more than that threads are
scheduled: with a bounded number of operations the other threads cannot keep one
from a page for ever. The safety runs use no fairness.
Deadlock checking is off where the system may stop: the handlers of
`UserLevelMmap` sleep in `poll` when every access is done, a mutex can be held
for ever, and a process can hang in `VM_LOCK`.

## Proofs

The theorems hold for every value of the constants that meets the named
`ASSUME`s of the modules; those state types (`PoolOf` maps pages to pools,
`Null` and `Junk` are no pages, regions do not overlap) and nothing about sizes.

`MemoryPoolProofs` (types, free lists), `MemoryPoolSteps` (the invariant) and
`MemoryPoolSafety` (the theorems about pages):

- `TypeCorrect`: `Spec => []TypeOK`, one step per action.
- `PageSafety`: `Spec /\ []NoOverlappingPops => [](NoDoubleAllocation /\
  FreeListsBy(Nat))`. Without the hypothesis the statement is false, as
  `pool_aba` shows. `NoDoubleAllocation` alone is not inductive: a pop takes
  whatever the head names, so the lists have to hold exactly the free pages, and
  the registers of a thread in the middle of a pop have to agree with the list.
  The invariant is `PageInv == TypeOK /\ Placed /\ NoDoubleAllocation /\
  FreeListsBy(Nat)`. `FreeListsBy` says that some ranking of the free pages
  decreases along the links, which makes "the list holds exactly these pages,
  once" a first-order statement; three lemmas about `Lists` say what a push, a
  pop and a write outside the list do to the ranking.
- `OneAllocatorSafe`: with one allocating thread the hypothesis holds by itself.
- `ImplementsPagePool`: under the same hypothesis the pool implements `PagePool`.

`UserLevelMmapProofs` and, for the wakeups, `UserLevelMmapWakeups` (from
`Region # {}`):

- `TypeCorrect`: by `TypeInv`, which adds that a call works on a region that was
  requested and a fault on a page of some region.
- `FramesArePrivate`: no two pages show one frame, whatever races. `FrameInv`
  adds that the frame in a handler's hands is mapped nowhere and in no other
  handler's hands, and that mapped frames are older than the next block.
- `NoWakeupIsLost`: while at most one handler is between its read and its wake,
  `NoLostWakeup` and `HandledSeparately` hold. `mmap_static_msg` shows that the
  hypothesis is needed. `WakeInv` says that a fault that was read is the one in
  `msg`; `StartInv`, that no call starts a second handler on a busy region.
- `OneRegionSafe`: a program with one region needs no hypothesis.

`NeoVmcacheProofs` (any threads, pages, operations, runs and old files):

- `PagesFixedByOne`: `FixedByOne`, about pages that are not marked, is not
  inductive; the invariant adds that the word of a fixed unmarked page has its
  lock bit, that a thread about to swap has a copy that is marked or without the
  lock bit, so that its swap fails on a page that was fixed after the copy, and
  that unfix writes a mark back as it read it.
- `ImplementsLatch`: every step is a step of `Latch` or leaves the fixes of
  unmarked pages alone.

`UffdDemoProofs` (any numbers of pages, buffers and reads, two or more letters):

- `FaultsHandledSeparately`, `HandlerIsServed`, `BuffersSuffice` and
  `ImplementsDemandPaging` from one invariant: pages are supplied in order, page
  *p* from buffer *p*, `fault_cnt` is the number of the page that main waits for
  or one more, depending on where the handler is, and a page whose fault got no
  page table is the last one that main comes to.

`PTEditorDemosProofs` (any processes, processors, programs and boot PATs):

- `DeviceIsExclusive`, `TypesAreUniform`. `PatUniform` is not inductive: while
  the interrupts are served the processors differ, and a second process could
  read a PAT in between. The invariant adds that the interrupts of one call carry
  one table and that every processor has it or has yet to be interrupted
  (`Served`), that a process inside `set_pat` keeps the device (`InSetPat`), and
  that the processors agree while no process is inside (`Agree`); exclusiveness
  of the device then keeps the calls of two processes apart. Other steps of a
  program leave the session alone (`QuietSteps`).
- `AppliedIndexIsRead`, `OtherBitsAreKept`: the index applied to an entry is the
  one read from it, and no other bit changes, for small and for huge pages.

Only model-checked: liveness (`AllocateReturns`, `AccessCompletes`,
`ProgramsEnd`, `ReadsToEnd`, `Finishes`) and the refutation of `CallsReturn`,
because the prover does not treat fairness; counters against lists
(`CountersAgree`), which needs cardinalities of lists; `DtorFreesEverything` and
`NoAbort`; page contents, `StableMapping` and `PagingSpec` of `UserLevelMmap`;
`OneBlockPerAccess`, `LockedIffFixed` and `FileLongEnough`; `ChecksPass`,
`TypeInForce` and `RestoredAtExit`, which are about the programs as they are
written; all of `PTEditor`.

## Not modelled

- `PTEditor/ptedit.c` and `ptedit.h`: an older copy of the header's functions.
- Updates of upper levels, paging roots other than the current one, five-level
  tables, and the ARM64 side of PTEditor; printing of entries.
- The Windows driver and its loader.
- `PTEditor/demos/nx.c`, which orders two processes by sleeps alone;
  `virt2phys.c`, which resolves and prints; `clear_bits.c`, whose body is
  commented out; the tests.
- `ul_msync`, `ul_mprotect`, `ul_madvise`: declared, never defined.
- Failure of `aligned_alloc` in the pool's constructor, which faults two lines
  before it is tested; weak memory orders of the constructor, which no other
  thread observes.
- What the kernel does with a frame that is in two entries when a process ends,
  after `userfaultfd_demo` or after a PTEditor program was killed.
- Accessed and dirty bits that the processor sets between a resolve and an
  update and that the update overwrites; 1 GB pages; `ptedit_use_implementation`
  while another thread is in the library.
- The moment in `pteditor_init` between `misc_register` and the assignment of
  `invalidate_tlb`; processors that come online after the PAT was set; the
  caches that `_set_pat` does not flush.
- A page from `malloc`, or a buffer of the demo, inside a huge page: it has no
  PTE, `ptedit_pte_get_pfn` returns 0 and frame 0 is mapped. In the models blocks
  and buffers have entries of their own.
- A `pread` that returns less than the file has.

## Open

- Proofs about `PTEditor`: type correctness, `OnlyEditsChangeEntries` and
  `TlbCoherent` for any number of threads and tables.
- A composition in which the `Update` step of `UserLevelMmap` is what resolve and
  update of `PTEditor` do, and the pool supplies the pages.
- `CountersAgree` by proof; `PageContents` for one handler at a time.
