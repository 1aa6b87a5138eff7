--------------------------- MODULE PTEditorDemos ----------------------------
(***************************************************************************)
(* The programs of PTEditor (example.c, demos/) run by several processes   *)
(* on one kernel module.  A program is the sequence of its steps, done     *)
(* through the library; a process may be killed between any two of them.   *)
(* Pages of a process are named, and so are their frames: page v has frame *)
(* v until a program changes its entry.                                    *)
(***************************************************************************)
EXTENDS PTEditorSession, Sequences

CONSTANTS
  Programs,      \* the programs that are run
  ClientTypes,   \* what the client passes to ptedit_set_mt
  MaxStarts

ASSUME StartsAssumption == MaxStarts \in Nat
ASSUME ClientAssumption == ClientTypes \subseteq Index \X Type

Do(op, v, x) == [op |-> op, v |-> v, x |-> x]

Example == <<
  Do("init", "", ""), Do("resolve", "a", ""),
  Do("store", "a", "A"), Do("store", "b", "B"), Do("expect", "a", "A"),
  Do("map", "a", "b"), Do("expect", "a", "B"),
  Do("readphys", "a", "A"), Do("pmap", "w", "a"), Do("expect", "w", "A"),
  Do("writephys", "b", "C"), Do("barrier", "", ""), Do("expect", "a", "C"),
  Do("restore", "a", "a"), Do("cleanup", "", "")>>

\* map_pt.c: the page table of "a" is seen through window "w".
MapPtNoFlush == <<
  Do("init", "", ""), Do("resolve", "b", ""), Do("resolve", "a", ""),
  Do("pmap", "w", "tables"), Do("same", "w", "a"), Do("edit", "w", "b"), Do("expect", "a", "S"),
  Do("reset", "w", "a"), Do("cleanup", "", "")>>                   \* mutant
MapPt == <<
  Do("init", "", ""), Do("resolve", "b", ""), Do("resolve", "a", ""),
  Do("pmap", "w", "tables"), Do("same", "w", "a"), Do("edit", "w", "b"), Do("invalidate", "a", ""),
  Do("expect", "a", "S"), Do("reset", "w", "a"), Do("cleanup", "", "")>>

\* map_pt_manual.c: the window is page "c", whose own entry is changed.
MapPtManualKept == <<
  Do("init", "", ""), Do("resolve", "b", ""), Do("resolve", "a", ""),
  Do("resolve", "c", ""), Do("map", "c", "tables"), Do("same", "c", "a"),
  Do("edit", "c", "b"), Do("invalidate", "a", ""), Do("expect", "a", "S"),
  Do("restore", "c", "c"), Do("reset", "c", "a"), Do("cleanup", "", "")>> \* mutant
MapPtManual == <<
  Do("init", "", ""), Do("resolve", "b", ""), Do("resolve", "a", ""),
  Do("resolve", "c", ""), Do("map", "c", "tables"), Do("same", "c", "a"),
  Do("edit", "c", "b"), Do("invalidate", "a", ""), Do("expect", "a", "S"),
  Do("reset", "c", "a"), Do("restore", "c", "c"), Do("cleanup", "", "")>>

\* uncachable.c, for a small page and, where there is one, a huge page "h".
Uncachable == <<
  Do("init", "", ""), Do("resolve", "a", ""), Do("find", "", "UC"),
  Do("apply", "a", "UC"), Do("claim", "a", "UC"),
  Do("find", "", "WB"), Do("apply", "a", "WB"), Do("claim", "a", "WB"),
  Do("huge", "", ""), Do("resolve", "h", ""), Do("keep", "h", "original"),
  Do("apply", "h", "UC"), Do("claim", "h", "UC"),
  Do("restore", "h", "original"), Do("claim", "h", "before"),
  Do("cleanup", "", "")>>

Performance == <<
  Do("init", "", ""), Do("resolve", "a", ""), Do("compare", "a", "user"),
  Do("compare", "a", "pread"), Do("cleanup", "", "")>>

\* A client of the calls no demo makes.
Client == <<
  Do("init", "", ""), Do("resolve", "a", ""), Do("call", "", ""),
  Do("writephys", "a", "C"), Do("expect", "a", "C"), Do("cleanup", "", "")>>

\* What a program has filled its pages with before it calls ptedit_init.
Filled(name, v) ==
  CASE name \in {"map_pt", "map_pt_manual"} /\ v = "a" -> "B"
    [] name \in {"map_pt", "map_pt_manual"} /\ v = "b" -> "S"
    [] name = "map_pt_manual" /\ v = "c" -> "A"
    [] name = "uncachable" /\ v = "a" -> "A"
    [] OTHER -> "0"

Script ==
  [example |-> Example, map_pt |-> MapPt, map_pt_manual |-> MapPtManual,
   uncachable |-> Uncachable, performance |-> Performance, client |-> Client]
ASSUME ProgramsAssumption == Programs \subseteq DOMAIN Script

-----------------------------------------------------------------------------
VARIABLES
  status,   \* process -> "idle", "run", "hung" or "oops"
  prog,     \* process -> the program
  pc,       \* process -> its next step
  vm,       \* process -> local variable -> the entry it holds; the entry of
            \* a page is named after the page
  mt,       \* process -> type -> the memory-type index it found
  pte,      \* process -> page -> the entry in the page tables
  tlb,      \* process -> page -> the translation a processor has cached
  mem,      \* process -> frame -> what the frame holds
  starts    \* programs started

control == <<status, prog, starts>>
program == <<vm, mt>>
memory == <<pte, tlb, mem>>
vars == <<session, control, pc, program, memory>>

Small == {"a", "b", "c"}
Page == Small \cup {"h", "w"}
Local == Page \cup {"original"}
Frame == Small \cup {"h", "tables"}
NoEntry == [frame |-> "none", bits |-> {}]
NoTranslation == [frame |-> "none", type |-> {}]
Value == [UC |-> UC, WB |-> WB]

\* The entries that the kernel sets up; the window is not mapped yet.
OwnEntry ==
  [v \in Page |-> IF v = "w" THEN NoEntry
                  ELSE [frame |-> v, bits |-> IF v = "h" THEN {PSE} ELSE {}]]

Init ==
  /\ SessionInit /\ starts = 0
  /\ status = [p \in Process |-> "idle"]
  /\ prog = [p \in Process |-> "none"] /\ pc = [p \in Process |-> 0]
  /\ vm = [p \in Process |-> [v \in Local |-> NoEntry]]
  /\ mt = [p \in Process |-> [t \in {"UC", "WB"} |-> -1]]
  /\ pte = [p \in Process |-> OwnEntry]
  /\ tlb = [p \in Process |-> [v \in Page |-> NoTranslation]]
  /\ mem = [p \in Process |-> [f \in Frame |-> "0"]]

\* A process is in its program; it is running unless it is in set_pat, where
\* it waits in the kernel and cannot be killed.
Started(p) == status[p] = "run"
Running(p) == Started(p) /\ ipi[p] = {}
Ends(p) == Len(Script[prog[p]])
Ins(p) == Script[prog[p]][pc[p]]
At(p, op) == Running(p) /\ pc[p] <= Ends(p) /\ Ins(p).op = op
Advance(p) == pc' = [pc EXCEPT ![p] = @ + 1] /\ UNCHANGED control

MtOf(v, bits) == IF v = "h" THEN ExtractMtHuge(bits) ELSE ExtractMt(bits)
Walk(p, v, c) == [frame |-> pte[p][v].frame, type |-> pat[c][MtOf(v, pte[p][v].bits)]]
\* The translations an access to page v may use.
Uses(p, v) ==
  IF tlb[p][v] # NoTranslation THEN {tlb[p][v]} ELSE {Walk(p, v, c) : c \in CPU}

\* The memory and the locals of a process before ptedit_init.
Fresh(p, name) ==
  /\ prog' = [prog EXCEPT ![p] = name]
  /\ mem' = [mem EXCEPT ![p] = [f \in Frame |-> Filled(name, f)]]
  /\ vm' = [vm EXCEPT ![p] = [v \in Local |-> NoEntry]]
  /\ mt' = [mt EXCEPT ![p] = [t \in {"UC", "WB"} |-> -1]]
  /\ pte' = [pte EXCEPT ![p] = OwnEntry]
  /\ tlb' = [tlb EXCEPT ![p] = [v \in Page |-> NoTranslation]]

Start(p) ==
  /\ status[p] = "idle" /\ starts < MaxStarts
  /\ \E name \in Programs : Fresh(p, name)
  /\ status' = [status EXCEPT ![p] = "run"] /\ starts' = starts + 1
  /\ pc' = [pc EXCEPT ![p] = 1]
  /\ UNCHANGED session

\* The process ends, which closes its files; its memory is gone.
EndAs(p, how) ==
  /\ status' = [status EXCEPT ![p] = how] /\ PteditCleanup(p)
  /\ pc' = [pc EXCEPT ![p] = 0] /\ Fresh(p, "none") /\ UNCHANGED starts
Exit(p) == Running(p) /\ pc[p] > Ends(p) /\ EndAs(p, "idle")
Kill(p) == Running(p) /\ EndAs(p, "idle")

\* The processor caches a translation of a page the program reads or writes
\* through; before ptedit_init there is only the one the kernel set up.
Translate(p, v) ==
  /\ fd[p] /\ Started(p) /\ pte[p][v] # NoEntry
  /\ \E i \in 1 .. Ends(p) :
       Script[prog[p]][i].v = v
         /\ Script[prog[p]][i].op \in {"expect", "same", "edit", "reset", "claim"}
  /\ \E c \in CPU : /\ tlb[p][v] # Walk(p, v, c)
                     /\ tlb' = [tlb EXCEPT ![p][v] = Walk(p, v, c)]
  /\ UNCHANGED <<session, control, pc, program, pte, mem>>

-----------------------------------------------------------------------------
(* ptedit_init: a program that cannot open the device returns 1.  Opening   *)
(* the device that a failed load left behind calls code that is gone.       *)
InitOk(p) ==
  /\ At(p, "init") /\ PteditInit(p) /\ Advance(p) /\ UNCHANGED <<program, memory>>
InitRefused(p) == At(p, "init") /\ Refuses(p) /\ EndAs(p, "idle")
InitOops(p) == At(p, "init") /\ module = "failed" /\ EndAs(p, "oops")

Cleanup(p) ==
  /\ At(p, "cleanup") /\ PteditCleanup(p) /\ Advance(p)
  /\ UNCHANGED <<program, memory>>

\* ptedit_resolve of the kernel implementation.
Resolve(p) ==
  /\ At(p, "resolve") /\ Advance(p)
  /\ vm' = [vm EXCEPT ![p][Ins(p).v] = pte[p][Ins(p).v]]
  /\ UNCHANGED <<session, mt, memory>>

\* ptedit_update of the lowest entry: the entry is written, then flushed.
PteditUpdate(p, v, entry) ==
  /\ pte' = [pte EXCEPT ![p][v] = entry]
  /\ tlb' = [tlb EXCEPT ![p][v] = NoTranslation]

UpdateStep(p, op, v, entry) ==
  /\ At(p, op) /\ Advance(p) /\ PteditUpdate(p, v, entry)
  /\ UNCHANGED <<session, program, mem>>

\* The frame of page x, or the page table that holds its entry.
FrameOf(p, x) == IF x = "tables" THEN "tables" ELSE pte[p][x].frame
Map(p) ==
  UpdateStep(p, "map", Ins(p).v, [vm[p][Ins(p).v] EXCEPT !.frame = FrameOf(p, Ins(p).x)])
Restore(p) == UpdateStep(p, "restore", Ins(p).v, vm[p][Ins(p).x])

\* original_pmd of uncachable.c.
Keep(p) ==
  /\ At(p, "keep") /\ Advance(p)
  /\ vm' = [vm EXCEPT ![p][Ins(p).x] = vm[p][Ins(p).v]]
  /\ UNCHANGED <<session, mt, memory>>

\* uncachable.c changes its own copy of the entry, so that the second type is
\* applied to an entry that has the first.
ApplyFound(p, v, i) ==
  [vm[p][v] EXCEPT !.bits = IF v = "h" THEN ApplyMtHuge(@, i) ELSE ApplyMt(@, i)]
ApplyStep(p) ==
  LET v == Ins(p).v
      entry == ApplyFound(p, v, mt[p][Ins(p).x])
  IN /\ At(p, "apply") /\ Advance(p) /\ PteditUpdate(p, v, entry)
     /\ vm' = [vm EXCEPT ![p][v] = entry]
     /\ UNCHANGED <<session, mt, mem>>

\* ptedit_pmap: without /proc/umem the address is not mapped.
Pmap(p) ==
  /\ At(p, "pmap") /\ Advance(p)
  /\ pte' = [pte EXCEPT ![p]["w"] =
       IF ~Mappable(p) THEN NoEntry
       ELSE [frame |-> IF Ins(p).x = "tables" THEN "tables" ELSE vm[p][Ins(p).x].frame,
             bits |-> {}]]
  /\ UNCHANGED <<session, program, tlb, mem>>

\* ptedit_invalidate_tlb.
Invalidate(p) ==
  /\ At(p, "invalidate") /\ Advance(p)
  /\ tlb' = [tlb EXCEPT ![p][Ins(p).v] = NoTranslation]
  /\ UNCHANGED <<session, program, pte, mem>>

\* Accesses that end the process: to a window that could not be mapped, and
\* of the resolver that maps physical memory.
Faults(p) ==
  \/ At(p, Ins(p).op) /\ Ins(p).v = "w" /\ Ins(p).op # "pmap" /\ pte[p]["w"] = NoEntry
  \/ At(p, "compare") /\ Ins(p).x = "user" /\ ~Mappable(p)
Segv(p) == Running(p) /\ pc[p] <= Ends(p) /\ Faults(p) /\ EndAs(p, "idle")

Store(p) ==
  /\ At(p, "store") /\ Advance(p)
  /\ \E t \in Uses(p, Ins(p).v) : mem' = [mem EXCEPT ![p][t.frame] = Ins(p).x]
  /\ UNCHANGED <<session, program, pte, tlb>>

\* A store through the window: it changes the entry of "a" where the window
\* shows the page table, and else what the frame holds.
StoreEntry(p, op, entry) ==
  /\ At(p, op) /\ ~Faults(p) /\ Advance(p)
  /\ \E t \in Uses(p, Ins(p).v) :
       IF t.frame = "tables"
       THEN pte' = [pte EXCEPT ![p]["a"] = entry] /\ UNCHANGED mem
       ELSE mem' = [mem EXCEPT ![p][t.frame] = "0"] /\ UNCHANGED pte
  /\ UNCHANGED <<session, program, tlb>>
Edit(p) == StoreEntry(p, "edit", [pte[p]["a"] EXCEPT !.frame = vm[p][Ins(p).x].frame])
Reset(p) == StoreEntry(p, "reset", vm[p]["a"])

WritePhys(p) ==
  mem' = IF PageAccess(p) THEN [mem EXCEPT ![p][pte[p][Ins(p).v].frame] = Ins(p).x]
         ELSE mem
WritePhysStep(p) ==
  /\ At(p, "writephys") /\ Advance(p) /\ WritePhys(p)
  /\ UNCHANGED <<session, program, pte, tlb>>

\* ptedit_find_first_mt; without such a type the program gives up.
Find(p) ==
  /\ At(p, "find")
  /\ \E c \in CPU : LET i == FindFirstMt(pat[c], Value[Ins(p).x]) IN
       /\ mt' = [mt EXCEPT ![p][Ins(p).x] = i]
       /\ pc' = [pc EXCEPT ![p] = IF i = -1 THEN Ends(p) ELSE @ + 1]
  /\ UNCHANGED <<session, control, vm, memory>>

\* mmap of a huge page, of which there may be none.
Huge(p) ==
  /\ At(p, "huge")
  /\ \E got \in BOOLEAN : pc' = [pc EXCEPT ![p] = IF got THEN @ + 1 ELSE Ends(p)]
  /\ UNCHANGED <<session, control, program, memory>>

\* ptedit_full_serializing_barrier sets the paging root to what it is.
Barrier(p) ==
  At(p, "barrier") /\ Advance(p) /\ UNCHANGED <<session, program, memory>>

\* What a program checks or announces.
Check(p) ==
  /\ \E op \in {"expect", "same", "compare", "readphys", "claim"} : At(p, op)
  /\ ~Faults(p) /\ Advance(p) /\ UNCHANGED <<session, program, memory>>

CallSetMt(p) ==
  /\ At(p, "call") /\ Advance(p)
  /\ \E s \in ClientTypes : PteditSetMt(p, s[1], s[2])
  /\ UNCHANGED <<program, memory>>
PatInterrupt(p) ==
  SetPatOn(p) /\ UNCHANGED <<control, pc, program, memory>>
CallLock(p) ==
  /\ At(p, "call") /\ VmLock(p)
  /\ IF ~Waits(p)' THEN Advance(p)
     ELSE status' = [status EXCEPT ![p] = "hung"] /\ UNCHANGED <<prog, starts, pc>>
  /\ UNCHANGED <<moduleVars, device_busy, types, fd, umem, program, memory>>
CallUnlock(p) ==
  /\ At(p, "call") /\ VmUnlock(p) /\ Advance(p)
  /\ UNCHANGED <<moduleVars, device_busy, types, fd, umem, program, memory>>

-----------------------------------------------------------------------------
Step(p) ==
  \/ InitOk(p) \/ InitRefused(p) \/ InitOops(p) \/ Cleanup(p) \/ Exit(p)
  \/ Resolve(p) \/ Map(p) \/ Restore(p) \/ Keep(p) \/ ApplyStep(p) \/ Pmap(p)
  \/ Invalidate(p) \/ Segv(p) \/ Store(p) \/ Edit(p) \/ Reset(p)
  \/ WritePhysStep(p) \/ Find(p) \/ Huge(p) \/ Barrier(p) \/ Check(p)
  \/ CallSetMt(p) \/ CallLock(p) \/ CallUnlock(p)

Admin == (Insmod \/ Rmmod) /\ UNCHANGED <<control, pc, program, memory>>
Next ==
  \/ Admin
  \/ \E p \in Process : Start(p) \/ Step(p) \/ Kill(p) \/ PatInterrupt(p)
  \/ \E p \in Process, v \in Page : Translate(p, v)

Spec == Init /\ [][Next]_vars
\* The scheduler runs every process, and an interrupt reaches its processor;
\* nobody has to start or kill a process.
FairSpec == Spec /\ \A p \in Process : WF_vars(Step(p)) /\ WF_vars(PatInterrupt(p))

-----------------------------------------------------------------------------
Entry == [frame : Frame, bits : SUBSET {PWT, PCD, PAT, PAT_LARGE}] \cup {NoEntry}
Translation == [frame : Frame, type : Type] \cup {NoTranslation}
\* Types of the variables; an entry keeps to the bits of its attributes.
TypeOK ==
  /\ module \in {"out", "live", "failed"}
  /\ device_busy \in BOOLEAN /\ mm_is_locked \in BOOLEAN /\ mm_writer \subseteq Process
  /\ has_umem \in BOOLEAN /\ devmem \in BOOLEAN /\ pat \in [CPU -> PatTable]
  /\ \A p \in Process : ipi[p] \subseteq CPU \X PatTable
  /\ fd \in [Process -> BOOLEAN] /\ umem \in [Process -> BOOLEAN]
  /\ starts \in 0 .. MaxStarts /\ prog \in [Process -> Programs \cup {"none"}]
  /\ mt \in [Process -> [{"UC", "WB"} -> -1 .. 7]]
  /\ vm \in [Process -> [Local -> Entry]] /\ pte \in [Process -> [Page -> Entry]]
  /\ tlb \in [Process -> [Page -> Translation]]
  /\ mem \in [Process -> [Frame -> {"0", "A", "B", "C", "S"}]]
  /\ \A p \in Process : Running(p) => pc[p] \in 1 .. Ends(p) + 1

\* One process at most has the device open, and device_busy says whether one
\* has: no end of a program, a refused one included, frees the device under
\* another or leaves it taken.
DeviceExclusive ==
  /\ \A p, q \in Process : fd[p] /\ fd[q] => p = q
  /\ module = "live" => (device_busy <=> \E p \in Process : fd[p])
  /\ module # "live" => \A p \in Process : ~fd[p]

\* No program prints "Fail", "Something went wrong" or "do not agree": what
\* it reads is what the entries it has set show, whatever the processor has
\* cached.  Left out is /proc/umem that exists and refuses RAM, where
\* ptedit_read_physical_page leaves the buffer as it was.
ChecksPass ==
  \A p \in Process : Running(p) /\ pc[p] <= Ends(p) /\ ~Faults(p) /\ PageAccess(p) =>
    LET v == Ins(p).v
        x == Ins(p).x
    IN CASE Ins(p).op = "expect" -> \A t \in Uses(p, v) : mem[p][t.frame] = x
         [] Ins(p).op = "readphys" -> mem[p][vm[p][v].frame] = x
         [] Ins(p).op = "same" -> /\ \A t \in Uses(p, v) : t.frame = "tables"
                                  /\ pte[p][x] = vm[p][x]
         [] Ins(p).op = "compare" -> pte[p][v] = vm[p][v]
         [] OTHER -> TRUE

\* When uncachable.c says that a mapping is now uncachable or cachable again,
\* every processor uses the page with that type, whichever index has it and
\* whatever was cached before, and a huge page is still one.
TypeInForce ==
  \A p \in Process : At(p, "claim") =>
    LET v == Ins(p).v IN
    /\ \A t \in Uses(p, v), c \in CPU :
         t.type = IF Ins(p).x = "before" THEN pat[c][MtOf(v, vm[p]["original"].bits)]
                  ELSE Value[Ins(p).x]
    /\ v = "h" => PSE \in pte[p][v].bits

\* A program that ends by itself has put back every entry it changed, so the
\* kernel frees each frame of it once.
RestoredAtExit ==
  \A p \in Process : Running(p) /\ pc[p] > Ends(p) =>
    \A v \in Page \ {"w"} : pte[p][v].frame = v

\* A process that has the device open and is not in ptedit_set_mt finds the
\* same types on every processor it moves to, although set_pat reaches them
\* one after another: nobody else has the device and is in the middle of it
\* (pteditor.c:230-245, device_open; uncachable.c asks for the types several
\* times).
PatUniform ==
  \A p \in Process : fd[p] /\ ipi[p] = {} => \A c, d \in CPU : pat[c] = pat[d]

\* Every program ends or hangs in VM_LOCK; one that finds the device open,
\* by a program that hangs too, is refused and does not wait.
ProgramsEnd == \A p \in Process : []<>~Started(p)
=============================================================================
