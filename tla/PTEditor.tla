------------------------------ MODULE PTEditor ------------------------------
(***************************************************************************)
(* PTEditor: reading and changing page-table entries, through the kernel   *)
(* module (module/pteditor.c) or from user space through /proc/umem        *)
(* (ptedit_header.h), on x86-64 with four levels of tables.  The calls are *)
(* the ones that change one bit or the frame of the PTE of an address:     *)
(* ptedit_resolve, a change of the copy, ptedit_update with valid = PTE.   *)
(*                                                                         *)
(* The environment is the processor, which translates addresses, caches    *)
(* translations and sets the accessed bit, and the kernel, which maps and  *)
(* unmaps pages of the same address spaces.                                *)
(***************************************************************************)
EXTENDS Integers, Sequences, FiniteSets

CONSTANTS
  Thread,   \* threads of the process that uses PTEditor
  Mm,       \* address spaces, named by pid
  Self,     \* the one of the calling process
  Va,       \* virtual pages
  Path,     \* page -> <<pgdi, pudi, pmdi, pti>>
  Table,    \* frames for page tables
  Frame,    \* frames for data
  Root,     \* mm -> the frame of its top table
  Boot,     \* the tables at the start
  Areas,    \* <<m, v>>: pages with a VMA at the start
  Edits,    \* <<t, m, v, c>>: t may change c in the entry of v
  Fresh,    \* frames the kernel maps on a page fault
  Unmaps,   \* <<m, v>>: pages that may be unmapped
  Null,     \* no frame: the pfn field is 0
  Nobody

Index == {0, 1}
Bits == {"present", "rw", "accessed", "pse", "soft"}
Entry == [bits : SUBSET Bits, pfn : Table \cup Frame \cup {Null}]
Zero == [bits |-> {}, pfn |-> Null]
Present(e) == "present" \in e.bits
Large(e) == "pse" \in e.bits

ASSUME TableAssumption == /\ Null \notin Table \cup Frame
                          /\ Table \cap Frame = {}
                          /\ Root \in [Mm -> Table]
                          /\ Boot \in [Table -> [Index -> Entry]]
                          /\ Path \in [Va -> [1 .. 4 -> Index]]
\* What an edit does: it sets or clears a bit, or sets the frame.
Changes == ({"set", "clear"} \X Bits) \cup ({"pfn"} \X Frame)
ASSUME EditAssumption == /\ Self \in Mm /\ Nobody \notin Thread
                         /\ Fresh \subseteq Frame
                         /\ Edits \subseteq Thread \X Mm \X Va \X Changes
                         /\ Areas \subseteq Mm \X Va
                         /\ Unmaps \subseteq Mm \X Va

VARIABLES
  mem,             \* table -> index -> entry
  tlb,             \* mm -> page -> cached entry; Zero when there is none
  vma,             \* <<m, v>> that have a VMA
  mmap_lock,       \* mm -> the thread that has it for writing
  ptedit_resolve,  \* the implementation in use
  invalidate_tlb,  \* the method of the kernel module
  pc, job, change, \* thread -> where it is, <<pid, page>>, what it changes
  slots,           \* thread -> places of the entries of its walk
  got,             \* thread -> the entries it read there
  vm               \* thread -> the new PTE

environment == <<tlb, vma>>
setup == <<ptedit_resolve, invalidate_tlb>>
locals == <<pc, job, change, slots, got, vm>>
vars == <<mem, tlb, vma, mmap_lock, ptedit_resolve, invalidate_tlb,
          pc, job, change, slots, got, vm>>

NoJob == CHOOSE x \in Mm \X Va : TRUE
NoChange == CHOOSE c \in Changes : TRUE

Init ==
  /\ mem = Boot
  /\ tlb = [m \in Mm |-> [v \in Va |-> Zero]]
  /\ vma = Areas
  /\ mmap_lock = [m \in Mm |-> Nobody]
  /\ ptedit_resolve = "kernel"
  /\ invalidate_tlb = "kernel"
  /\ pc = [t \in Thread |-> "idle"]
  /\ job = [t \in Thread |-> NoJob]
  /\ change = [t \in Thread |-> NoChange]
  /\ slots = [t \in Thread |-> <<>>]
  /\ got = [t \in Thread |-> <<>>]
  /\ vm = [t \in Thread |-> Zero]

-----------------------------------------------------------------------------
(* Walks: the places of the entries from the top table down, as far as a   *)
(* walk goes.  A frame that is no table reads as zeros.                    *)
EntryAt(s) == IF s[1] \in Table THEN mem[s[1]][s[2]] ELSE Zero
Write(s, e) == [mem EXCEPT ![s[1]][s[2]] = e]
Top(m, v) == <<Root[m], Path[v][1]>>
Below(e, v, k) == <<e.pfn, Path[v][k + 1]>>

\* The processor: any level below the top can end in a large page.
HardwareGoes(e, k) == Present(e) /\ ~(k \in {2, 3} /\ Large(e))
\* ptedit_resolve_user_ext looks for large pages in the PMD only.
UserGoes(e, k) == Present(e) /\ ~(k = 3 /\ Large(e))
\* resolve_vm stops at entries that are none, whatever their present bit.
KernelGoesLarge(e, k) == e # Zero                                  \* mutant
KernelGoes(e, k) == e # Zero /\ ~(k \in {2, 3} /\ Large(e))
Goes(walker, e, k) == CASE walker = "hardware" -> HardwareGoes(e, k)
                        [] walker = "user" -> UserGoes(e, k)
                        [] walker = "kernel" -> KernelGoes(e, k)

Extend(walker, w, v) ==
  LET k == Len(w)
      e == EntryAt(w[k])
  IN IF Goes(walker, e, k) THEN Append(w, Below(e, v, k)) ELSE w
WalkBy(walker, m, v) ==
  LET two == Extend(walker, <<Top(m, v)>>, v)
      three == Extend(walker, two, v)
  IN Extend(walker, three, v)

HardwareWalk(m, v) == WalkBy("hardware", m, v)
Leaf(m, v) == LET w == HardwareWalk(m, v) IN EntryAt(w[Len(w)])
PteSlots(m, v) == LET w == HardwareWalk(m, v)
                  IN IF Len(w) = 4 THEN {w[4]} ELSE {}
KernelWalk(m, v) ==
  LET w == WalkBy("kernel", m, v)
  IN IF Len(w) \in {2, 3} /\ EntryAt(w[Len(w)]) = Zero
     THEN SubSeq(w, 1, Len(w) - 1) ELSE w
HasPte(w) == Len(w) = 4

\* What demos/memmap.c lists, by the indices it prints the address from: the
\* pages, and the large pages, under the entries that are present.
AnyPage(e) == TRUE                                                 \* mutant
IsNormalPage(e) == ~Large(e)
Memmap(m) ==
  LET Used(x) == {i \in Index : Present(EntryAt(<<x, i>>))}
      Under(x, i) == EntryAt(<<x, i>>).pfn
      Pt(pd, p) == UNION {IF IsNormalPage(EntryAt(<<pd, k>>))
                          THEN {p \o <<k, l>> : l \in Used(Under(pd, k))}
                          ELSE {Append(p, k)} : k \in Used(pd)}
      Pd(pdpt, p) == UNION {Pt(Under(pdpt, j), Append(p, j)) : j \in Used(pdpt)}
  IN UNION {Pd(Under(Root[m], i), <<i>>) : i \in Used(Root[m])}

-----------------------------------------------------------------------------
(* ptedit_pte_set_bit, ptedit_pte_clear_bit, ptedit_pte_set_pfn            *)
Step(t, from, to) == pc[t] = from /\ pc' = [pc EXCEPT ![t] = to]
Pid(t) == job[t][1]
Page(t) == job[t][2]

EditCall(t, m, v, c) ==
  /\ <<t, m, v, c>> \in Edits /\ <<m, v>> \in vma
  /\ Step(t, "idle", "resolve")
  /\ job' = [job EXCEPT ![t] = <<m, v>>]
  /\ change' = [change EXCEPT ![t] = c]
  /\ UNCHANGED <<mem, environment, mmap_lock, setup, slots, got, vm>>

\* Without the mask the numbers of the two frames make that of a third.
ApplyOr(e, c) ==                                                   \* mutant
  [e EXCEPT !.pfn = IF c[1] = "pfn" THEN 0 ELSE @]
Apply(e, c) ==
  CASE c[1] = "set" -> [e EXCEPT !.bits = @ \cup {c[2]}]
    [] c[1] = "clear" -> [e EXCEPT !.bits = @ \ {c[2]}]
    [] c[1] = "pfn" -> [e EXCEPT !.pfn = c[2]]

Leave(t) == /\ job' = [job EXCEPT ![t] = NoJob]
            /\ change' = [change EXCEPT ![t] = NoChange]
            /\ vm' = [vm EXCEPT ![t] = Zero]

\* Without a PTE the call returns and does nothing.
Change(t) ==
  /\ Step(t, "change", IF HasPte(slots[t]) THEN "update" ELSE "idle")
  /\ IF HasPte(slots[t])
     THEN /\ vm' = [vm EXCEPT ![t] = Apply(got[t][4], change[t])]
          /\ UNCHANGED <<job, change>>
     ELSE Leave(t)
  /\ slots' = [slots EXCEPT ![t] = <<>>]
  /\ got' = [got EXCEPT ![t] = <<>>]
  /\ UNCHANGED <<mem, environment, mmap_lock, setup>>

Return(t) ==
  /\ Step(t, "done", "idle")
  /\ Leave(t)
  /\ slots' = [slots EXCEPT ![t] = <<>>]
  /\ got' = [got EXCEPT ![t] = <<>>]
  /\ UNCHANGED <<mem, environment, mmap_lock, setup>>

-----------------------------------------------------------------------------
(* The kernel module: resolve_vm walks with the lock held for reading, and *)
(* vm_to_user follows the pointers when it has been released.              *)
KernelResolve(t) ==
  /\ ptedit_resolve = "kernel"
  /\ mmap_lock[Pid(t)] = Nobody
  /\ Step(t, "resolve", "copy")
  /\ slots' = [slots EXCEPT ![t] = KernelWalk(Pid(t), Page(t))]
  /\ UNCHANGED <<mem, environment, mmap_lock, setup, job, change, got, vm>>

VmToUser(t) ==
  /\ Step(t, "copy", "change")
  /\ got' = [got EXCEPT ![t] = [k \in DOMAIN slots[t] |-> EntryAt(slots[t][k])]]
  /\ UNCHANGED <<mem, environment, mmap_lock, setup, job, change, slots, vm>>

\* update_vm holds the lock for writing from its walk to its flush.
UpdateAt(t, w) ==
  /\ ptedit_resolve = "kernel"
  /\ mmap_lock[Pid(t)] = Nobody
  /\ Step(t, "update", "flush")
  /\ mmap_lock' = [mmap_lock EXCEPT ![Pid(t)] = t]
  /\ mem' = IF HasPte(w) THEN Write(w[4], vm[t]) ELSE mem
  /\ UNCHANGED <<environment, setup, job, change, slots, got, vm>>
UpdateVmTables(t) ==                                               \* mutant
  UpdateAt(t, SubSeq(KernelWalk(Pid(t), Page(t)), 1, 3))
UpdateVm(t) == UpdateAt(t, KernelWalk(Pid(t), Page(t)))

\* invalidate_tlb_kernel flushes the address space of the calling task,
\* invalidate_tlb_custom the address in every one.
FlushIn(ms, v) ==
  tlb' = [m \in Mm |-> IF m \in ms THEN [tlb[m] EXCEPT ![v] = Zero] ELSE tlb[m]]
InvalidateNone(v) == FlushIn({}, v)                                \* mutant
Invalidate(v) == FlushIn(IF invalidate_tlb = "kernel" THEN {Self} ELSE Mm, v)

KernelFlush(t) ==
  /\ ptedit_resolve = "kernel"
  /\ Step(t, "flush", "done")
  /\ Invalidate(Page(t))
  /\ mmap_lock' = [mmap_lock EXCEPT ![Pid(t)] = Nobody]
  /\ UNCHANGED <<mem, vma, setup, job, change, slots, got, vm>>

-----------------------------------------------------------------------------
(* From user space: every entry is read by a pread of its own, without any *)
(* lock, once for ptedit_resolve and once more for ptedit_update.          *)
UserPlacePmdi(t, k) ==                                             \* mutant
  IF k = 1 THEN Top(Pid(t), Page(t)) ELSE Below(got[t][k - 1], Page(t), k - 2)
UserPlace(t, k) ==
  IF k = 1 THEN Top(Pid(t), Page(t)) ELSE Below(got[t][k - 1], Page(t), k - 1)
UserDeref(t, from, to) ==
  LET k == Len(slots[t]) + 1
      e == EntryAt(UserPlace(t, k))
  IN /\ ptedit_resolve = "user"
     /\ Step(t, from, IF k < 4 /\ UserGoes(e, k) THEN from ELSE to)
     /\ slots' = [slots EXCEPT ![t] = Append(@, UserPlace(t, k))]
     /\ got' = [got EXCEPT ![t] = Append(@, e)]
     /\ UNCHANGED <<mem, environment, mmap_lock, setup, job, change, vm>>
UserResolve(t) == UserDeref(t, "resolve", "change")
UserCurrent(t) == UserDeref(t, "update", "write")

UserWriteAt(t, s) ==
  /\ Step(t, "write", "flush")
  /\ mem' = IF HasPte(slots[t]) THEN Write(s, vm[t]) ELSE mem
  /\ UNCHANGED <<environment, mmap_lock, setup, job, change, slots, got, vm>>
UserWritePmdi(t) ==                                                \* mutant
  UserWriteAt(t, Below(got[t][3], Page(t), 2))
UserWrite(t) == UserWriteAt(t, Below(got[t][3], Page(t), 3))

\* ptedit_update_user flushes after ptedit_update_user_ext has done so.
UserFlush(t, from, to) ==
  /\ ptedit_resolve = "user"
  /\ Step(t, from, to)
  /\ Invalidate(Page(t))
  /\ UNCHANGED <<mem, vma, mmap_lock, setup, job, change, slots, got, vm>>

-----------------------------------------------------------------------------
(* ptedit_use_implementation and ptedit_switch_tlb_invalidation, called    *)
(* while nothing else of PTEditor runs.                                    *)
AllIdle == \A t \in Thread : pc[t] = "idle"
UseImplementation(i) ==
  /\ AllIdle
  /\ ptedit_resolve' = i
  /\ UNCHANGED <<mem, environment, mmap_lock, invalidate_tlb, locals>>
SwitchTlbInvalidation(i) ==
  /\ AllIdle
  /\ invalidate_tlb' = i
  /\ UNCHANGED <<mem, environment, mmap_lock, ptedit_resolve, locals>>

-----------------------------------------------------------------------------
(* The processor and the kernel.                                           *)
Translate(m, v) ==
  LET w == HardwareWalk(m, v)
      e == [EntryAt(w[Len(w)]) EXCEPT !.bits = @ \cup {"accessed"}]
  IN /\ <<m, v>> \in vma /\ tlb[m][v] = Zero
     /\ Len(w) = 4 \/ Large(e)
     /\ Present(e)
     /\ mem' = Write(w[Len(w)], e)
     /\ tlb' = [tlb EXCEPT ![m][v] = e]
     /\ UNCHANGED <<vma, mmap_lock, setup, locals>>

Used == {Root[m] : m \in Mm}
        \cup {mem[x][i].pfn : x \in Table, i \in Index}

\* A page fault maps a frame, and a new table first where there is none.
KernelFault(m, v, f) ==
  LET w == HardwareWalk(m, v)
      s == w[Len(w)]
  IN /\ <<m, v>> \in vma
     /\ mmap_lock[m] = Nobody
     /\ EntryAt(s) = Zero
     /\ \/ /\ Len(w) = 4
           /\ mem' = Write(s, [bits |-> {"present", "rw"}, pfn |-> f])
        \/ /\ Len(w) = 3
           /\ \E x \in Table \ Used :
                mem' = Write(s, [bits |-> {"present", "rw"}, pfn |-> x])
     /\ UNCHANGED <<environment, mmap_lock, setup, locals>>

\* munmap frees a table when no other VMA needs it.
KernelUnmap(m, v) ==
  LET w == HardwareWalk(m, v)
      others == {u \in Va \ {v} : /\ <<m, u>> \in vma
                                  /\ \A k \in 1 .. 3 : Path[u][k] = Path[v][k]}
  IN /\ <<m, v>> \in vma \cap Unmaps
     /\ \A t \in Thread : pc[t] # "idle" => job[t] # <<m, v>>
     /\ mmap_lock[m] = Nobody
     /\ mem' = IF ~HasPte(w) THEN mem
               ELSE IF others # {} THEN Write(w[4], Zero)
               ELSE [mem EXCEPT ![w[4][1]] = [i \in Index |-> Zero],
                                ![w[3][1]][w[3][2]] = Zero]
     /\ tlb' = [tlb EXCEPT ![m][v] = Zero]
     /\ vma' = vma \ {<<m, v>>}
     /\ UNCHANGED <<mmap_lock, setup, locals>>

KernelMap(m, v) ==
  /\ <<m, v>> \in Unmaps \ vma
  /\ mmap_lock[m] = Nobody
  /\ vma' = vma \cup {<<m, v>>}
  /\ UNCHANGED <<mem, tlb, mmap_lock, setup, locals>>

-----------------------------------------------------------------------------
KernelSteps(t) == KernelResolve(t) \/ VmToUser(t) \/ UpdateVm(t) \/ KernelFlush(t)
UserSteps(t) == \/ UserResolve(t) \/ UserCurrent(t) \/ UserWrite(t)
                \/ UserFlush(t, "flush", "again") \/ UserFlush(t, "again", "done")
Environment(m, v) == \/ Translate(m, v) \/ KernelUnmap(m, v) \/ KernelMap(m, v)
                     \/ \E f \in Fresh : KernelFault(m, v, f)

Next ==
  \/ \E t \in Thread :
       \/ \E m \in Mm, v \in Va, c \in Changes : EditCall(t, m, v, c)
       \/ Change(t) \/ Return(t) \/ KernelSteps(t) \/ UserSteps(t)
  \/ \E i \in {"kernel", "user"} : UseImplementation(i)
  \/ \E i \in {"kernel", "custom"} : SwitchTlbInvalidation(i)
  \/ \E m \in Mm, v \in Va : Environment(m, v)

Spec == Init /\ [][Next]_vars

-----------------------------------------------------------------------------
(* Type invariant; in particular no walk leaves the page tables.           *)
TypeOK ==
  /\ mem \in [Table -> [Index -> Entry]]
  /\ tlb \in [Mm -> [Va -> Entry]]
  /\ vma \subseteq Mm \X Va
  /\ mmap_lock \in [Mm -> Thread \cup {Nobody}]
  /\ ptedit_resolve \in {"kernel", "user"}
  /\ invalidate_tlb \in {"kernel", "custom"}
  /\ pc \in [Thread -> {"idle", "resolve", "copy", "change", "update", "write",
                        "flush", "again", "done"}]
  /\ job \in [Thread -> Mm \X Va]
  /\ change \in [Thread -> Changes]
  /\ vm \in [Thread -> Entry]
  /\ \A t \in Thread :
       /\ Len(slots[t]) \in 0 .. 4
       /\ \A k \in DOMAIN slots[t] : slots[t][k] \in Table \X Index
       /\ \A k \in DOMAIN got[t] : got[t][k] \in Entry

(* The places a walk has found stay the places the processor uses while    *)
(* PTEditor reads and writes them, although neither vm_to_user nor the     *)
(* walk from user space has a lock (pteditor.c:461-462,                    *)
(* ptedit_header.h:1124-1172, 1241-1246).                                  *)
PointersCurrent ==
  \A t \in Thread :
    \A k \in DOMAIN slots[t] :
      /\ k <= Len(HardwareWalk(Pid(t), Page(t)))
      /\ slots[t][k] = HardwareWalk(Pid(t), Page(t))[k]

(* The two implementations of ptedit_resolve find the same entries, except *)
(* that the one in user space also reports an empty entry at which it has  *)
(* to stop (ptedit_header.h:1083-1185, pteditor.c:267-364).                *)
WalksAgree ==
  \A m \in Mm, v \in Va :
    LET u == WalkBy("user", m, v)
        k == KernelWalk(m, v)
    IN \/ u = k
       \/ /\ ~HasPte(u)
          /\ u = Append(k, u[Len(u)])
          /\ EntryAt(u[Len(u)]) = Zero

(* memmap.c lists an address, as a page of its size, exactly when the      *)
(* processor translates it, whichever entries edits and the kernel have    *)
(* left behind (memmap.c:60-112).                                          *)
MemmapAgrees ==
  \A m \in Mm :
    LET listed == Memmap(m) IN
    \A v \in Va :
      LET n == Len(HardwareWalk(m, v))
      IN {i \in listed : i = SubSeq(Path[v], 1, Len(i))}
           = IF Present(Leaf(m, v)) THEN {SubSeq(Path[v], 1, n)} ELSE {}

(* An address of the caller's own process is translated by an outdated     *)
(* entry only between the write of an edit and its flush (pteditor.c:      *)
(* 408-420, ptedit_header.h:1241-1286).                                    *)
SameMapping(e, f) == e.pfn = f.pfn /\ e.bits \ {"accessed"} = f.bits \ {"accessed"}
TlbCoherent ==
  \A v \in Va :
    \/ tlb[Self][v] = Zero
    \/ SameMapping(tlb[Self][v], Leaf(Self, v))
    \/ \E t \in Thread : pc[t] \in {"flush", "again"} /\ job[t] = <<Self, v>>

(* ptedit_header.h:390-391, "The TLB for the given address is flushed      *)
(* after updating the entries": when a call returns, the processor uses    *)
(* the entry with the change, whether cached or not.                       *)
EditInForce ==
  \A t \in Thread :
    pc[t] = "done" /\ vm[t] # Zero =>
      /\ Apply(Leaf(Pid(t), Page(t)), change[t]) = Leaf(Pid(t), Page(t))
      /\ LET e == tlb[Pid(t)][Page(t)]
         IN e = Zero \/ Apply(e, change[t]) = e

(* Only PTEditor's edits change the frame or the permissions in an entry   *)
(* that is in use, and an edit changes no entry but the PTE of its page,   *)
(* not even an empty one: entries are filled and cleared elsewhere by the  *)
(* kernel alone, whose steps are none of a thread that uses PTEditor       *)
(* (pteditor.c:408-411, ptedit_header.h:1241-1246).                        *)
OnlyEditsChangeEntries ==
  [][\A x \in Table, i \in Index :
       \/ Zero \in {mem[x][i], mem'[x][i]} /\ UNCHANGED pc
       \/ SameMapping(mem[x][i], mem'[x][i])
       \/ \E t \in Thread : /\ pc[t] \in {"update", "write"}
                            /\ pc'[t] # pc[t]
                            /\ <<x, i>> \in PteSlots(Pid(t), Page(t))]_vars
=============================================================================
