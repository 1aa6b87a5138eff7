------------------------ MODULE PTEditorDemosProofs -------------------------
(***************************************************************************)
(* Proofs about PTEditorDemos for every set of processes and processors    *)
(* and any programs: one process at a time has the device, device_busy     *)
(* tells whether one has, and a process that has it and is not in set_pat  *)
(* finds the same memory types on all processors.                          *)
(* And about MemoryTypes: the index that is applied to an entry is the one *)
(* that is read from it, by the functions for small and for huge pages.    *)
(***************************************************************************)
EXTENDS PTEditorDemos, TLAPS

(* A process in set_pat keeps the device open and stays in its program     *)
(* (pteditor.c:243-245: on_each_cpu waits).                                *)
InSetPat == \A p \in Process : ipi[p] # {} => fd[p] /\ Started(p)

(* The interrupts of one set_pat have one argument, and a processor that   *)
(* has served its own has the types of those still to be served            *)
(* (pteditor.c:230-245).                                                   *)
Served ==
  \A p \in Process : \A m, n \in ipi[p] :
    m[2] = n[2] /\ \A c \in CPU : <<c, m[2]>> \in ipi[p] \/ pat[c] = m[2]

(* While no process is in set_pat, the processors agree.                   *)
Agree == (\A p \in Process : ipi[p] = {}) => \A c, d \in CPU : pat[c] = pat[d]

SessionType ==
  /\ fd \in [Process -> BOOLEAN] /\ device_busy \in BOOLEAN
  /\ module \in {"out", "live", "failed"}
  /\ pat \in [CPU -> PatTable]
  /\ DOMAIN ipi = Process /\ ipi = [p \in Process |-> ipi[p]]
  /\ \A p \in Process : ipi[p] \subseteq CPU \X PatTable
  /\ DOMAIN status = Process /\ status = [p \in Process |-> status[p]]

IInv == SessionType /\ InSetPat /\ Served /\ Agree /\ DeviceExclusive

(* The part of the state that the invariant is about, without the device.  *)
typeCore == <<pat, ipi>>
sessionCore == <<module, device_busy, fd, typeCore>>

-----------------------------------------------------------------------------
(* The steps of a program that only edit entries and memory, and those of  *)
(* the processor, leave the session alone.                                 *)
LEMMA QuietSteps ==
  ASSUME NEW p \in Process, NEW v \in Page,
         \/ Resolve(p) \/ Map(p) \/ Restore(p) \/ Keep(p) \/ ApplyStep(p)
         \/ Pmap(p) \/ Invalidate(p) \/ Store(p) \/ Edit(p) \/ Reset(p)
         \/ WritePhysStep(p) \/ Find(p) \/ Huge(p) \/ Barrier(p) \/ Check(p)
         \/ Translate(p, v)
  PROVE  UNCHANGED <<sessionCore, status>>
<1>1. UNCHANGED <<session, control>>
  BY DEF Resolve, Map, Restore, Keep, ApplyStep, UpdateStep, Pmap, Invalidate,
         Store, Edit, Reset, StoreEntry, WritePhysStep, Find, Huge, Barrier, Check,
         Translate, Advance
<1> QED
  BY <1>1 DEF session, sessionCore, typeCore, types, moduleVars, control

(* A step that leaves the session alone keeps the invariant.               *)
LEMMA StutterKeeps ==
  ASSUME IInv, UNCHANGED <<sessionCore, status>>
  PROVE  IInv'
BY DEF IInv, SessionType, InSetPat, Served, Agree, Started, sessionCore, typeCore,
       DeviceExclusive

(* While the types and interrupts stay, so does what is said of them, if   *)
(* no process in set_pat leaves its program or closes the device.          *)
LEMMA TypesKept ==
  ASSUME IInv, UNCHANGED typeCore,
         \A p \in Process : ipi[p] # {} => fd'[p] /\ Started(p)'
  PROVE  InSetPat' /\ Served' /\ Agree'
BY DEF IInv, InSetPat, Served, Agree, typeCore

(* device_release is called for the one process that has the device open,  *)
(* and not from within set_pat; the process may leave its program.         *)
LEMMA CleanupKeeps ==
  ASSUME IInv, NEW p \in Process, Running(p), PteditCleanup(p), NEW s,
         status' = [status EXCEPT ![p] = s]
  PROVE  IInv'
<1>1. /\ fd' = [fd EXCEPT ![p] = FALSE] /\ device_busy' = (device_busy /\ ~fd[p])
      /\ UNCHANGED <<module, typeCore>>
  BY DEF PteditCleanup, DeviceRelease, moduleVars, types, typeCore
<1>2. \A q \in Process : fd'[q] <=> (fd[q] /\ q # p)
  BY <1>1 DEF IInv, SessionType
<1>3. SessionType'
  BY <1>1 DEF IInv, SessionType, typeCore
<1>4. \A q \in Process : ipi[q] # {} => q # p /\ fd[q] /\ status[q] = "run"
  BY DEF IInv, InSetPat, Started, Running
<1>5. \A q \in Process : ipi[q] # {} => fd'[q] /\ Started(q)'
  BY <1>2, <1>4 DEF IInv, SessionType, Started
<1>6. InSetPat' /\ Served' /\ Agree'
  BY <1>1, <1>5, TypesKept
<1>7. DeviceExclusive'
  BY <1>1, <1>2 DEF IInv, DeviceExclusive
<1> QED
  BY <1>3, <1>6, <1>7 DEF IInv

(* device_open succeeds only when no process has the device open.          *)
LEMMA OpenKeeps ==
  ASSUME IInv, NEW p \in Process, PteditInit(p), status' = status
  PROVE  IInv'
<1>1. /\ module = "live" /\ ~device_busy /\ device_busy' = TRUE
      /\ fd' = [fd EXCEPT ![p] = TRUE] /\ UNCHANGED <<module, typeCore>>
  BY DEF PteditInit, DeviceOpen, moduleVars, types, typeCore
<1>2. \A q \in Process : ~fd[q]
  BY <1>1 DEF IInv, DeviceExclusive
<1>3. \A q \in Process : fd'[q] <=> q = p
  BY <1>1, <1>2 DEF IInv, SessionType
<1>4. SessionType'
  BY <1>1 DEF IInv, SessionType, typeCore
<1>5. \A q \in Process : ipi[q] = {}
  BY <1>2 DEF IInv, InSetPat
<1>6. InSetPat' /\ Served' /\ Agree'
  BY <1>1, <1>5, TypesKept
<1>7. DeviceExclusive'
  BY <1>1, <1>3 DEF DeviceExclusive
<1> QED
  BY <1>4, <1>6, <1>7 DEF IInv

(* What ptedit_set_mt makes of a PAT is a PAT.                             *)
LEMMA SetMtType ==
  ASSUME NEW old \in PatTable, NEW mtx \in Index, NEW value \in Type,
         NEW table \in SetMt(old, mtx, value)
  PROVE  table \in PatTable
<1> DEFINE Cleared(i) == [old EXCEPT ![i] = {}]
           Put(o) == [o EXCEPT ![mtx] = @ \cup value]
<1>1. \A i : Cleared(i) \in PatTable
  BY DEF PatTable, Type
<1>2. \A o \in PatTable : Put(o) \in PatTable
  BY DEF PatTable, Type
<1>3. table \in {Put(Cleared(i)) : i \in {mtx, mtx - 4}} \cup {Put(old)}
  BY DEF SetMt
<1> HIDE DEF Cleared, Put
<1> QED
  BY <1>1, <1>2, <1>3

(* Only the process that has the device open begins a set_pat, while no    *)
(* other is in one (pteditor.c:243, device_open).                          *)
LEMMA SetMtKeeps ==
  ASSUME IInv, NEW p \in Process, Running(p), NEW mtx \in Index,
         NEW value \in Type, PteditSetMt(p, mtx, value), status' = status
  PROVE  IInv'
<1>1. fd[p] /\ UNCHANGED <<module, device_busy, pat, fd>>
  BY DEF PteditSetMt, moduleVars, locks
<1>2. PICK c \in CPU : \E table \in SetMt(pat[c], mtx, value) : SetPat(p, table)
  BY DEF PteditSetMt
<1>3. PICK table \in SetMt(pat[c], mtx, value) :
        ipi' = [ipi EXCEPT ![p] = CPU \X {table}]
  BY <1>2 DEF SetPat
<1>4. pat[c] \in PatTable
  BY DEF IInv, SessionType
<1>5. table \in PatTable
  BY <1>4, SetMtType
<1>6. \A q \in Process : q # p => ipi[q] = {}
  BY <1>1 DEF IInv, InSetPat, DeviceExclusive
<1>7. \A q \in Process : ipi'[q] = IF q = p THEN CPU \X {table} ELSE {}
  BY <1>3, <1>6 DEF IInv, SessionType
<1>8. SessionType'
  <2>1. DOMAIN ipi' = Process /\ ipi' = [q \in Process |-> ipi'[q]]
    BY <1>3 DEF IInv, SessionType
  <2>2. \A q \in Process : ipi'[q] \subseteq CPU \X PatTable
    BY <1>5, <1>7
  <2> QED
    BY <1>1, <2>1, <2>2 DEF IInv, SessionType
<1>9. InSetPat'
  BY <1>1, <1>7 DEF InSetPat, Running, Started
<1>10. Served'
  BY <1>7 DEF Served
<1>11. Agree'
  <2>1. <<c, table>> \in ipi'[p]
    BY <1>7
  <2> QED
    BY <2>1 DEF Agree
<1>12. DeviceExclusive'
  BY <1>1 DEF IInv, DeviceExclusive
<1> QED
  BY <1>8, <1>9, <1>10, <1>11, <1>12 DEF IInv

(* _set_pat on one more processor; after the last all have the new types   *)
(* (pteditor.c:230-245).                                                   *)
LEMMA InterruptKeeps ==
  ASSUME IInv, NEW p \in Process, SetPatOn(p), status' = status
  PROVE  IInv'
<1>1. UNCHANGED <<module, device_busy, fd>>
  BY DEF SetPatOn, moduleVars
<1>2. PICK m \in ipi[p] : /\ pat' = [pat EXCEPT ![m[1]] = m[2]]
                          /\ ipi' = [ipi EXCEPT ![p] = ipi[p] \ {m}]
  BY DEF SetPatOn, IInv, SessionType
<1>3. m[1] \in CPU /\ m[2] \in PatTable /\ m = <<m[1], m[2]>>
  BY DEF IInv, SessionType
<1>4. \A c \in CPU : pat'[c] = IF c = m[1] THEN m[2] ELSE pat[c]
  BY <1>2 DEF IInv, SessionType
<1>5. fd[p] /\ \A q \in Process : q # p => ipi[q] = {}
  BY DEF IInv, InSetPat, DeviceExclusive
<1>6. \A q \in Process : ipi'[q] = IF q = p THEN ipi[p] \ {m} ELSE {}
  BY <1>2, <1>5 DEF IInv, SessionType
<1>7. \A n \in ipi[p] : n[2] = m[2]
  BY DEF IInv, Served
<1>8. \A c \in CPU : <<c, m[2]>> \in ipi[p] \ {m} \/ pat'[c] = m[2]
  <2>1. \A c \in CPU : <<c, m[2]>> \in ipi[p] \/ pat[c] = m[2]
    BY DEF IInv, Served
  <2> QED
    BY <1>3, <1>4, <2>1
<1>9. SessionType'
  <2>1. pat' \in [CPU -> PatTable]
    BY <1>2, <1>3 DEF IInv, SessionType
  <2>2. DOMAIN ipi' = Process /\ ipi' = [q \in Process |-> ipi'[q]]
    BY <1>2 DEF IInv, SessionType
  <2>3. \A q \in Process : ipi'[q] \subseteq CPU \X PatTable
    BY <1>6 DEF IInv, SessionType
  <2> QED
    BY <1>1, <2>1, <2>2, <2>3 DEF IInv, SessionType
<1>10. InSetPat'
  BY <1>1, <1>6 DEF IInv, InSetPat, Started
<1>11. Served'
  BY <1>6, <1>7, <1>8 DEF Served
<1>12. Agree'
  BY <1>6, <1>8 DEF Agree
<1>13. DeviceExclusive'
  BY <1>1 DEF IInv, DeviceExclusive
<1> QED
  BY <1>9, <1>10, <1>11, <1>12, <1>13 DEF IInv

(* A step of a program.                                                    *)
LEMMA ProgramKeeps ==
  ASSUME IInv, NEW p \in Process, Start(p) \/ Step(p) \/ Kill(p)
  PROVE  IInv'
<1>1. CASE \/ Resolve(p) \/ Map(p) \/ Restore(p) \/ Keep(p) \/ ApplyStep(p)
           \/ Pmap(p) \/ Invalidate(p) \/ Store(p) \/ Edit(p) \/ Reset(p)
           \/ WritePhysStep(p) \/ Find(p) \/ Huge(p) \/ Barrier(p) \/ Check(p)
  <2>1. "a" \in Page
    BY DEF Page, Small
  <2> QED
    BY <1>1, <2>1, QuietSteps, StutterKeeps
<1>2. CASE InitOk(p)
  BY <1>2, OpenKeeps DEF InitOk, Advance, control
<1>3. CASE Cleanup(p)
  <2>1. Running(p) /\ PteditCleanup(p) /\ status' = status
    BY <1>3 DEF Cleanup, At, Advance, control
  <2>2. status' = [status EXCEPT ![p] = status[p]]
    BY <2>1 DEF IInv, SessionType
  <2> QED
    BY <2>1, <2>2, CleanupKeeps
<1>4. CASE InitRefused(p) \/ InitOops(p) \/ Exit(p) \/ Segv(p) \/ Kill(p)
  <2>1. Running(p) /\ (EndAs(p, "idle") \/ EndAs(p, "oops"))
    BY <1>4 DEF InitRefused, InitOops, Exit, Segv, Kill, At
  <2>2. PteditCleanup(p) /\ \E s \in {"idle", "oops"} : status' = [status EXCEPT ![p] = s]
    BY <2>1 DEF EndAs
  <2> QED
    BY <2>1, <2>2, CleanupKeeps
<1>5. CASE CallSetMt(p)
  <2>1. PICK s \in ClientTypes : PteditSetMt(p, s[1], s[2])
    BY <1>5 DEF CallSetMt
  <2>2. s[1] \in Index /\ s[2] \in Type
    BY ClientAssumption
  <2>3. Running(p) /\ status' = status
    BY <1>5 DEF CallSetMt, At, Advance, control
  <2> QED
    BY <2>1, <2>2, <2>3, SetMtKeeps
<1>6. CASE Start(p) \/ CallLock(p) \/ CallUnlock(p)
  <2>1. UNCHANGED sessionCore
    BY <1>6 DEF Start, CallLock, CallUnlock, session, sessionCore, typeCore, types, moduleVars
  <2>2. /\ ipi[p] = {}
        /\ \E s \in {"run", "hung", status[p]} : status' = [status EXCEPT ![p] = s]
    <3>1. CASE Start(p)
      BY <3>1 DEF Start, IInv, InSetPat, Started
    <3>2. CASE CallLock(p) \/ CallUnlock(p)
      <4>1. ipi[p] = {}
        BY <3>2 DEF CallLock, CallUnlock, At, Running
      <4>2. status' = status \/ status' = [status EXCEPT ![p] = "hung"]
        BY <3>2 DEF CallLock, CallUnlock, Advance, control
      <4>3. status = [status EXCEPT ![p] = status[p]]
        BY DEF IInv, SessionType
      <4> QED
        BY <4>1, <4>2, <4>3
    <3> QED
      BY <1>6, <3>1, <3>2
  <2>3. \A q \in Process : ipi[q] # {} => fd'[q] /\ Started(q)'
    BY <2>1, <2>2 DEF sessionCore, IInv, SessionType, InSetPat, Started
  <2>4. InSetPat' /\ Served' /\ Agree'
    BY <2>1, <2>3, TypesKept DEF sessionCore
  <2>5. SessionType' /\ DeviceExclusive'
    BY <2>1, <2>2 DEF IInv, SessionType, DeviceExclusive, sessionCore, typeCore
  <2> QED
    BY <2>4, <2>5 DEF IInv
<1> QED
  BY <1>1, <1>2, <1>3, <1>4, <1>5, <1>6 DEF Step

(* Every step keeps the invariant.                                         *)
LEMMA StepKeeps ==
  ASSUME IInv, [Next]_vars
  PROVE  IInv'
<1>1. CASE UNCHANGED vars
  BY <1>1, StutterKeeps
  DEF vars, session, control, sessionCore, typeCore, types, moduleVars
<1>2. CASE Insmod /\ UNCHANGED control
  <2>1. /\ \A p \in Process : ~fd[p]
        /\ device_busy' = FALSE /\ module' \in {"out", "failed", "live"}
        /\ UNCHANGED <<fd, typeCore, status>>
    BY <1>2 DEF Insmod, types, typeCore, control, IInv, DeviceExclusive
  <2>2. InSetPat' /\ Served' /\ Agree'
    BY <2>1, TypesKept DEF IInv, InSetPat, Started
  <2> QED
    BY <2>1, <2>2 DEF IInv, SessionType, DeviceExclusive, typeCore
<1>3. CASE Rmmod /\ UNCHANGED control
  <2>1. /\ \A p \in Process : ~fd[p]
        /\ module' = "out" /\ UNCHANGED <<device_busy, fd, typeCore, status>>
    BY <1>3 DEF Rmmod, types, typeCore, control
  <2>2. InSetPat' /\ Served' /\ Agree'
    BY <2>1, TypesKept DEF IInv, InSetPat, Started
  <2> QED
    BY <2>1, <2>2 DEF IInv, SessionType, DeviceExclusive, typeCore
<1>4. CASE \E p \in Process : Start(p) \/ Step(p) \/ Kill(p)
  BY <1>4, ProgramKeeps
<1>5. CASE \E p \in Process : PatInterrupt(p)
  BY <1>5, InterruptKeeps DEF PatInterrupt, control
<1>6. CASE \E p \in Process, v \in Page : Translate(p, v)
  BY <1>6, QuietSteps, StutterKeeps
<1>7. \/ UNCHANGED vars \/ (Insmod /\ UNCHANGED control) \/ (Rmmod /\ UNCHANGED control)
      \/ \E p \in Process : Start(p) \/ Step(p) \/ Kill(p)
      \/ \E p \in Process : PatInterrupt(p)
      \/ \E p \in Process, v \in Page : Translate(p, v)
  BY DEF Next, Admin
<1> QED
  BY <1>1, <1>2, <1>3, <1>4, <1>5, <1>6, <1>7

(* The invariant holds from the start.                                     *)
LEMMA InitHolds == Init => IInv
<1> SUFFICES ASSUME Init PROVE IInv
  OBVIOUS
<1>1. /\ module = "out" /\ device_busy = FALSE
      /\ fd = [p \in Process |-> FALSE] /\ ipi = [p \in Process |-> {}]
      /\ status = [p \in Process |-> "idle"]
  BY DEF Init, SessionInit
<1>2. PICK boot \in BootPats : pat = [c \in CPU |-> boot]
  BY DEF Init, SessionInit
<1>3. SessionType
  BY <1>1, <1>2, PatAssumption DEF SessionType
<1>4. InSetPat /\ Served
  BY <1>1 DEF InSetPat, Served
<1>5. Agree
  BY <1>2 DEF Agree
<1>6. DeviceExclusive
  BY <1>1 DEF DeviceExclusive
<1> QED
  BY <1>3, <1>4, <1>5, <1>6 DEF IInv

(* Whatever processes run which programs, are killed, refused or hang, one *)
(* at most has /dev/pteditor open, and device_busy is set exactly then     *)
(* (device_open, device_release, pteditor_init, pteditor_exit).            *)
THEOREM DeviceIsExclusive == Spec => []DeviceExclusive
<1>1. IInv => DeviceExclusive
  BY DEF IInv
<1> QED
  BY <1>1, InitHolds, StepKeeps, PTL DEF Spec

(* A process that has the device open finds the same memory types on all   *)
(* processors unless it is itself in set_pat, which reaches them one by    *)
(* one: no other process can be in it (set_pat, device_open).              *)
THEOREM TypesAreUniform == Spec => []PatUniform
<1>1. IInv => PatUniform
  <2> SUFFICES ASSUME IInv, NEW p \in Process, fd[p], ipi[p] = {}
               PROVE  \A c, d \in CPU : pat[c] = pat[d]
    BY DEF PatUniform
  <2>1. \A q \in Process : ipi[q] = {}
    BY DEF IInv, InSetPat, DeviceExclusive
  <2> QED
    BY <2>1 DEF IInv, Agree
<1> QED
  BY <1>1, InitHolds, StepKeeps, PTL DEF Spec

-----------------------------------------------------------------------------
(* An index is the sum of its bits (ptedit_apply_mt, ptedit_extract_mt).   *)
LEMMA IndexBits ==
  ASSUME NEW i \in Index
  PROVE  /\ Bits(i) \subseteq {1, 2, 4}
         /\ (IF 1 \in Bits(i) THEN 1 ELSE 0) + (IF 2 \in Bits(i) THEN 2 ELSE 0)
              + (IF 4 \in Bits(i) THEN 4 ELSE 0) = i
<1>1. i \in {0, 1, 2, 3, 4, 5, 6, 7}
  BY DEF Index
<1> QED
  BY <1>1 DEF Bits

(* After apply, the three bits of the entry are those of the index.        *)
LEMMA AppliedBits ==
  ASSUME NEW i \in Index, NEW high \in {PAT, PAT_LARGE}, NEW e
  PROVE  \A b \in {1, 2, 4} : BitOf(b, high) \in Apply(e, i, high) <=> b \in Bits(i)
<1>1. /\ BitOf(1, high) = 3 /\ BitOf(2, high) = 4 /\ BitOf(4, high) = high
      /\ high \in {7, 12}
  BY DEF BitOf, PWT, PCD, PAT, PAT_LARGE
<1>2. Bits(i) \subseteq {1, 2, 4}
  BY IndexBits
<1> QED
  BY <1>1, <1>2 DEF Apply, PWT, PCD

(* The index that ptedit_apply_mt or ptedit_apply_mt_huge puts into any    *)
(* entry is the one that ptedit_extract_mt or ptedit_extract_mt_huge finds *)
(* there.                                                                  *)
THEOREM AppliedIndexIsRead ==
  \A i \in Index : \A e :
    ExtractMt(ApplyMt(e, i)) = i /\ ExtractMtHuge(ApplyMtHuge(e, i)) = i
<1> SUFFICES ASSUME NEW i \in Index, NEW e, NEW high \in {PAT, PAT_LARGE}
             PROVE  Extract(Apply(e, i, high), high) = i
  BY DEF ExtractMt, ApplyMt, ExtractMtHuge, ApplyMtHuge
<1>1. \A b \in {1, 2, 4} : BitOf(b, high) \in Apply(e, i, high) <=> b \in Bits(i)
  BY AppliedBits
<1>2. Extract(Apply(e, i, high), high)
        = (IF 1 \in Bits(i) THEN 1 ELSE 0) + (IF 2 \in Bits(i) THEN 2 ELSE 0)
            + (IF 4 \in Bits(i) THEN 4 ELSE 0)
  BY <1>1 DEF Extract
<1> QED
  BY <1>2, IndexBits

(* The functions change no other bit: in particular ptedit_apply_mt_huge   *)
(* leaves the bit that makes an entry one of a large page, which has the   *)
(* place that the PAT bit has in a PTE.                                    *)
THEOREM OtherBitsAreKept ==
  \A i \in Index : \A e : \A b :
    /\ b \notin {PWT, PCD, PAT} => (b \in ApplyMt(e, i) <=> b \in e)
    /\ b \notin {PWT, PCD, PAT_LARGE} => (b \in ApplyMtHuge(e, i) <=> b \in e)
    /\ PSE \in ApplyMtHuge(e, i) <=> PSE \in e
<1>1. \A i \in Index : \A e : \A b : \A high :
        b \notin {PWT, PCD, high} => (b \in Apply(e, i, high) <=> b \in e)
  <2> SUFFICES ASSUME NEW i \in Index, NEW e, NEW b, NEW high, b \notin {PWT, PCD, high}
               PROVE  b \in Apply(e, i, high) <=> b \in e
    OBVIOUS
  <2>1. \A n \in Bits(i) : BitOf(n, high) \in {PWT, PCD, high}
    BY IndexBits DEF BitOf
  <2> QED
    BY <2>1 DEF Apply
<1>2. PSE \notin {PWT, PCD, PAT_LARGE}
  BY DEF PSE, PWT, PCD, PAT_LARGE
<1> QED
  BY <1>1, <1>2 DEF ApplyMt, ApplyMtHuge
=============================================================================
