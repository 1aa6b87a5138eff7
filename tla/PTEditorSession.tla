-------------------------- MODULE PTEditorSession ---------------------------
(***************************************************************************)
(* Loading of the PTEditor kernel module, its device that one process at a *)
(* time has open, /proc/umem, the memory types of the processors, and the  *)
(* calls of ptedit_header.h that open and close a session.                 *)
(***************************************************************************)
EXTENDS Integers, MemoryTypes

CONSTANTS
  Process,
  CPU,
  BootPats    \* the memory types the processors may have been booted with

ASSUME PatAssumption == BootPats \subseteq PatTable

VARIABLES
  module,        \* "out", "live", or "failed": gone with its device registered
  device_busy,
  mm_is_locked,
  mm_writer,     \* processes whose mm is locked for writing
  has_umem,      \* /proc/umem exists
  devmem,        \* the probe on devmem_is_allowed is set: umem admits RAM
  pat,           \* processor -> its memory types
  ipi,           \* process -> the interrupts <<processor, types>> of its
                 \* set_pat that have not been served yet
  fd,            \* process -> it has the device open
  umem           \* process -> it has /proc/umem open

moduleVars == <<module, has_umem, devmem>>
locks == <<mm_is_locked, mm_writer>>
types == <<pat, ipi>>
session == <<moduleVars, device_busy, locks, types, fd, umem>>

SessionInit ==
  /\ module = "out" /\ has_umem = FALSE /\ devmem = FALSE
  /\ device_busy = FALSE /\ mm_is_locked = FALSE /\ mm_writer = {}
  /\ \E boot \in BootPats : pat = [c \in CPU |-> boot]
  /\ ipi = [p \in Process |-> {}]
  /\ fd = [p \in Process |-> FALSE] /\ umem = [p \in Process |-> FALSE]

-----------------------------------------------------------------------------
(* pteditor_init: it fails before misc_register, or after it for want of a  *)
(* kernel symbol and then leaves the device behind, or it succeeds with or  *)
(* without the probe and /proc/umem.                                        *)
Insmod ==
  /\ module = "out"
  /\ \E m \in {"out", "failed", "live"}, probed, found \in BOOLEAN :
       /\ module' = m
       /\ devmem' = (m = "live" /\ probed)
       /\ has_umem' = (m = "live" /\ found)
  /\ device_busy' = FALSE /\ mm_is_locked' = FALSE
  /\ UNCHANGED <<mm_writer, types, fd, umem>>

\* pteditor_exit, which the kernel calls only while the device is not open.
Rmmod ==
  /\ module = "live" /\ \A p \in Process : ~fd[p]
  /\ module' = "out" /\ devmem' = FALSE /\ has_umem' = FALSE
  /\ UNCHANGED <<device_busy, locks, types, fd, umem>>

-----------------------------------------------------------------------------
(* open of /dev/pteditor (one opener at a time: misc_open holds a mutex)    *)
(* and of /proc/umem by ptedit_init.                                        *)
DeviceOpenShared(p) == device_busy' = TRUE                         \* mutant
DeviceOpen(p) == ~device_busy /\ device_busy' = TRUE

PteditInit(p) ==
  /\ module = "live" /\ DeviceOpen(p)
  /\ fd' = [fd EXCEPT ![p] = TRUE]
  /\ umem' = [umem EXCEPT ![p] = has_umem]
  /\ UNCHANGED <<moduleVars, locks, types>>

RefusesAbsent(p) == module = "out"                                 \* mutant
Refuses(p) == module = "out" \/ (module = "live" /\ device_busy)

\* close of both files, by ptedit_cleanup or at the end of the process;
\* device_release runs when the device was open.
DeviceRelease(p) == device_busy' = (device_busy /\ ~fd[p])
PteditCleanup(p) ==
  /\ DeviceRelease(p)
  /\ fd' = [fd EXCEPT ![p] = FALSE] /\ umem' = [umem EXCEPT ![p] = FALSE]
  /\ UNCHANGED <<moduleVars, locks, types>>

-----------------------------------------------------------------------------
(* Calls of a process that has the device open: an ioctl needs it.          *)

\* Physical memory through /proc/umem, which refuses RAM without the probe.
Mappable(p) == umem[p] /\ devmem
\* ptedit_read_physical_page and ptedit_write_physical_page: they use the
\* ioctls only when there is no /proc/umem.
PageAccess(p) == umem[p] => devmem

\* ptedit_set_mt reads the types of the processor it runs on and has set_pat
\* program all of them: on_each_cpu interrupts them one after another, and
\* the caller returns when _set_pat has run on the last.
SetPat(p, table) == ipi' = [ipi EXCEPT ![p] = CPU \X {table}]
PteditSetMt(p, mt, value) ==
  /\ fd[p]
  /\ \E c \in CPU : \E table \in SetMt(pat[c], mt, value) : SetPat(p, table)
  /\ UNCHANGED <<moduleVars, device_busy, locks, pat, fd, umem>>

\* _set_pat on one processor.
SetPatOn(p) ==
  /\ \E m \in ipi[p] : /\ pat' = [pat EXCEPT ![m[1]] = m[2]]
                       /\ ipi' = [ipi EXCEPT ![p] = @ \ {m}]
  /\ UNCHANGED <<moduleVars, device_busy, locks, fd, umem>>

\* VM_LOCK takes the lock of the mm for writing and then for reading, and
\* would set the flag once it has both.  The writer it has to wait for is the
\* caller itself, so it stays in the second call: Waits.
VmLock(p) ==
  IF mm_is_locked THEN UNCHANGED locks
  ELSE mm_writer' = mm_writer \cup {p} /\ UNCHANGED mm_is_locked
Waits(p) == p \in mm_writer
VmUnlock(p) ==
  IF ~mm_is_locked THEN UNCHANGED locks
  ELSE mm_writer' = mm_writer \ {p} /\ mm_is_locked' = FALSE
=============================================================================
