----------------------- MODULE UserLevelMmapWakeups -----------------------
(***************************************************************************)
(* Proofs about the wakeups of UserLevelMmap, for any number of threads,   *)
(* regions and pages.                                                      *)
(***************************************************************************)
EXTENDS UserLevelMmapProofs

USE RegionAssumption, ClientAssumption, HeapAssumption

-----------------------------------------------------------------------------
(* ul_mmap starts the handler of a region once: until then there is none,  *)
(* and the call that will start it is the only one for the region.         *)
Opening(t) == apc[t] \in {"open", "flag", "mmap", "start"}
StartInv ==
  /\ \A r \in Region : r \notin started => hpc[r] = "none"
  /\ \A t \in Thread : Opening(t) => hpc[job[t]] = "none"
  /\ \A t, u \in Thread : Opening(t) /\ Opening(u) /\ job[t] = job[u] => t = u

(* A fault that has been read is the one its handler is working on, and    *)
(* the handler that works, works on a page of its own region.              *)
SeenServed ==
  \A t \in Thread :
    apc[t] \in {"queued", "waiting"} /\ seen[t] =>
      Busy(RegionOf(addr[t])) /\ msg = addr[t]
WakeInv == SeenServed /\ HandledSeparately

(* RegionOf finds the region of a page.                                    *)
LEMMA RegionOfPage ==
  ASSUME NEW v \in Vpn
  PROVE  RegionOf(v) \in Region /\ v \in PagesOf(RegionOf(v))
<1>1. \E r \in Region : v \in PagesOf(r)
  BY DEF Vpn
<1> QED
  BY <1>1 DEF RegionOf

(* Every step keeps one start per handler.                                 *)
LEMMA NextStart == TypeInv /\ StartInv /\ [Next]_vars => StartInv'
<1> SUFFICES ASSUME TypeInv, StartInv, [Next]_vars PROVE StartInv'
  OBVIOUS
<1> USE DEF Step, HandlerStep, Exit, process, table, handlers, memory, apps
<1>1. /\ DOMAIN apc = Thread /\ DOMAIN hpc = Region
      /\ job \in [Thread -> Region]
      /\ \A t \in Thread : Opening(t) => job[t] \in started
  BY DEF TypeInv, TypeOK, Calls, Opening
\* Steps that open nothing and start no handler.
<1>2. ASSUME \A r \in Region : hpc[r] = "none" => hpc'[r] = "none",
             started' = started,
             \A t \in Thread : Opening(t)' => Opening(t) /\ job'[t] = job[t]
      PROVE  StartInv'
  <2>1. /\ \A r \in Region : r \notin started' => hpc'[r] = "none"
        /\ \A t \in Thread : Opening(t)' => hpc'[job'[t]] = "none"
    BY <1>1, <1>2 DEF StartInv
  <2>2. \A t, u \in Thread :
          Opening(t)' /\ Opening(u)' /\ job'[t] = job'[u] => t = u
    BY <1>2 DEF StartInv
  <2> QED
    BY <2>1, <2>2 DEF StartInv
<1>3. CASE UNCHANGED vars
  BY <1>2, <1>3 DEF vars, Opening
<1>4. ASSUME NEW t \in Thread, Call(t) PROVE StartInv'
  <2>1. ASSUME NEW r \in Region, MmapCall(t, r) PROVE StartInv'
    BY <1>1, <2>1 DEF MmapCall, StartInv, Opening
  <2>2. ASSUME NEW r \in Region, MunmapCall(t, r) PROVE StartInv'
    BY <1>1, <1>2, <2>2 DEF MunmapCall, Opening
  <2>3. ASSUME NEW v \in Vpn, NEW w \in BOOLEAN, Touch(t, v, w) PROVE StartInv'
    BY <1>1, <1>2, <2>3 DEF Touch, Opening
  <2> QED
    BY <1>4, <2>1, <2>2, <2>3 DEF Call
<1>5. ASSUME NEW t \in Thread, InMmap(t) PROVE StartInv'
  <2>1. CASE StartHandler(t)
    BY <1>1, <2>1 DEF StartHandler, StartInv, Opening
  <2> QED
    BY <1>1, <1>2, <1>5, <2>1
       DEF InMmap, PteditInit, SetInitFlag, Register, Insert, Opening
<1>6. ASSUME NEW t \in Thread, InFault(t) PROVE StartInv'
  BY <1>1, <1>2, <1>6 DEF InFault, Access, Enqueue, Block, Opening
<1>7. ASSUME NEW t \in Thread, InMunmap(t) PROVE StartInv'
  BY <1>1, <1>2, <1>7 DEF InMunmap, Lock, Munmap, Opening
<1>8. ASSUME NEW r \in Region, Handler(r) PROVE StartInv'
  <2>1. CASE Poll(r)
    BY <1>1, <1>2, <2>1 DEF Poll, Opening
  <2>2. CASE Read(r)
    BY <1>1, <1>2, <2>2 DEF Read, Opening
  <2>3. CASE Fill(r)
    BY <1>1, <1>2, <2>3 DEF Fill, FillFrom, Opening
  <2>4. CASE Update(r)
    BY <1>1, <1>2, <2>4 DEF Update, SetPte, Opening
  <2>5. CASE Wake(r)
    BY <1>1, <1>2, <2>5 DEF Wake, WakeThreads, Opening
  <2> QED
    BY <1>8, <2>1, <2>2, <2>3, <2>4, <2>5 DEF Handler
<1>9. CASE Ended
  BY <1>3, <1>9 DEF Ended
<1> QED
  BY <1>3, <1>4, <1>5, <1>6, <1>7, <1>8, <1>9 DEF Next

(* Every step keeps WakeInv while one handler works at a time: a read by a *)
(* second one is the only step that could take msg away.                   *)
LEMMA NextWake ==
  /\ TypeInv /\ StartInv /\ WakeInv
  /\ OneHandlerBusy /\ OneHandlerBusy' /\ [Next]_vars
  => WakeInv'
<1> SUFFICES ASSUME TypeInv, StartInv, WakeInv,
                    OneHandlerBusy, OneHandlerBusy', [Next]_vars
             PROVE  WakeInv'
  OBVIOUS
<1> USE DEF Step, HandlerStep, Exit, process, table, handlers, memory, apps
<1> DEFINE Queue == {"queued", "waiting"}
<1>1. /\ DOMAIN apc = Thread /\ DOMAIN seen = Thread /\ DOMAIN addr = Thread
      /\ DOMAIN hpc = Region /\ job \in [Thread -> Region]
      /\ \A t \in Thread : apc[t] \in Queue => addr[t] \in Vpn
  BY DEF TypeInv, TypeOK, Calls, InAccess
\* Steps that keep a busy handler busy with the same message.
<1>2. ASSUME msg' = msg, Running' => Running,
             \A r \in Region : Busy(r)' <=> Busy(r),
             \A t \in Thread : apc'[t] \in Queue /\ seen'[t] =>
               apc[t] \in Queue /\ seen[t] /\ addr'[t] = addr[t]
      PROVE  WakeInv'
  BY <1>1, <1>2, RegionOfPage DEF WakeInv, SeenServed, HandledSeparately
<1>3. CASE UNCHANGED vars
  BY <1>2, <1>3 DEF vars, Running, Busy
<1>4. ASSUME NEW t \in Thread, Call(t) PROVE WakeInv'
  <2>1. ASSUME NEW r \in Region, MmapCall(t, r) \/ MunmapCall(t, r)
        PROVE  WakeInv'
    <3>1. /\ msg' = msg /\ hpc' = hpc /\ ended' = ended
          /\ seen' = seen /\ addr' = addr /\ apc'[t] \notin Queue
          /\ \A u \in Thread : u # t => apc'[u] = apc[u]
      BY <1>1, <2>1 DEF MmapCall, MunmapCall
    <3> QED
      BY <1>2, <3>1 DEF Busy, Running
  <2>2. ASSUME NEW v \in Vpn, NEW w \in BOOLEAN, Touch(t, v, w) PROVE WakeInv'
    BY <1>1, <1>2, <2>2 DEF Touch, Busy
  <2> QED
    BY <1>4, <2>1, <2>2 DEF Call
<1>5. ASSUME NEW t \in Thread, InMmap(t) PROVE WakeInv'
  <2>1. CASE StartHandler(t)
    <3>1. hpc[job[t]] = "none"
      BY <2>1 DEF StartHandler, StartInv, Opening
    <3> QED
      BY <1>1, <1>2, <2>1, <3>1 DEF StartHandler, Busy
  <2> QED
    BY <1>1, <1>2, <1>5, <2>1
       DEF InMmap, PteditInit, SetInitFlag, Register, Insert, Busy
<1>6. ASSUME NEW t \in Thread, InFault(t) PROVE WakeInv'
  BY <1>1, <1>2, <1>6 DEF InFault, Access, Enqueue, Block, Busy
<1>7. ASSUME NEW t \in Thread, InMunmap(t) PROVE WakeInv'
  BY <1>1, <1>2, <1>7 DEF InMunmap, Lock, Munmap, Busy
<1>8. ASSUME NEW r \in Region, Poll(r) \/ Fill(r) \/ Update(r) PROVE WakeInv'
  <2>1. CASE Poll(r)
    BY <1>1, <1>2, <2>1 DEF Poll, Busy
  <2>2. CASE Fill(r)
    BY <1>1, <1>2, <2>2 DEF Fill, FillFrom, Busy
  <2>3. CASE Update(r)
    BY <1>1, <1>2, <2>3 DEF Update, SetPte, Busy
  <2> QED
    BY <1>8, <2>1, <2>2, <2>3
<1>9. ASSUME NEW r \in Region, Read(r) PROVE WakeInv'
  <2>1. /\ Running /\ hpc[r] = "read" /\ hpc' = [hpc EXCEPT ![r] = "fill"]
        /\ UNCHANGED <<apc, addr>>
    BY <1>9 DEF Read
  \* r is the only busy handler after the step, so none was before it.
  <2>2. \A s \in Region : ~Busy(s) /\ (Busy(s)' => s = r)
    BY <1>1, <2>1 DEF OneHandlerBusy, Busy
  <2>3. \A u \in Thread : ~(apc[u] \in Queue /\ seen[u])
    BY <1>1, <2>2, RegionOfPage DEF WakeInv, SeenServed
  <2>4. CASE Pending(r) = {}
    <3>1. seen' = seen /\ ended' = "read"
      BY <1>9, <2>4 DEF Read
    <3> QED
      BY <2>1, <2>3, <3>1 DEF WakeInv, SeenServed, HandledSeparately, Running
  <2>5. CASE Pending(r) # {}
    <3>1. PICK t \in Pending(r) : /\ msg' = addr[t]
                                  /\ seen' = [seen EXCEPT ![t] = TRUE]
      BY <1>9, <2>5 DEF Read
    <3>2. t \in Thread /\ apc[t] \in Queue /\ RegionOf(addr[t]) = r
      BY DEF Pending, Queued
    <3>3. addr[t] \in PagesOf(r) /\ Busy(r)'
      BY <1>1, <2>1, <3>2, RegionOfPage DEF Busy
    <3>4. SeenServed'
      BY <1>1, <2>1, <2>3, <3>1, <3>2, <3>3 DEF SeenServed
    <3> QED
      BY <2>2, <3>1, <3>3, <3>4 DEF WakeInv, HandledSeparately
  <2> QED
    BY <2>4, <2>5
<1>10. ASSUME NEW r \in Region, Wake(r) PROVE WakeInv'
  <2>1. /\ hpc[r] = "wake" /\ hpc' = [hpc EXCEPT ![r] = "poll"]
        /\ apc' = [t \in Thread |-> IF Queued(t, r) /\ addr[t] = msg
                                    THEN "access" ELSE apc[t]]
        /\ UNCHANGED <<msg, addr, seen, ended>>
    BY <1>10 DEF Wake, WakeThreads
  <2>2. \A s \in Region : ~Busy(s)'
    BY <1>1, <2>1 DEF OneHandlerBusy, Busy
  <2>3. \A u \in Thread : apc[u] \in Queue /\ seen[u] =>
                            RegionOf(addr[u]) = r /\ addr[u] = msg
    BY <1>1, <2>1, RegionOfPage DEF WakeInv, SeenServed, OneHandlerBusy, Busy
  <2>4. \A u \in Thread : ~(apc'[u] \in Queue /\ seen'[u])
    BY <2>1, <2>3 DEF Queued
  <2> QED
    BY <2>2, <2>4 DEF WakeInv, SeenServed, HandledSeparately
<1>11. CASE Ended
  BY <1>3, <1>11 DEF Ended
<1> QED
  BY <1>3, <1>4, <1>5, <1>6, <1>7, <1>8, <1>9, <1>10, <1>11 DEF Next, Handler

(* In every execution in which no two handlers are between their read and  *)
(* their wake, no thread sleeps that nobody is going to wake, and each     *)
(* handler works on its own region (user_level_mmap.cc:82, 134, 167-170).  *)
THEOREM NoWakeupIsLost ==
  ASSUME Region # {}
  PROVE  Spec /\ []OneHandlerBusy => [](NoLostWakeup /\ HandledSeparately)
<1>1. Init => TypeInv /\ StartInv /\ WakeInv
  <2>1. Init => StartInv /\ WakeInv
    BY DEF Init, StartInv, Opening, WakeInv, SeenServed, HandledSeparately, Busy
  <2> QED
    BY <2>1, InitType
<1>2. /\ TypeInv /\ StartInv /\ WakeInv
      /\ OneHandlerBusy /\ OneHandlerBusy' /\ [Next]_vars
      => TypeInv' /\ StartInv' /\ WakeInv'
  BY NextType, NextStart, NextWake
<1>3. WakeInv => NoLostWakeup /\ HandledSeparately
  BY DEF WakeInv, SeenServed, NoLostWakeup, Pending, Queued
<1> QED
  BY <1>1, <1>2, <1>3, PTL DEF Spec

OneRegion == \A r, s \in Region : r = s

(* A program with one region has one handler, so none of its wakeups is    *)
(* lost (user_level_mmap.cc:74-172).                                       *)
THEOREM OneRegionSafe ==
  ASSUME Region # {}, OneRegion
  PROVE  Spec => [](NoLostWakeup /\ HandledSeparately)
<1>1. OneHandlerBusy
  BY DEF OneHandlerBusy, OneRegion
<1> QED
  BY <1>1, NoWakeupIsLost, PTL
=============================================================================
