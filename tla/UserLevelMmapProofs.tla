------------------------ MODULE UserLevelMmapProofs ------------------------
(***************************************************************************)
(* Proofs about UserLevelMmap for any number of threads, regions and       *)
(* pages.                                                                  *)
(***************************************************************************)
EXTENDS UserLevelMmap, TLAPS

USE RegionAssumption, ClientAssumption, HeapAssumption

-----------------------------------------------------------------------------
(* Type correctness.                                                        *)

(* A call of ul_mmap is about a region that was started, the steps of an   *)
(* access are about a page of some region, and every counted fault took a  *)
(* block.                                                                  *)
Calls ==
  /\ \A t \in Thread :
       /\ apc[t] \in {"open", "flag", "mmap", "start", "insert"}
            => job[t] \in started
       /\ InAccess(t) => addr[t] \in Vpn
  /\ \A r \in Region : fault_cnt[r] <= blocks
TypeInv == TypeOK /\ Calls

(* The initial state has its types.                                        *)
LEMMA InitType == ASSUME Region # {} PROVE Init => TypeInv
<1>1. (CHOOSE r \in Region : TRUE) \in Region
  OBVIOUS
<1> SUFFICES ASSUME Init PROVE TypeInv
  OBVIOUS
<1>2. 0 \in Cells /\ 0 \in 0 .. MaxBlocks
  BY DEF Cells, CellsPerPage
<1>3. Calls
  BY DEF Init, Calls, InAccess
<1>4. /\ given_page \in [Region -> Cells]
      /\ fault_cnt \in [Region -> 0 .. MaxBlocks] /\ blocks \in 0 .. MaxBlocks
      /\ DOMAIN heap = Cells
      /\ pte \in [Vpn -> 0 .. MaxBlocks \cup {NoPage}]
  BY <1>2 DEF Init
<1> QED
  BY <1>1, <1>3, <1>4, Zenon DEF Init, TypeInv, TypeOK

(* Every step keeps the types.                                              *)
LEMMA NextType == TypeInv /\ [Next]_vars => TypeInv'
<1> SUFFICES ASSUME TypeInv, [Next]_vars PROVE TypeInv'
  OBVIOUS
<1> USE DEF Step, HandlerStep, Exit, process, table, handlers, memory, apps,
            TypeInv, TypeOK, Calls, InAccess
<1>1. CASE UNCHANGED vars
  BY <1>1 DEF vars
<1>2. ASSUME NEW t \in Thread, NEW r \in Region, MmapCall(t, r) PROVE TypeInv'
  BY <1>2 DEF MmapCall
<1>3. ASSUME NEW t \in Thread, PteditInit(t) PROVE TypeInv'
  BY <1>3, Zenon DEF PteditInit, May
<1>4. ASSUME NEW t \in Thread, SetInitFlag(t) PROVE TypeInv'
  BY <1>4 DEF SetInitFlag
<1>5. ASSUME NEW t \in Thread, Register(t) PROVE TypeInv'
  BY <1>5 DEF Register, May
<1>6. ASSUME NEW t \in Thread, StartHandler(t) PROVE TypeInv'
  BY <1>6 DEF StartHandler
<1>7. ASSUME NEW t \in Thread, Insert(t) PROVE TypeInv'
  BY <1>7 DEF Insert
<1>8. ASSUME NEW t \in Thread, NEW v \in Vpn, NEW w \in BOOLEAN, Touch(t, v, w)
      PROVE  TypeInv'
  BY <1>8 DEF Touch
<1>9. ASSUME NEW t \in Thread, Access(t) PROVE TypeInv'
  BY <1>9 DEF Access
<1>10. ASSUME NEW t \in Thread, Enqueue(t) PROVE TypeInv'
  BY <1>10 DEF Enqueue
<1>11. ASSUME NEW t \in Thread, Block(t) PROVE TypeInv'
  BY <1>11 DEF Block
<1>12. ASSUME NEW r \in Region, Poll(r) PROVE TypeInv'
  BY <1>12 DEF Poll
<1>13. ASSUME NEW r \in Region, Read(r) PROVE TypeInv'
  BY <1>13, Zenon DEF Read, Pending, Queued
<1>14. ASSUME NEW r \in Region, Fill(r) PROVE TypeInv'
  <2>1. CASE blocks' = blocks
    BY <1>14, <2>1 DEF Fill, FillFrom
  <2>2. CASE blocks' # blocks
    <3> DEFINE p == CellsPerPage * blocks + MallocOffset
    <3>0. blocks < MaxBlocks
      BY <1>14, <2>2 DEF Fill, FillFrom
    <3>a. blocks \in Nat /\ MaxBlocks \in Nat /\ MallocOffset \in 0 .. 1
      BY DEF CellsPerPage
    <3>b. p \in Cells
      <4> HIDE DEF TypeInv, TypeOK, Calls
      <4> QED
        BY <3>0, <3>a DEF Cells, CellsPerPage
    <3>1. /\ p \in Cells /\ blocks + 1 \in 0 .. MaxBlocks
          /\ \A s \in Region : /\ fault_cnt[s] + 1 \in 0 .. MaxBlocks
                               /\ fault_cnt[s] + 1 <= blocks + 1
                               /\ fault_cnt[s] <= blocks + 1
      BY <3>0, <3>b
    <3>2. /\ given_page' = [given_page EXCEPT ![r] = p]
          /\ fault_cnt' = [fault_cnt EXCEPT ![r] = @ + 1]
          /\ blocks' = blocks + 1
          /\ DOMAIN heap' = Cells
      BY <1>14, <2>2 DEF Fill, FillFrom
    <3>3. given_page' \in [Region -> Cells]
      BY <3>1, <3>2
    <3>4. /\ fault_cnt' \in [Region -> 0 .. MaxBlocks]
          /\ \A s \in Region : fault_cnt'[s] <= blocks'
      BY <3>1, <3>2
    <3> QED
      BY <1>14, <2>2, <3>1, <3>2, <3>3, <3>4 DEF Fill, FillFrom
  <2> QED
    BY <2>1, <2>2
<1>15. ASSUME NEW r \in Region, Update(r) PROVE TypeInv'
  <2>1. given_page[r] \div CellsPerPage \in 0 .. MaxBlocks
    <3>1. given_page[r] \in Cells
      OBVIOUS
    <3> HIDE DEF TypeInv, TypeOK, Calls
    <3> QED
      BY <3>1, HeapAssumption DEF Cells, CellsPerPage
  <2>2. pte' \in [Vpn -> 0 .. MaxBlocks \cup {NoPage}]
    BY <1>15, <2>1, Zenon DEF Update, SetPte
  <2> QED
    BY <1>15, <2>2, Zenon DEF Update, SetPte
<1>16. ASSUME NEW r \in Region, Wake(r) PROVE TypeInv'
  BY <1>16 DEF Wake, WakeThreads, Queued
<1>17. ASSUME NEW t \in Thread, NEW r \in Region, MunmapCall(t, r)
       PROVE  TypeInv'
  BY <1>17 DEF MunmapCall
<1>18. ASSUME NEW t \in Thread, Lock(t) PROVE TypeInv'
  BY <1>18 DEF Lock
<1>19. ASSUME NEW t \in Thread, Munmap(t) PROVE TypeInv'
  BY <1>19 DEF Munmap, NoPage
<1>20. CASE Ended
  BY <1>20 DEF Ended, vars
<1> HIDE DEF TypeInv, TypeOK, Calls
<1>21. ASSUME NEW t \in Thread, Call(t) PROVE TypeInv'
  BY <1>2, <1>8, <1>17, <1>21 DEF Call
<1>22. ASSUME NEW t \in Thread, InMmap(t) \/ InFault(t) \/ InMunmap(t)
       PROVE  TypeInv'
  BY <1>3, <1>4, <1>5, <1>6, <1>7, <1>9, <1>10, <1>11, <1>18, <1>19, <1>22
     DEF InMmap, InFault, InMunmap
<1>23. ASSUME NEW r \in Region, Handler(r) PROVE TypeInv'
  BY <1>12, <1>13, <1>14, <1>15, <1>16, <1>23 DEF Handler
<1> QED
  BY <1>1, <1>20, <1>21, <1>22, <1>23 DEF Next

(* Type correctness of user_level_mmap.cc: given_page and every entry stay *)
(* within the heap, counters within the number of blocks, and mmap_regions *)
(* holds only regions that ul_mmap was called for.                         *)
THEOREM TypeCorrect == ASSUME Region # {} PROVE Spec => []TypeOK
<1>1. Init => TypeInv
  BY InitType
<1>2. TypeInv /\ [Next]_vars => TypeInv'
  BY NextType
<1>3. TypeInv => TypeOK
  BY DEF TypeInv
<1> QED
  BY <1>1, <1>2, <1>3, PTL DEF Spec

-----------------------------------------------------------------------------
(* Frames.                                                                  *)

(* The frame a handler is about to map was handed out by malloc, is mapped *)
(* nowhere yet and is no other handler's; mapped frames were handed out.   *)
FrameOf(r) == given_page[r] \div CellsPerPage
FrameInv ==
  /\ \A v \in Vpn : Present(v) => pte[v] < blocks
  /\ Running => \A r \in Region : hpc[r] = "update" =>
       /\ FrameOf(r) \in Nat /\ FrameOf(r) < blocks
       /\ \A v \in Vpn : pte[v] # FrameOf(r)
       /\ \A s \in Region : hpc[s] = "update" /\ FrameOf(s) = FrameOf(r) => s = r
  /\ FramesPrivate

(* The block that malloc hands out next lies in the frame of its number.   *)
LEMMA BlockFrame ==
  ASSUME NEW n \in Nat
  PROVE  (CellsPerPage * n + MallocOffset) \div CellsPerPage = n
BY DEF CellsPerPage

(* Every step keeps the frames private: only Fill and Update touch what    *)
(* FrameInv speaks of, other than by taking entries or handlers away.      *)
LEMMA NextFrame == TypeInv /\ FrameInv /\ [Next]_vars => FrameInv'
<1> SUFFICES ASSUME TypeInv, FrameInv, [Next]_vars PROVE FrameInv'
  OBVIOUS
<1> USE DEF Step, HandlerStep, Exit, process, table, handlers, memory, apps
<1> DEFINE At == {"none", "poll", "read", "fill", "update", "wake", "returned"}
<1>0. /\ blocks \in Nat /\ hpc \in [Region -> At]
      /\ pte \in [Vpn -> Int] /\ given_page \in [Region -> Nat]
  <2>1. blocks \in Nat /\ pte \in [Vpn -> Int]
    BY DEF TypeInv, TypeOK, NoPage
  <2>2. given_page \in [Region -> Nat]
    BY DEF TypeInv, TypeOK, Cells, CellsPerPage
  <2> QED
    BY <2>1, <2>2 DEF TypeInv, TypeOK
<1> DEFINE Still == UNCHANGED <<blocks, given_page, pte>>
<1>1. ASSUME Still, Running' => /\ Running
                                /\ \A r \in Region : hpc'[r] = "update"
                                                      => hpc[r] = "update"
      PROVE  FrameInv'
  BY <1>1 DEF FrameInv, FrameOf, FramesPrivate, Present
<1>2. CASE UNCHANGED vars
  BY <1>1, <1>2 DEF vars, Running
<1>3. ASSUME NEW t \in Thread, Call(t) PROVE FrameInv'
  <2>1. ASSUME NEW r \in Region, MmapCall(t, r) PROVE FrameInv'
    BY <1>1, <2>1 DEF MmapCall
  <2>2. ASSUME NEW r \in Region, MunmapCall(t, r) PROVE FrameInv'
    BY <1>1, <2>2 DEF MunmapCall
  <2>3. ASSUME NEW v \in Vpn, NEW w \in BOOLEAN, Touch(t, v, w) PROVE FrameInv'
    BY <1>1, <2>3 DEF Touch
  <2> QED
    BY <1>3, <2>1, <2>2, <2>3 DEF Call
<1>4. ASSUME NEW t \in Thread, InMmap(t) PROVE FrameInv'
  BY <1>0, <1>1, <1>4
     DEF InMmap, PteditInit, SetInitFlag, Register, StartHandler, Insert
<1>5. ASSUME NEW t \in Thread, InFault(t) PROVE FrameInv'
  BY <1>1, <1>5 DEF InFault, Access, Enqueue, Block
<1>6. ASSUME NEW t \in Thread, Lock(t) PROVE FrameInv'
  BY <1>1, <1>6 DEF Lock
<1>7. ASSUME NEW t \in Thread, Munmap(t) PROVE FrameInv'
  <2>1. \A v \in Vpn : pte'[v] = pte[v] \/ pte'[v] = NoPage
    BY <1>7 DEF Munmap
  <2>2. UNCHANGED <<blocks, given_page, hpc, ended>>
    BY <1>7 DEF Munmap
  <2>3. FramesPrivate' /\ \A v \in Vpn : Present(v)' => pte'[v] < blocks'
    BY <1>0, <2>1, <2>2 DEF FrameInv, FramesPrivate, Present
  <2>4. \A r \in Region : FrameOf(r)' = FrameOf(r)
    BY <2>2 DEF FrameOf
  <2>5. \A v \in Vpn, n \in Nat : pte[v] # n => pte'[v] # n
    BY <1>0, <2>1 DEF NoPage
  <2> QED
    BY <2>2, <2>3, <2>4, <2>5 DEF FrameInv, Running
<1>8. ASSUME NEW r \in Region, Poll(r) \/ Read(r) \/ Wake(r) PROVE FrameInv'
  BY <1>0, <1>1, <1>8 DEF Poll, Read, Wake, WakeThreads
<1>9. ASSUME NEW r \in Region, Fill(r) PROVE FrameInv'
  <2> DEFINE p == CellsPerPage * blocks + MallocOffset
  <2>1. Running /\ UNCHANGED pte /\ hpc' = [hpc EXCEPT ![r] = "update"]
    BY <1>9 DEF Fill, FillFrom
  <2>2. CASE ended' = "no"
    <3>1. blocks' = blocks + 1 /\ given_page' = [given_page EXCEPT ![r] = p]
      BY <1>9, <2>2 DEF Fill, FillFrom
    <3>2. /\ FrameOf(r)' = blocks
          /\ \A s \in Region : s # r => FrameOf(s)' = FrameOf(s)
      BY <1>0, <3>1, BlockFrame DEF FrameOf
    <3>3. \A v \in Vpn : pte[v] # blocks
      BY <1>0 DEF FrameInv, Present, NoPage
    <3>4. \A s \in Region : s # r /\ hpc'[s] = "update" =>
             /\ FrameOf(s)' # blocks /\ FrameOf(s)' \in Nat
             /\ FrameOf(s)' < blocks' /\ \A v \in Vpn : pte'[v] # FrameOf(s)'
      BY <1>0, <2>1, <3>1, <3>2 DEF FrameInv
    <3>5. \A v \in Vpn : Present(v)' => pte'[v] < blocks'
      BY <1>0, <2>1, <3>1 DEF FrameInv, Present
    <3>6. FramesPrivate'
      BY <2>1 DEF FrameInv, FramesPrivate, Present
    <3>7. \A s \in Region : hpc'[s] = "update" =>
             /\ FrameOf(s)' \in Nat /\ FrameOf(s)' < blocks'
             /\ \A v \in Vpn : pte'[v] # FrameOf(s)'
      BY <1>0, <2>1, <3>1, <3>2, <3>3, <3>4
    <3>8. \A s, q \in Region :
             hpc'[s] = "update" /\ hpc'[q] = "update" /\ FrameOf(q)' = FrameOf(s)'
               => q = s
      BY <1>0, <2>1, <3>2, <3>4 DEF FrameInv
    <3> QED
      BY <3>5, <3>6, <3>7, <3>8 DEF FrameInv
  <2>3. CASE ended' # "no"
    BY <1>1, <1>9, <2>3 DEF Fill, FillFrom, Running
  <2> QED
    BY <2>2, <2>3
<1>10. ASSUME NEW r \in Region, Update(r) PROVE FrameInv'
  <2>1. /\ UNCHANGED <<blocks, given_page>>
        /\ Running /\ hpc[r] = "update" /\ hpc' = [hpc EXCEPT ![r] = "wake"]
        /\ pte' = pte \/ pte' = [pte EXCEPT ![msg] = FrameOf(r)]
    BY <1>10, Zenon DEF Update, SetPte, FrameOf
  <2>2. CASE pte' = pte
    BY <1>0, <1>1, <2>1, <2>2
  <2>3. CASE pte' # pte /\ pte' = [pte EXCEPT ![msg] = FrameOf(r)]
    BY <1>0, <2>1, <2>3 DEF FrameInv, FrameOf, FramesPrivate, Present
  <2> QED
    BY <2>1, <2>2, <2>3
<1>11. CASE Ended
  BY <1>2, <1>11 DEF Ended
<1> QED
  BY <1>2, <1>3, <1>4, <1>5, <1>6, <1>7, <1>8, <1>9, <1>10, <1>11
     DEF Next, InMunmap, Handler

(* Whatever the races between accesses, handlers and ul_munmap, two pages  *)
(* never show the same frame: every fault maps the block that its own      *)
(* malloc returned (user_level_mmap.cc:109, 124, 142-147).                 *)
THEOREM FramesArePrivate == ASSUME Region # {} PROVE Spec => []FramesPrivate
<1>1. Init => TypeInv /\ FrameInv
  <2>1. Init => FrameInv
    BY DEF Init, FrameInv, FramesPrivate, Present
  <2> QED
    BY <2>1, InitType
<1>2. TypeInv /\ FrameInv /\ [Next]_vars => TypeInv' /\ FrameInv'
  BY NextType, NextFrame
<1>3. FrameInv => FramesPrivate
  BY DEF FrameInv
<1> QED
  BY <1>1, <1>2, <1>3, PTL DEF Spec
=============================================================================
