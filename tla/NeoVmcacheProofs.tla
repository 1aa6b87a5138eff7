-------------------------- MODULE NeoVmcacheProofs --------------------------
(***************************************************************************)
(* Proofs about NeoVmcache: however many threads, pages and operations, a  *)
(* page is fixed by one thread at a time, and the three managers implement *)
(* Latch, unless its word is marked.  The inductive invariant says which   *)
(* bits a PageState word and a thread's copy of it can have: an unmarked   *)
(* copy that is compared is not locked, an unmarked page that is fixed is, *)
(* and the copy that unfix writes back is marked if the word is.           *)
(***************************************************************************)
EXTENDS NeoVmcache, TLAPS

PCs == {"next", "read", "cas", "use", "unfix", "clear"}

(* The parts of the types that the argument needs.                         *)
Shape ==
  /\ test \in 1 .. 3
  /\ word \in [Managers -> [Page -> SUBSET Bits]]
  /\ pc \in [Thread -> PCs]
  /\ pid \in [Thread -> Page]
  /\ snap \in [Thread -> SUBSET Bits]

(* Of an unmarked page only an unlocked copy is compared (lines 127, 154,  *)
(* 177), and it is locked while it is fixed; unfix writes the mark back as *)
(* it read it (56), since no other step changes it.                        *)
Words ==
  /\ \A t \in Thread :
       pc[t] = "cas" => "marked" \in snap[t] \/ "locked" \notin snap[t]
  /\ \A t \in Thread : pc[t] = "clear" => ("marked" \in snap[t] <=> Marked(pid[t]))
  /\ \A t \in Thread, p \in Page :
       Holding(t, p) => Marked(p) \/ "locked" \in word[Manager][p]

(* No thread runs before the file is mapped (lines 254-283).               *)
Parked == main \in {"create", "extend", "open", "map"}
            => \A t \in Thread : pc[t] = "next"

IInv == Shape /\ Words /\ Parked /\ FixedByOne

(* What a step may do to the latches.                                      *)
LatchStep == [Latches!Next]_Fixes

-----------------------------------------------------------------------------
(* The table of a test is one of the three (main, lines 283, 290, 296).    *)
LEMMA ManagerType == ASSUME test \in 1 .. 3 PROVE Manager \in Managers
BY DEF Manager, Managers, Tests

(* pid is a page before the first operation (line 214).                    *)
LEMMA NoPageType == NoPage \in Page
BY CountAssumption DEF NoPage

(* The words of anonymous memory are clear (lines 33, 231, 237).           *)
LEMMA FreshType == Fresh \in [Managers -> [Page -> SUBSET Bits]]
BY DEF Fresh

(* Before the program starts no page is fixed (neovmcache_vs_vmcache.cc:   *)
(* 231-280).                                                               *)
LEMMA InitIInv == Init => IInv /\ Latches!Init
BY NoPageType, FreshType
DEF Init, IInv, Shape, Words, Parked, FixedByOne, Holding, PCs, Fixes, Latches!Init

(* Threads that are all at their start have nothing fixed: what Start,     *)
(* Kill and TestsDone leave behind (lines 213, 231, 283-298).              *)
LEMMA ResetStep ==
  ASSUME ResetThreads, test' \in 1 .. 3,
         word' \in [Managers -> [Page -> SUBSET Bits]]
  PROVE  IInv' /\ LatchStep
<1>1. pid' \in [Thread -> Page]
  BY NoPageType DEF ResetThreads
<1>2. \A t \in Thread : pc'[t] = "next" /\ snap'[t] = {}
  BY DEF ResetThreads
<1>3. \A t \in Thread, p \in Page : ~Holding(t, p)'
  BY <1>2 DEF Holding
<1>4. Shape'
  BY <1>1 DEF ResetThreads, Shape, PCs
<1>5. Words' /\ FixedByOne' /\ Parked'
  BY <1>2, <1>3 DEF Words, FixedByOne, Parked
<1>6. Fixes' = {}
  BY <1>3 DEF Fixes
<1> QED
  BY <1>4, <1>5, <1>6 DEF IInv, LatchStep, Latches!Next, Latches!Reset

(* Steps of main before the tests leave the threads where they are, with   *)
(* nothing fixed (lines 252-280, 307-369).                                 *)
LEMMA SetupStep ==
  ASSUME IInv, UnchangedThreads, test' = test,
         main \in {"create", "extend", "open", "map"},
         word' \in [Managers -> [Page -> SUBSET Bits]]
  PROVE  IInv' /\ LatchStep
<1>1. \A t \in Thread : pc[t] = "next" /\ pc'[t] = "next"
  BY DEF IInv, Parked, UnchangedThreads
<1>2. \A t \in Thread, p \in Page : ~Holding(t, p) /\ ~Holding(t, p)'
  BY <1>1 DEF Holding
<1>3. Shape'
  BY DEF IInv, Shape, UnchangedThreads
<1>4. Words' /\ FixedByOne' /\ Parked'
  BY <1>1, <1>2 DEF IInv, Words, FixedByOne, Parked, UnchangedThreads
<1>5. Fixes' = Fixes
  BY <1>2 DEF Fixes
<1> QED
  BY <1>3, <1>4, <1>5 DEF IInv, LatchStep

(* The steps of performTest that leave every word alone and fix or unfix   *)
(* nothing (lines 117, 144, 173, 214-219).                                 *)
LEMMA QuietStep ==
  ASSUME IInv, main = "test", Shape', test' = test, word' = word,
         \A t \in Thread, p \in Page : Holding(t, p)' = Holding(t, p),
         \A t \in Thread :
           pc'[t] = "cas" => "marked" \in snap'[t] \/ "locked" \notin snap'[t],
         \A t \in Thread :
           pc'[t] = "clear" => ("marked" \in snap'[t] <=> Marked(pid'[t])),
         main' \notin {"create", "extend", "open", "map"}
  PROVE  IInv' /\ LatchStep
<1>1. Manager' = Manager /\ \A p \in Page : Marked(p)' = Marked(p)
  BY DEF Manager, Marked
<1>2. \A t \in Thread : pid'[t] \in Page
  BY DEF Shape
<1>3. \A t \in Thread : Marked(pid[t])' = Marked(pid'[t])
  BY <1>1, <1>2 DEF Marked
<1>4. Words'
  BY <1>1, <1>3 DEF IInv, Words
<1>5. FixedByOne' /\ Parked'
  BY <1>1 DEF IInv, FixedByOne, Parked
<1>6. Fixes' = Fixes
  BY <1>1 DEF Fixes
<1> QED
  BY <1>4, <1>5, <1>6 DEF IInv, LatchStep

(* What Cas and Clear have in common: of the words only that of the page   *)
(* of the thread changes, and it stays marked or unmarked (lines 56, 121). *)
LEMMA WordWritten ==
  ASSUME IInv, NEW t \in Thread, NEW w \in SUBSET Bits, test' = test,
         word' = [word EXCEPT ![Manager][pid[t]] = w],
         "marked" \in w <=> Marked(pid[t])
  PROVE  /\ word' \in [Managers -> [Page -> SUBSET Bits]]
         /\ Manager' = Manager
         /\ \A p \in Page : /\ word'[Manager][p] = IF p = pid[t] THEN w
                                                 ELSE word[Manager][p]
                            /\ Marked(p)' <=> Marked(p)
<1>1. Manager \in Managers /\ pid[t] \in Page /\ Manager' = Manager
  BY ManagerType DEF IInv, Shape, Manager
<1>2. word \in [Managers -> [Page -> SUBSET Bits]]
  BY DEF IInv, Shape
<1>3. word' \in [Managers -> [Page -> SUBSET Bits]]
  BY <1>1, <1>2
<1>4. \A p \in Page : word'[Manager][p] = IF p = pid[t] THEN w ELSE word[Manager][p]
  BY <1>1, <1>2
<1> QED
  BY <1>1, <1>3, <1>4 DEF Marked

(* A successful compare and swap fixes a page nobody has, unless it is     *)
(* marked: its word was the unlocked copy (lines 121, 128, 155, 178).      *)
LEMMA CasStep ==
  ASSUME IInv, NEW t \in Thread, Cas(t)
  PROVE  IInv' /\ LatchStep
<1> DEFINE p == pid[t]
<1>0. /\ Manager \in Managers /\ p \in Page
      /\ main = "test" /\ main' = "test" /\ test' = test
  BY ManagerType DEF IInv, Shape, Cas, CasOver, Goto, process, Manager
<1>1. CASE WordOf(t) # snap[t]
  <2>1. pc' = [pc EXCEPT ![t] = "read"] /\ word' = word /\ pid' = pid /\ snap' = snap
    BY <1>1 DEF Cas, CasOver, Goto
  <2>2. \A u \in Thread, q \in Page : Holding(u, q)' = Holding(u, q)
    BY <2>1 DEF Cas, CasOver, Goto, Holding, IInv, Shape
  <2>3. Shape'
    BY <1>0, <2>1 DEF Cas, CasOver, IInv, Shape, PCs
  <2> QED
    BY <1>0, <2>1, <2>2, <2>3, QuietStep DEF IInv, Words, Shape
<1>2. CASE WordOf(t) = snap[t]
  <2> DEFINE w == snap[t] \cup {"locked"}
  <2>1. /\ pc[t] = "cas" /\ pc' = [pc EXCEPT ![t] = "use"]
        /\ word' = [word EXCEPT ![Manager][p] = w]
        /\ pid' = pid /\ snap' = snap
    BY <1>2 DEF Cas, CasOver, Goto, SetWord
  <2>2. w \in SUBSET Bits
    BY DEF IInv, Shape, Bits
  <2>3. "marked" \in w <=> Marked(p)
    BY <1>2 DEF WordOf, Marked
  <2>4. /\ word' \in [Managers -> [Page -> SUBSET Bits]] /\ Manager' = Manager
        /\ \A q \in Page : /\ word'[Manager][q] = IF q = p THEN w ELSE word[Manager][q]
                           /\ Marked(q)' <=> Marked(q)
    BY <1>0, <2>1, <2>2, <2>3, WordWritten
  <2>5. \A u \in Thread, q \in Page :
          Holding(u, q)' <=> Holding(u, q) \/ (u = t /\ q = p)
    BY <2>1 DEF Holding, IInv, Shape
  <2>6. Marked(p) \/ "locked" \notin word[Manager][p]
    BY <1>2, <2>1 DEF IInv, Words, WordOf, Marked
  <2>7. Marked(p) \/ \A u \in Thread : ~Holding(u, p)
    BY <1>0, <2>6 DEF IInv, Words
  <2>8. Shape'
    BY <1>0, <2>1, <2>4 DEF IInv, Shape, PCs
  <2>9. Words'
    <3>1. \A u \in Thread :
            pc'[u] = "cas" => "marked" \in snap'[u] \/ "locked" \notin snap'[u]
      BY <2>1 DEF IInv, Words, Shape
    <3>2. \A u \in Thread : pc'[u] = "clear" => pc[u] = "clear"
      BY <2>1 DEF IInv, Shape
    <3>3. \A u \in Thread : pid[u] \in Page /\ Marked(pid[u])' = Marked(pid[u])
      BY <2>1, <2>4 DEF IInv, Shape, Marked
    <3>4. \A u \in Thread : pc'[u] = "clear" => ("marked" \in snap'[u] <=> Marked(pid[u])')
      BY <2>1, <3>2, <3>3 DEF IInv, Words
    <3>5. \A u \in Thread, q \in Page :
            Holding(u, q)' => Marked(q)' \/ "locked" \in word'[Manager'][q]
      BY <2>4, <2>5 DEF IInv, Words
    <3> QED
      BY <3>1, <3>4, <3>5 DEF Words
  <2>10. FixedByOne' /\ Parked'
    BY <1>0, <2>4, <2>5, <2>7 DEF IInv, FixedByOne, Parked
  <2>11. CASE Marked(p)
    <3>1. Fixes' = Fixes
      BY <2>4, <2>5, <2>11 DEF Fixes
    <3> QED
      BY <2>8, <2>9, <2>10, <3>1 DEF IInv, LatchStep
  <2>12. CASE ~Marked(p)
    <3>1. \A u \in Thread : <<u, p>> \notin Fixes
      BY <2>7, <2>12 DEF Fixes
    <3>2. Fixes' = Fixes \cup {<<t, p>>}
      BY <1>0, <2>4, <2>5, <2>12 DEF Fixes
    <3> QED
      BY <1>0, <2>8, <2>9, <2>10, <3>1, <3>2 DEF IInv, LatchStep, Latches!Next, Latches!Fix
  <2> QED
    BY <2>11, <2>12
<1> QED
  BY <1>1, <1>2

(* The write of setUnlocked() unfixes the page of its thread and touches   *)
(* no word of another (lines 56, 138, 164, 192).                           *)
LEMMA ClearStep ==
  ASSUME IInv, NEW t \in Thread, Clear(t)
  PROVE  IInv' /\ LatchStep
<1> DEFINE p == pid[t]
           w == snap[t] \ {"locked"}
<1>0. /\ Manager \in Managers /\ p \in Page
      /\ main = "test" /\ main' = "test" /\ test' = test
  BY ManagerType DEF IInv, Shape, Clear, ClearTo, Goto, process, Manager
<1>1. /\ pc[t] = "clear" /\ pc' = [pc EXCEPT ![t] = "next"]
      /\ word' = [word EXCEPT ![Manager][p] = w]
      /\ pid' = pid /\ snap' = snap
  BY DEF Clear, ClearTo, Goto, SetWord
<1>2. w \in SUBSET Bits /\ ("marked" \in w <=> Marked(p))
  BY <1>1 DEF IInv, Shape, Words
<1>3. /\ word' \in [Managers -> [Page -> SUBSET Bits]] /\ Manager' = Manager
      /\ \A q \in Page : /\ word'[Manager][q] = IF q = p THEN w ELSE word[Manager][q]
                         /\ Marked(q)' <=> Marked(q)
  BY <1>0, <1>1, <1>2, WordWritten
<1>4. Holding(t, p) /\ (Marked(p) \/ \A u \in Thread : Holding(u, p) => u = t)
  BY <1>0, <1>1 DEF Holding, IInv, FixedByOne
<1>5. \A u \in Thread, q \in Page : Holding(u, q)' <=> Holding(u, q) /\ u # t
  BY <1>1 DEF Holding, IInv, Shape
<1>6. Shape'
  BY <1>0, <1>1, <1>3 DEF IInv, Shape, PCs
<1>7. Words'
  <2>1. \A u \in Thread :
          pc'[u] = "cas" => "marked" \in snap'[u] \/ "locked" \notin snap'[u]
    BY <1>1 DEF IInv, Words, Shape
  <2>2. \A u \in Thread : pc'[u] = "clear" => pc[u] = "clear"
    BY <1>1 DEF IInv, Shape
  <2>3. \A u \in Thread : pid[u] \in Page /\ Marked(pid[u])' = Marked(pid[u])
    BY <1>1, <1>3 DEF IInv, Shape, Marked
  <2>4. \A u \in Thread : pc'[u] = "clear" => ("marked" \in snap'[u] <=> Marked(pid[u])')
    BY <1>1, <2>2, <2>3 DEF IInv, Words
  <2>5. \A u \in Thread, q \in Page :
          Holding(u, q)' => Marked(q)' \/ "locked" \in word'[Manager'][q]
    BY <1>3, <1>4, <1>5 DEF IInv, Words
  <2> QED
    BY <2>1, <2>4, <2>5 DEF Words
<1>8. FixedByOne' /\ Parked'
  BY <1>0, <1>3, <1>5 DEF IInv, FixedByOne, Parked
<1>9. \A q \in Page : Holding(t, q) => q = p
  BY DEF Holding
<1>10. CASE Marked(p)
  <2>1. Fixes' = Fixes
    BY <1>3, <1>5, <1>9, <1>10 DEF Fixes
  <2> QED
    BY <1>6, <1>7, <1>8, <2>1 DEF IInv, LatchStep
<1>11. CASE ~Marked(p)
  <2>1. <<t, p>> \in Fixes
    BY <1>0, <1>4, <1>11 DEF Fixes
  <2>2. Fixes' = Fixes \ {<<t, p>>}
    BY <1>0, <1>3, <1>5, <1>9 DEF Fixes
  <2> QED
    BY <1>0, <1>6, <1>7, <1>8, <2>1, <2>2 DEF IInv, LatchStep, Latches!Next, Latches!Unfix
<1> QED
  BY <1>10, <1>11

(* The steps of performTest between the two (lines 117, 144, 173, 214-219, *)
(* and the read half of the bit-field write at 56).                        *)
LEMMA OtherSteps ==
  ASSUME IInv, NEW t \in Thread,
         \/ \E p \in Page : Choose(t, p)
         \/ Read(t) \/ Use(t) \/ UnfixRead(t)
  PROVE  IInv' /\ LatchStep
<1>0. Manager \in Managers /\ pid[t] \in Page
  BY ManagerType DEF IInv, Shape
<1>w. \A u \in Thread :
        /\ pc[u] = "cas" => "marked" \in snap[u] \/ "locked" \notin snap[u]
        /\ pc[u] = "clear" => ("marked" \in snap[u] <=> Marked(pid[u]))
  BY DEF IInv, Words
<1>1. ASSUME NEW p \in Page, Choose(t, p) PROVE IInv' /\ LatchStep
  <2>1. Shape'
    BY <1>1 DEF Choose, Goto, process, IInv, Shape, PCs
  <2>2. \A u \in Thread, q \in Page : Holding(u, q)' = Holding(u, q)
    BY <1>1 DEF Choose, Goto, Holding, IInv, Shape
  <2>3. \A u \in Thread :
          /\ pc'[u] = "cas" => "marked" \in snap'[u] \/ "locked" \notin snap'[u]
          /\ pc'[u] = "clear" => ("marked" \in snap'[u] <=> Marked(pid'[u]))
    BY <1>1, <1>w DEF Choose, Goto, IInv, Shape
  <2> QED
    BY <1>1, <2>1, <2>2, <2>3, QuietStep DEF Choose, Goto, process
<1>2. CASE Read(t)
  <2>1. snap' = [snap EXCEPT ![t] = WordOf(t)] /\ WordOf(t) \subseteq Bits
    BY <1>0, <1>2 DEF Read, ReadWith, WordOf, IInv, Shape
  <2>2. /\ pc[t] = "read" /\ pid' = pid
        /\ pc' = [pc EXCEPT ![t] = IF Eligible(WordOf(t), pid[t]) THEN "cas" ELSE "read"]
    BY <1>2 DEF Read, ReadWith, Goto
  <2>3. pc'[t] = "cas" => "marked" \in WordOf(t) \/ "locked" \notin WordOf(t)
    BY <2>2 DEF Eligible, Free, IInv, Shape
  <2>4. Shape'
    BY <1>2, <2>1, <2>2 DEF Read, ReadWith, IInv, Shape, PCs
  <2>5. \A u \in Thread, q \in Page : Holding(u, q)' = Holding(u, q)
    BY <2>2 DEF Holding, IInv, Shape
  <2>6. \A u \in Thread :
          /\ pc'[u] = "cas" => "marked" \in snap'[u] \/ "locked" \notin snap'[u]
          /\ pc'[u] = "clear" => ("marked" \in snap'[u] <=> Marked(pid'[u]))
    BY <1>w, <2>1, <2>2, <2>3 DEF IInv, Shape
  <2>7. main = "test" /\ main' \in {"segv", "abort", "test"}
    BY <1>2 DEF Read, ReadWith, Goto
  <2> QED
    BY <1>2, <2>4, <2>5, <2>6, <2>7, QuietStep DEF Read, ReadWith
<1>3. CASE Use(t)
  <2>1. Shape'
    BY <1>3 DEF Use, Goto, process, IInv, Shape, PCs
  <2>2. \A u \in Thread, q \in Page : Holding(u, q)' = Holding(u, q)
    BY <1>3 DEF Use, Goto, Holding, IInv, Shape
  <2>3. \A u \in Thread :
          /\ pc'[u] = "cas" => "marked" \in snap'[u] \/ "locked" \notin snap'[u]
          /\ pc'[u] = "clear" => ("marked" \in snap'[u] <=> Marked(pid'[u]))
    BY <1>3, <1>w DEF Use, Goto, IInv, Shape
  <2> QED
    BY <1>3, <2>1, <2>2, <2>3, QuietStep DEF Use, Goto, process
<1>4. CASE UnfixRead(t)
  <2>1. snap' = [snap EXCEPT ![t] = WordOf(t)] /\ WordOf(t) \subseteq Bits
    BY <1>0, <1>4 DEF UnfixRead, WordOf, IInv, Shape
  <2>2. "marked" \in WordOf(t) <=> Marked(pid[t])
    BY DEF WordOf, Marked
  <2>3. Shape'
    BY <1>4, <2>1 DEF UnfixRead, Goto, process, IInv, Shape, PCs
  <2>4. \A u \in Thread, q \in Page : Holding(u, q)' = Holding(u, q)
    BY <1>4 DEF UnfixRead, Goto, Holding, IInv, Shape
  <2>5. \A u \in Thread :
          /\ pc'[u] = "cas" => "marked" \in snap'[u] \/ "locked" \notin snap'[u]
          /\ pc'[u] = "clear" => ("marked" \in snap'[u] <=> Marked(pid'[u]))
    BY <1>4, <1>w, <2>1, <2>2 DEF UnfixRead, Goto, IInv, Shape
  <2> QED
    BY <1>4, <2>3, <2>4, <2>5, QuietStep DEF UnfixRead, Goto, process
<1> QED
  BY <1>1, <1>2, <1>3, <1>4

-----------------------------------------------------------------------------
(* Every step of the program keeps the invariant and is a step of Latch.   *)
LEMMA NextStep == IInv /\ [Next]_vars => IInv' /\ LatchStep
<1> SUFFICES ASSUME IInv, [Next]_vars PROVE IInv' /\ LatchStep
  OBVIOUS
<1>0. word \in [Managers -> [Page -> SUBSET Bits]] /\ test \in 1 .. 3
  BY DEF IInv, Shape
<1>1. CASE UNCHANGED vars
  <2>1. IInv'
    BY <1>1 DEF vars, IInv, Shape, Words, Parked, FixedByOne, Holding, Marked, Manager
  <2>2. Fixes' = Fixes
    BY <1>1 DEF vars, Fixes, Holding, Marked, Manager
  <2> QED
    BY <2>1, <2>2 DEF LatchStep
<1>2. CASE Start
  BY <1>2, ResetStep, FreshType DEF Start
<1>3. CASE Create \/ Extend \/ Open
  BY <1>0, <1>3, SetupStep DEF Create, Extend, Open, OpenSized, Step
<1>4. CASE Map
  <2>1. word' \in [Managers -> [Page -> SUBSET Bits]]
    BY <1>0, <1>4, FileAssumption DEF Map, Managers
  <2> QED
    BY <1>4, <2>1, SetupStep DEF Map, Step
<1>5. CASE TestsDone
  <2>1. test' \in 1 .. 3
    BY <1>0, <1>5 DEF TestsDone, Tests
  <2> QED
    BY <1>0, <1>5, <2>1, ResetStep DEF TestsDone
<1>6. CASE Kill
  BY <1>6, ResetStep, FreshType DEF Kill
<1>7. ASSUME NEW t \in Thread, Perform(t) PROVE IInv' /\ LatchStep
  BY <1>7, CasStep, ClearStep, OtherSteps DEF Perform
<1>8. CASE Done
  BY <1>1, <1>8 DEF Done
<1> QED
  BY <1>1, <1>2, <1>3, <1>4, <1>5, <1>6, <1>7, <1>8 DEF Next, Main

(* However many threads run, and whatever the words of the file that is    *)
(* found, a page that is not marked is fixed by one thread at a time, with *)
(* each of the three fix functions (lines 113-193).                        *)
THEOREM PagesFixedByOne == Spec => []FixedByOne
<1>1. IInv => FixedByOne
  BY DEF IInv
<1> QED
  BY <1>1, InitIInv, NextStep, PTL DEF Spec

(* On the pages that are not marked the fix and unfix functions implement  *)
(* the abstract latch: fix returns at the compare and swap, unfix at the   *)
(* write of the word (lines 113-193).                                      *)
THEOREM ImplementsLatch == Spec => LatchSpec
<1>1. IInv /\ [Next]_vars => [Latches!Next]_Fixes
  BY NextStep DEF LatchStep
<1>2. Spec => []IInv
  BY InitIInv, NextStep, PTL DEF Spec
<1>3. Init => Latches!Init
  BY InitIInv
<1> QED
  BY <1>1, <1>2, <1>3, PTL DEF Spec, LatchSpec, Latches!Spec
=============================================================================
