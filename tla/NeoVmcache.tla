----------------------------- MODULE NeoVmcache -----------------------------
(***************************************************************************)
(* experiments/neovmcache_vs_vmcache.cc: three ways to fix a page, each    *)
(* with a PageState word per page that is locked by compare and swap, run  *)
(* one after the other over a data file that the program creates itself.   *)
(* hash_fix and vmcache_fix keep the word in a table of their own,         *)
(* neovmcache_fix in the first word of the page, in a private mapping of   *)
(* the file.                                                               *)
(*                                                                         *)
(* main runs the tests with one thread; the compare-and-swap loops are     *)
(* written for several, and Thread is a parameter.                         *)
(***************************************************************************)
EXTENDS Integers, Sequences

CONSTANTS
  Thread,     \* threads that run performTest
  Page,       \* the page IDs below NumPages
  Ops,        \* N, the operations of a test
  MaxRuns,    \* how often the program is started
  Failures,   \* calls that may fail: "state", "tags", "open", "write", "map"
  OldFiles,   \* what a file of that name may be before the first run
  OldWord,    \* page -> the bits of its first word in a file of others
  OldSecond   \* page -> its second word in a file of others

Bits == {"evicted", "marked", "locked", "reserved"}
Tests == <<"hash", "vmcache", "neovmcache">>
Managers == {"hash", "vmcache", "neovmcache"}

ASSUME CountAssumption == Page # {} /\ Ops \in Nat /\ MaxRuns \in Nat
ASSUME FileAssumption == /\ OldFiles \subseteq {"absent", "empty", "own", "old"}
                         /\ OldWord \in [Page -> SUBSET Bits]
                         /\ OldSecond \in [Page -> Nat]

VARIABLES
  file,    \* the data file: absent, empty (not yet extended), own or old
  runs,    \* how often the program was started
  main,    \* where main is, or how the process ended
  tagged,  \* the mmap of buf_tags succeeded
  test,    \* index of the test that runs
  word,    \* manager -> page -> bits of the PageState
  pc, pid, \* thread -> where it is in performTest, the page it works on
  snap,    \* thread -> its copy s of a PageState
  ops      \* thread -> operations it has completed

process == <<file, runs, main, tagged, test>>
vars == <<file, runs, main, tagged, test, word, pc, pid, snap, ops>>

Over == {"off", "exit0", "exit1", "abort", "segv"}
Manager == Tests[test]
NoPage == CHOOSE p \in Page : TRUE
Holding(t, p) == pc[t] \in {"use", "unfix", "clear"} /\ pid[t] = p

\* isMarked(); setMarked is called nowhere, but a file of others may have the bit.
Marked(p) == "marked" \in word[Manager][p]

Fresh == [m \in Managers |-> [p \in Page |-> {}]]
Init ==
  /\ file \in OldFiles
  /\ runs = 0 /\ main = "off" /\ tagged = TRUE /\ test = 1
  /\ word = Fresh
  /\ pc = [t \in Thread |-> "next"]
  /\ pid = [t \in Thread |-> NoPage]
  /\ snap = [t \in Thread |-> {}]
  /\ ops = [t \in Thread |-> 0]

-----------------------------------------------------------------------------
(* main() and check_data_file()                                             *)
ResetThreads == /\ pc' = [t \in Thread |-> "next"]
                /\ pid' = [t \in Thread |-> NoPage]
                /\ snap' = [t \in Thread |-> {}]
                /\ ops' = [t \in Thread |-> 0]
UnchangedThreads == UNCHANGED <<pc, pid, snap, ops>>

May(call) == {TRUE} \cup {call \notin Failures}

\* Two anonymous mappings; of the second the result is not looked at.
Start ==
  /\ main \in Over /\ runs < MaxRuns
  /\ runs' = runs + 1
  /\ main' \in {IF ~ok THEN "exit1" ELSE IF file = "absent" THEN "create" ELSE "open"
                 : ok \in May("state")}
  /\ tagged' \in May("tags")
  /\ test' = 1
  /\ word' = Fresh
  /\ ResetThreads
  /\ UNCHANGED file

Step(from, to) == main = from /\ main' = to

\* A result of -1 makes the mmap of main fail.
Create ==
  /\ \E ok \in May("open") : /\ Step("create", IF ok THEN "extend" ELSE "exit1")
                             /\ file' = IF ok THEN "empty" ELSE file
  /\ UNCHANGED <<runs, tagged, test, word>> /\ UnchangedThreads

\* lseek and a write of the last byte: the file gets its full size at once.
Extend ==
  /\ \E ok \in May("write") : /\ Step("extend", IF ok THEN "open" ELSE "exit1")
                              /\ file' = IF ok THEN "own" ELSE file
  /\ UNCHANGED <<runs, tagged, test, word>> /\ UnchangedThreads

OpenSized(enough) ==
  /\ \E ok \in May("open") : Step("open", IF ok /\ enough THEN "map" ELSE "exit1")
  /\ UNCHANGED <<file, runs, tagged, test, word>> /\ UnchangedThreads
OpenAnySize == OpenSized(TRUE)                                     \* mutant
Open == OpenSized(file # "empty")

\* mmap of the file, madvise, mlock, and the tables.
Map ==
  /\ \E ok \in May("map") : Step("map", IF ok THEN "test" ELSE "exit1")
  /\ word' = [word EXCEPT !["neovmcache"] =
                IF file = "old" THEN OldWord ELSE [p \in Page |-> {}]]
  /\ UNCHANGED <<file, runs, tagged, test>> /\ UnchangedThreads

\* performTest has returned: the next test, or the end of main.
TestsDone ==
  /\ main = "test"
  /\ \A t \in Thread : pc[t] = "next" /\ ops[t] = Ops
  /\ IF test < Len(Tests) THEN test' = test + 1 /\ UNCHANGED main
                          ELSE main' = "exit0" /\ UNCHANGED test
  /\ ResetThreads
  /\ UNCHANGED <<file, runs, tagged, word>>

\* The process is killed; the file stays as it is.
Kill ==
  /\ main \notin Over
  /\ main' = "off"
  /\ word' = Fresh /\ test' = 1
  /\ ResetThreads
  /\ UNCHANGED <<file, runs, tagged>>

-----------------------------------------------------------------------------
(* performTest with the fix and unfix of the current manager               *)
Goto(t, from, to) == main = "test" /\ pc[t] = from /\ pc' = [pc EXCEPT ![t] = to]
WordOf(t) == word[Manager][pid[t]]
SetWord(t, w) == word' = [word EXCEPT ![Manager][pid[t]] = w]

\* rnd_gen.next() % NumPages
Choose(t, p) ==
  /\ ops[t] < Ops
  /\ Goto(t, "next", "read")
  /\ pid' = [pid EXCEPT ![t] = p]
  /\ UNCHANGED <<process, word, snap, ops>>

\* auto s = ...: neovmcache_fix also wants a second word of 0, which no step
\* writes, so it does not matter when it is read.
Free(w) == "marked" \in w \/ "locked" \notin w
Second(p) == IF file = "old" THEN OldSecond[p] ELSE 0
Eligible(w, p) == Free(w) /\ (Manager = "neovmcache" => Second(p) = 0)

ReadWith(t, eligible) ==
  /\ Goto(t, "read", IF eligible THEN "cas" ELSE "read")
  /\ snap' = [snap EXCEPT ![t] = WordOf(t)]
  /\ main' = IF Manager = "hash" /\ ~tagged THEN "segv"
             ELSE IF "evicted" \in WordOf(t) THEN "abort" ELSE main
  /\ UNCHANGED <<file, runs, tagged, test, word, pid, ops>>
ReadUntested(t) == ReadWith(t, TRUE)                               \* mutant
Read(t) == ReadWith(t, Eligible(WordOf(t), pid[t]))

\* compare_exchange_strong(s.state(), s.locked_state())
CasOver(t, expected, desired) ==
  LET same == WordOf(t) = expected
  IN /\ Goto(t, "cas", IF same THEN "use" ELSE "read")
     /\ IF same THEN SetWord(t, desired) ELSE UNCHANGED word
     /\ UNCHANGED <<process, pid, snap, ops>>
CasUncompared(t) == CasOver(t, WordOf(t), snap[t] \cup {"locked"}) \* mutant
Cas(t) == CasOver(t, snap[t], snap[t] \cup {"locked"})

\* acc += data[2]; data[2] = acc: the PageState is in none of these words.
Use(t) ==
  /\ Goto(t, "use", "unfix")
  /\ UNCHANGED <<process, word, pid, snap, ops>>

\* setUnlocked() writes a bit-field: the word is read and written back.
UnfixRead(t) ==
  /\ Goto(t, "unfix", "clear")
  /\ snap' = [snap EXCEPT ![t] = WordOf(t)]
  /\ UNCHANGED <<process, word, pid, ops>>

ClearTo(t, w) ==
  /\ Goto(t, "clear", "next")
  /\ SetWord(t, w)
  /\ ops' = [ops EXCEPT ![t] = @ + 1]
  /\ UNCHANGED <<process, pid, snap>>
ClearNothing(t) == ClearTo(t, snap[t])                             \* mutant
Clear(t) == ClearTo(t, snap[t] \ {"locked"})

-----------------------------------------------------------------------------
Perform(t) == \/ \E p \in Page : Choose(t, p)
              \/ Read(t) \/ Cas(t) \/ Use(t) \/ UnfixRead(t) \/ Clear(t)
Main == Create \/ Extend \/ Open \/ Map \/ TestsDone

Done == main \in Over /\ runs = MaxRuns /\ UNCHANGED vars
Next == Start \/ Main \/ Kill \/ Done \/ \E t \in Thread : Perform(t)

Spec == Init /\ [][Next]_vars

\* A process that runs keeps running, and so does each of its threads.
FairSpec == Spec /\ WF_vars(Main) /\ \A t \in Thread : WF_vars(Perform(t))

-----------------------------------------------------------------------------
(* A page is fixed by one thread at a time, with every manager: the lock   *)
(* bit goes up by compare and swap and comes down by a plain write of the  *)
(* whole word (neovmcache_vs_vmcache.cc:117-128, 138, 173-178, 192).  Not  *)
(* so a page whose word is marked, as it may be in a file of others: fix   *)
(* takes a marked page although it is locked (127, 154, 177).              *)
FixedByOne ==
  \A t, u \in Thread, p \in Page :
    Holding(t, p) /\ Holding(u, p) /\ ~Marked(p) => t = u

(* The lock bit of a page that is not marked is set exactly while a thread *)
(* has the page fixed, so a test leaves no page locked for the next one or *)
(* for a later operation (neovmcache_vs_vmcache.cc:128, 138, 155, 164,     *)
(* 178, 192).                                                              *)
LockedIffFixed ==
  main = "test" =>
    \A m \in Managers, p \in Page :
      "marked" \notin word[m][p] =>
        ("locked" \in word[m][p]
          <=> m = Manager /\ \E t \in Thread : Holding(t, p))

(* The tests only run over a file of NumPages pages, although an earlier   *)
(* run may have been killed, or have failed, between creating the file and *)
(* extending it (neovmcache_vs_vmcache.cc:250, 307-369).                   *)
FileLongEnough == main \in {"map", "test"} => file \notin {"absent", "empty"}

(* Seen as who has which unmarked page fixed, the three managers are       *)
(* latches (neovmcache_vs_vmcache.cc:113-193).                             *)
Fixes == {x \in Thread \X Page : Holding(x[1], x[2]) /\ ~Marked(x[2])}
Latches == INSTANCE Latch WITH fixed <- Fixes
LatchSpec == Latches!Spec

(* The program ends: no fix spins for ever, wherever an earlier run was    *)
(* killed, and on a file of others whose first words are not locked and    *)
(* whose second words are 0 (neovmcache_vs_vmcache.cc:116, 143, 172).      *)
Finishes == main \notin Over ~> main \in Over
=============================================================================
