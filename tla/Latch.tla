------------------------------- MODULE Latch -------------------------------
(***************************************************************************)
(* What fixing a page promises (experiments/neovmcache_vs_vmcache.cc): a   *)
(* page is fixed by one thread at a time, and only that thread unfixes it. *)
(***************************************************************************)
CONSTANTS Thread, Page

VARIABLE fixed  \* <<t, p>>: thread t has page p fixed

Init == fixed = {}

Fix(t, p) == /\ \A u \in Thread : <<u, p>> \notin fixed
             /\ fixed' = fixed \cup {<<t, p>>}
Unfix(t, p) == <<t, p>> \in fixed /\ fixed' = fixed \ {<<t, p>>}

\* The process ends, is killed or is started anew.
Reset == fixed' = {}

Next == Reset \/ \E t \in Thread, p \in Page : Fix(t, p) \/ Unfix(t, p)

Spec == Init /\ [][Next]_fixed
=============================================================================
