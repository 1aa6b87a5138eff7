--------------------------- MODULE MCMemoryPool ---------------------------
(* Instances of MemoryPool for TLC.                                         *)
EXTENDS MemoryPool, TLC

CONSTANTS a, b, d, p1, p2, p3, p4

\* One allocating thread a that hands pages to b and d; two pools.
OnePasses == {a} \X Thread
TwoOnePools == p1 :> 0 @@ p2 :> 0 @@ p3 :> 1
AllHome0 == [t \in Thread |-> 0]

\* Two threads with home pools of their own, and d that frees for both.
OwnPasses == {<<t, t>> : t \in Thread}
OwnOrD == OwnPasses \cup (Thread \X {d})
EvenPools == p1 :> 0 @@ p2 :> 0 @@ p3 :> 1 @@ p4 :> 1
OwnHome == a :> 0 @@ b :> 1 @@ d :> 0

\* One pool for everything.
OnePool == [p \in Page |-> 0]
=============================================================================
