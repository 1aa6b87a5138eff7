----------------------------- MODULE PagePool -----------------------------
(***************************************************************************)
(* What a page pool promises its clients: a page is at every moment not    *)
(* yet created, free, or with exactly one thread, and it changes hands in  *)
(* one atomic step.  MemoryPool implements this when pops do not overlap.  *)
(***************************************************************************)
CONSTANTS Thread, Page

VARIABLES
  free,   \* pages that allocate() may give out
  owned   \* thread -> pages it has

vars == <<free, owned>>

Known == free \cup UNION {owned[t] : t \in Thread}

Init == free = {} /\ owned = [t \in Thread |-> {}]

\* The constructor adds a page.
Create(p) ==
  /\ p \notin Known
  /\ free' = free \cup {p}
  /\ UNCHANGED owned

\* allocate() takes a free page.
Take(t, p) ==
  /\ p \in free
  /\ free' = free \ {p}
  /\ owned' = [owned EXCEPT ![t] = @ \cup {p}]

\* A client hands a page to the thread that is going to deallocate it.
Pass(t, u, p) ==
  /\ p \in owned[t]
  /\ t # u
  /\ owned' = [owned EXCEPT ![t] = @ \ {p}, ![u] = @ \cup {p}]
  /\ UNCHANGED free

\* deallocate() gives a page back.
Give(t, p) ==
  /\ p \in owned[t]
  /\ free' = free \cup {p}
  /\ owned' = [owned EXCEPT ![t] = @ \ {p}]

Next ==
  \E p \in Page :
    \/ Create(p)
    \/ \E t \in Thread : Take(t, p) \/ Give(t, p)
    \/ \E t, u \in Thread : Pass(t, u, p)

Spec == Init /\ [][Next]_vars
=============================================================================
