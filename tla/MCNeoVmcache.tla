---------------------------- MODULE MCNeoVmcache ----------------------------
(* An instance of NeoVmcache for TLC.                                       *)
EXTENDS NeoVmcache

CONSTANTS a, b, p1, p2

\* In the file of others one page is marked, and one has a bit set that
\* PageState does not use.
OtherBits == [p \in Page |-> IF p = p1 THEN {"reserved"} ELSE {"marked"}]
Zeros == [p \in Page |-> 0]
=============================================================================
