----------------------------- MODULE MCPTEditor -----------------------------
(* Instances of PTEditor for TLC.                                           *)
EXTENDS PTEditor, TLC

CONSTANTS a, b, self, v1, v2, v3, v4, f1, f2

\* v1 and v2 are in one page table, v3 in a large page of the same PMD
\* table, v4 under an empty entry of the PUD table.
Paths == v1 :> <<0, 0, 0, 0>> @@ v2 :> <<0, 0, 0, 1>> @@ v3 :> <<0, 0, 1, 0>>
         @@ v4 :> <<0, 1, 0, 0>>

\* Tables 1-4, and the spare table 5.
SelfTables == 1 .. 5
Roots == self :> 1
Points(x) == [bits |-> {"present", "rw"}, pfn |-> x]
Pair(x, y) == 0 :> x @@ 1 :> y
BootTables ==
  1 :> Pair(Points(2), Zero) @@ 2 :> Pair(Points(3), Zero)
  @@ 3 :> Pair(Points(4), [bits |-> {"present", "rw", "pse"}, pfn |-> f2])
  @@ 4 :> Pair(Points(f1), Zero) @@ 5 :> Pair(Zero, Zero)
SelfAreas == {<<self, v1>>, <<self, v2>>}

\* Each thread edits a page of its own.
OwnEdits == {<<a, self, v1, <<"pfn", f2>>>>,
             <<b, self, v2, <<"clear", "present">>>>}
SelfUnmaps == {<<self, v1>>, <<self, v2>>}
=============================================================================
