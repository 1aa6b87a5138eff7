-------------------------- MODULE MCPTEditorDemos ---------------------------
(* The programs of PTEditor, run by two processes on two processors.        *)
EXTENDS PTEditorDemos, TLC

\* WB, WC, UC-, UC, WB, WP, UC-, WT: what Linux programs at boot.
LinuxPat ==
  (0 :> {2, 4}) @@ (1 :> {1}) @@ (2 :> {1, 2, 4}) @@ (3 :> {})
    @@ (4 :> {2, 4}) @@ (5 :> {1, 4}) @@ (6 :> {1, 2, 4}) @@ (7 :> {4})

\* WB, WT, UC-, UC and again: what a processor has after its reset.
ResetPat ==
  [i \in Index |-> CASE i % 4 = 0 -> {2, 4} [] i % 4 = 1 -> {4}
                     [] i % 4 = 2 -> {1, 2, 4} [] i % 4 = 3 -> {}]

TwoPats == {LinuxPat, ResetPat}

\* Index 3 is the first that means UC: then there is none, or it is index 7.
\* And an index whose mask is not defined.
TwoTypes == {<<3, WB>>, <<5, UC>>}
=============================================================================
