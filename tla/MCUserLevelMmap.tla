-------------------------- MODULE MCUserLevelMmap --------------------------
(* Instances of UserLevelMmap for TLC.  Region r1 starts at page 1 and     *)
(* region r2, when there is one, at page 11.                               *)
EXTENDS UserLevelMmap, TLC

CONSTANTS a, b, d, r1, r2

Bases == [r \in Region |-> IF r = r1 THEN 1 ELSE 11]
OnePage == [r \in Region |-> 2]
TwoPages == [r \in Region |-> 4]
ThreePages == [r \in Region |-> 6]

\* Files that end with the mapping, from the second page on, and no files.
SecondPage == [r \in Region |-> 2]
Start == [r \in Region |-> 0]
Files == [r \in Region |-> Offset[r] + Length[r]]
Anonymous == [r \in Region |-> 0]

\* Who accesses what: a thread of its own for every page, everybody
\* everything, and a thread of its own for every region.
OwnPages == {<<a, 1>>, <<b, 2>>, <<d, 3>>}
AllTouch == Thread \X Vpn
OwnRegions == {<<a, 1>>, <<b, 11>>}
=============================================================================
