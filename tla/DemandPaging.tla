---------------------------- MODULE DemandPaging ----------------------------
(***************************************************************************)
(* What a fault handler that maps pages itself promises: a missing page of *)
(* a mapping gets a frame no other page shows, and keeps it as long as the *)
(* mapping exists; no page outside a mapping shows a frame.                *)
(***************************************************************************)
CONSTANTS Page, Frame, Missing
VARIABLES
  frameOf,   \* page -> the frame it shows, or Missing
  mapped     \* pages of the mappings that exist

Init == frameOf = [p \in Page |-> Missing] /\ mapped = {}

Map(ps) == mapped' = mapped \cup ps /\ UNCHANGED frameOf

Supply(p, f) == /\ p \in mapped /\ frameOf[p] = Missing
                /\ \A q \in Page : frameOf[q] # f
                /\ frameOf' = [frameOf EXCEPT ![p] = f]
                /\ UNCHANGED mapped

Unmap(ps) == /\ mapped' = mapped \ ps
             /\ frameOf' = [p \in Page |-> IF p \in ps THEN Missing
                                                       ELSE frameOf[p]]

Next == \/ \E ps \in SUBSET Page : Map(ps) \/ Unmap(ps)
        \/ \E p \in Page, f \in Frame : Supply(p, f)

Spec == Init /\ [][Next]_<<frameOf, mapped>>
=============================================================================
