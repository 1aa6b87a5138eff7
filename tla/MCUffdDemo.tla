----------------------------- MODULE MCUffdDemo -----------------------------
(* The instance of UffdDemo for TLC: regions of up to one page more than    *)
(* there are buffers, and more pages than letters.                          *)
EXTENDS UffdDemo, TLC
=============================================================================
