--------------------------- MODULE MCConnTracker ---------------------------
(* Constants for the model checking of ConnTracker.                        *)
EXTENDS ConnTracker, TLC

CONSTANTS k1, k2, t1, t2

Symmetry == Permutations(Conns) \cup Permutations(Setters)
=============================================================================
