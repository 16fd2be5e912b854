------------------------------ MODULE MCUpload ------------------------------
(* Constants for the model checking of Upload.                             *)
EXTENDS Upload, TLC

CONSTANTS r1, r2, r3

Symmetry == Permutations(Requests)
=============================================================================
