------------------------------ MODULE MCClient ------------------------------
(* Constants for the model checking of Client.                             *)
EXTENDS Client, TLC

CONSTANTS f1, f2, f3
=============================================================================
