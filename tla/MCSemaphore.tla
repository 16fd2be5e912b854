---------------------------- MODULE MCSemaphore ----------------------------
(* Constants for the model checking of Semaphore.                          *)
EXTENDS Semaphore, TLC

CONSTANTS c1, c2, c3

Symmetry == Permutations(Clients)
=============================================================================
