---------------------------- MODULE MCRebalance ----------------------------
(* Constants for the model checking of Rebalance.                          *)
EXTENDS Rebalance, TLC

CONSTANTS u1, u2, u3, k1

Symmetry == Permutations(Updaters)
=============================================================================
