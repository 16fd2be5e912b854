---------------------------- MODULE MCCollector ----------------------------
(* Constants for the model checking of Collector.                          *)
EXTENDS Collector, TLC

CONSTANTS k1, k2, t1, t2

Symmetry == Permutations(Conns) \cup Permutations(Setters)
=============================================================================
