---------------------------- MODULE MCHLCClocks ----------------------------
(* Model checking of HLCClocks: the nodes are interchangeable.             *)
EXTENDS HLCClocks, TLC

NodeSymmetry == Permutations(Node)
============================================================================
