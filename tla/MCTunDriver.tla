---------------------------- MODULE MCTunDriver ----------------------------
(* TunDriver on a few streams and interfaces. *)
EXTENDS TunDriver, TLC

Symmetry == Permutations(Streams) \cup Permutations(Blocks)
=============================================================================
