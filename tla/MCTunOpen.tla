----------------------------- MODULE MCTunOpen -----------------------------
(* TunOpen with a few descriptor numbers. *)
EXTENDS TunOpen, TLC

Symmetry == Permutations(Fds)
=============================================================================
