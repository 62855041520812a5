------------------------------ MODULE MCWinTun ------------------------------
(* WinTun on a few goroutines and a ring of a few packets. *)
EXTENDS WinTun, TLC

Symmetry == Permutations(Readers) \cup Permutations(Threads \ Readers)
              \cup Permutations(Slots)
=============================================================================
