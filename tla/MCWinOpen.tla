----------------------------- MODULE MCWinOpen -----------------------------
(* WinOpen on two goroutines, each with a device, again and again, and a    *)
(* wintun.dll that lacks up to two procedures.                              *)
EXTENDS WinOpen, FiniteSets

MCLibraries == {l \in SUBSET Procs : Cardinality(Procs \ l) <= 2}
=============================================================================
