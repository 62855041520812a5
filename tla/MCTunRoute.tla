----------------------------- MODULE MCTunRoute -----------------------------
(* TunRoute on a few streams, interfaces and frames. *)
EXTENDS TunRoute
=============================================================================
