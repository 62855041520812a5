----------------------------- MODULE MCUnixTun -----------------------------
(* UnixTun on a few goroutines. *)
EXTENDS UnixTun
=============================================================================
