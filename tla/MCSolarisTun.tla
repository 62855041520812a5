---------------------------- MODULE MCSolarisTun ----------------------------
(* SolarisTun on two goroutines and a buffer of a few bytes.  Streams: two  *)
(* packets of which a read can take one and a part, a part longer than what *)
(* lies before it included; bytes that are no packet before one; a packet   *)
(* longer than the buffer.                                                  *)
EXTENDS SolarisTun

MCHeader == 2
MCSize == 5
MCStreams == {<<2, 4>>, <<3, 2>>, <<2, 1, 2>>, <<6>>}
=============================================================================
