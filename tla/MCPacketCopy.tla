---------------------------- MODULE MCPacketCopy ----------------------------
(* PacketCopy on streams of up to three packets.  The buffer holds one      *)
(* packet, several, or parts of two; the longest packet exceeds it.         *)
EXTENDS PacketCopy

MCHeader == 2
MCSize == 4
MCRingSize == 1
MCStreams == UNION {[1..n -> MCHeader..(MCSize + 1)] : n \in 0..3}
=============================================================================
