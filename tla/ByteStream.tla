----------------------------- MODULE ByteStream -----------------------------
(***************************************************************************)
(* A stream of packets as whoever reads it sees it: as bytes.  A stream is *)
(* the sequence of its packets' lengths and a byte is its place in the     *)
(* stream, so that a byte lost, repeated or moved cannot go unseen.        *)
(***************************************************************************)
EXTENDS Integers, SequencesExt

CONSTANT Header             \* what TotalLen must see of a packet

ASSUME HeaderAssumption == Header \in Nat \ {0}

(* The place of the last byte of packet i of stream p. *)
EndOf(p, i) ==
  LET end[k \in 0..Len(p)] == IF k = 0 THEN 0 ELSE end[k - 1] + p[k]
  IN end[i]

BoundariesOf(p) == {EndOf(p, i) : i \in 0..Len(p)}

Bytes(a, b) == [i \in 1..(b - a) |-> a + i]

Short == 0                  \* tcpip.ErrShortBuffer
NotIp == -1                 \* any other error

(* What tcpip.TotalLen answers to the bytes b of stream p.  A packet too    *)
(* short to have a header stands for one that is not IP.  Bytes that are    *)
(* not the head of a packet may look like anything.                         *)
TotalLens(p, b) ==
  IF b = <<>> THEN {Short}
  ELSE IF \/ b[1] - 1 \notin BoundariesOf(p) \ {EndOf(p, Len(p))}
          \/ \E j \in (1..Header) \cap (1..Len(b)) : b[j] # b[1] + j - 1
  THEN {Short, NotIp} \cup 1..Len(b)
  ELSE LET i == CHOOSE k \in 1..Len(p) : EndOf(p, k - 1) = b[1] - 1
       IN IF p[i] < Header THEN {NotIp}
          ELSE IF Len(b) < p[i] THEN {Short} ELSE {p[i]}
=============================================================================
