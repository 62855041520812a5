----------------------------- MODULE PacketCopy -----------------------------
(***************************************************************************)
(* Copy (io_copy.go): it moves a stream of bytes from a reader to a writer *)
(* through one buffer.  When the writer is a Tun, it takes one packet at a *)
(* time from the head of the buffer and answers ErrShortBuffer to a part   *)
(* of one; Copy then keeps the bytes and reads more behind them.           *)
(*                                                                         *)
(* The reader and the writer are not Copy's: they do all that io.Reader    *)
(* and io.Writer allow, and the writer what Copy has an answer for.  Only  *)
(* the end of the stream lasts: a reader that failed may go on when it is  *)
(* read again.  A read or a write that moves no byte and gives no error    *)
(* changes nothing, and is left out.                                       *)
(***************************************************************************)
EXTENDS ByteStream

CONSTANTS
  Streams,                  \* bound: the lengths of the packets of a stream
  Size,                     \* math.MaxUint16
  RingSize                  \* bound: packets the send ring of Windows holds

ASSUME SizeAssumption == Size \in Nat \ {0}
ASSUME RingAssumption == RingSize \in Nat \ {0}
ASSUME PacketAssumption == \A p \in Streams : p \in Seq(Nat \ (0..(Header - 1)))

VARIABLES
  packets, total,           \* the stream, which may end inside a packet
  writer,                   \* a stream, a Tun, or Windows' Tun with its ring
  ring,                     \* packets the ring holds, taken out by the driver
  got,                      \* the bytes read
  failed,                   \* the reader gave an error Copy has not dropped
  pc,
  buff,                     \* buff[:nr], or what is kept of it: buff[:offset]
  er, err,                  \* the error of the last read, that of Copy
  written,
  out                       \* the bytes the writer has taken

vars == <<packets, total, writer, ring, got, failed, pc, buff, er, err, written, out>>

Boundaries == BoundariesOf(packets)

TypeOK ==
  /\ packets \in Streams /\ total \in 0..EndOf(packets, Len(packets))
  /\ writer \in {"stream", "tun", "ring"} /\ ring \in 0..RingSize
  /\ got \in 0..total
  /\ failed \in BOOLEAN
  /\ pc \in {"read", "write", "done"}
  /\ buff \in Seq(1..total) /\ Len(buff) <= Size
  /\ er \in {"nil", "EOF", "fail"} /\ err \in {"nil", "fail", "invalid"}
  /\ written \in 0..total
  /\ out \in Seq(1..total)

Init ==
  /\ packets \in Streams
  /\ total \in 0..EndOf(packets, Len(packets))
  /\ writer \in {"stream", "tun", "ring"} /\ ring = 0
  /\ got = 0 /\ failed = FALSE
  /\ pc = "read"
  /\ buff = <<>>
  /\ er = "nil" /\ err = "nil"
  /\ written = 0
  /\ out = <<>>

(* Mutant: buff instead of buff[offset:]. *)
RoomOfAll == Size

(* What there is to read into: buff[offset:]. *)
Room == Size - Len(buff)

(* Mutant: the rest is not moved to the front. *)
RestInPlace(nw) == SubSeq(buff, 1, Len(buff) - nw)

(* What a short write leaves is moved to the front. *)
Rest(nw) == SubSeq(buff, nw + 1, Len(buff))

(* Mutant: offset stays zero. *)
KeptNothing == <<>>

(* ErrShortBuffer: everything is kept, and read behind. *)
Kept == buff

(* Mutant: every error ends Copy without one. *)
ProceedSilently(e) ==
  /\ pc' = IF e = "nil" THEN "read" ELSE "done"
  /\ err' = "nil"

(* Mutant: the break leaves a switch over the error, and not the loop. *)
ProceedToRead(e) ==
  /\ pc' = "read"
  /\ err' = IF e = "fail" THEN "fail" ELSE "nil"

(* What Copy makes of the last read's error, once its bytes are gone. *)
Proceed(e) ==
  /\ pc' = IF e = "nil" THEN "read" ELSE "done"
  /\ err' = IF e = "fail" THEN "fail" ELSE "nil"

(* Bytes and an error may come together, and the error need not come again. *)
Read ==
  /\ pc = "read"
  /\ \E n \in 0..Room, e \in {"nil", "EOF", "fail"} :
       /\ got + n <= total
       /\ n > 0 \/ e # "nil"
       /\ e = "EOF" => got + n = total
       /\ got' = got + n
       /\ failed' = (failed \/ e = "fail")
       /\ er' = e
       /\ buff' = buff \o Bytes(got, got + n)
       /\ IF n > 0 THEN pc' = "write" /\ UNCHANGED err ELSE Proceed(e)
  /\ UNCHANGED <<packets, total, writer, ring, written, out>>

(* Mutant: a short write is not followed by another. *)
AfterWriteOnce(nw) == Proceed(er)

(* What is left is written again. *)
AfterWrite(nw) == IF nw < Len(buff) THEN UNCHANGED <<pc, err>> ELSE Proceed(er)

Result(n, e) == [n |-> n, e |-> e]

(* What a Tun makes of the buffer: one packet, or a part of one.            *)
TunResults ==
  LET lens == TotalLens(packets, buff)
  IN {Result(l, "nil") : l \in lens \ {Short, NotIp}}
       \cup IF lens = {Short} THEN {Result(0, "short")} ELSE {Result(0, "fail")}

(* Any other writer takes some bytes, or claims to have taken too many.     *)
StreamResults ==
  {Result(n, "nil") : n \in 1..(Len(buff) + 1)} \cup {Result(n, "fail") : n \in 0..Len(buff)}

(* A full ring answers (0, nil) to a packet: Copy takes it for a short      *)
(* write and tries again, with nothing changed.                             *)
RingFull == writer = "ring" /\ pc = "write" /\ ring = RingSize

Refusing == RingFull /\ TotalLens(packets, buff) # {Short}

(* What Copy makes of a part of a packet: it reads on, whatever error the   *)
(* part came with, and forgets that error.                                  *)
ReadOn ==
  /\ pc' = "read" /\ buff' = Kept
  /\ failed' = (failed /\ er # "fail")
  /\ UNCHANGED err

Write ==
  /\ pc = "write"
  /\ \E r \in IF writer = "stream" THEN StreamResults ELSE TunResults :
       LET valid == r.n <= Len(buff)
           nw    == IF valid THEN r.n ELSE 0
           ew    == IF ~valid /\ r.e = "nil" THEN "invalid" ELSE r.e
       IN /\ nw > 0 => ~RingFull
          /\ ring' = IF writer = "ring" /\ nw > 0 THEN ring + 1 ELSE ring
          /\ written' = written + nw
          /\ out' = out \o SubSeq(buff, 1, nw)
          /\ CASE ew = "short" -> ReadOn
               [] ew = "nil"   -> buff' = Rest(nw) /\ AfterWrite(nw) /\ UNCHANGED failed
               [] OTHER        -> /\ buff' = Rest(nw) /\ pc' = "done" /\ err' = ew
                                  /\ UNCHANGED failed
  /\ UNCHANGED <<packets, total, writer, got, er>>

DriverTakes ==
  /\ ring > 0 /\ ring' = ring - 1
  /\ UNCHANGED <<packets, total, writer, got, failed, pc, buff, er, err, written, out>>

Returned == pc = "done" /\ UNCHANGED vars

Next == Read \/ Write \/ DriverTakes \/ Returned

Spec == Init /\ [][Next]_vars

(* The reader, given room, and the writer, unless its ring is full, answer  *)
(* each call with bytes or an error.                                        *)
FairSpec == Spec /\ WF_vars(Room > 0 /\ Read) /\ WF_vars(~Refusing /\ Write)

-----------------------------------------------------------------------------
(* Properties *)

(* No byte is lost, repeated or moved between the reader and the writer,    *)
(* however reads, short buffers and short writes fall, and the count is     *)
(* that of the bytes the writer took.                                       *)
Lossless == out \o buff = Bytes(0, got) /\ written = Len(out)

(* The buffer given to a Tun starts at a packet: one byte too many or too   *)
(* few and no later packet is recognised.                                   *)
InSync == pc = "write" /\ writer # "stream" => buff[1] - 1 \in Boundaries

(* A Copy that reports no error was told the end by its last read, so that *)
(* a failure that lasts is reported, and has written all of the stream, but *)
(* for the part of a packet at the end that a Tun would not take.  It has   *)
(* hidden no error but one that came with bytes the Tun found short and did *)
(* not come again, and has written what followed those bytes all the same.  *)
NilMeansComplete ==
  pc = "done" /\ err = "nil" =>
    /\ er = "EOF" /\ ~failed
    /\ Len(out) = IF writer = "stream" THEN total ELSE Max(Boundaries \cap 0..total)

(* Copy returns, the stream being finite.  Two things keep it busy for      *)
(* ever: a packet for a ring the driver does not empty, and a packet longer *)
(* than the buffer, which it fills and then reads into no room.             *)
Overlong == pc = "read" /\ Room = 0

Terminates == <>(pc = "done") \/ <>[](Refusing \/ Overlong)
=============================================================================
