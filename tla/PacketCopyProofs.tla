-------------------------- MODULE PacketCopyProofs --------------------------
(***************************************************************************)
(* Proofs about PacketCopy, for packets of any lengths, a buffer and a     *)
(* ring of any size, and every reader and writer it has an answer for:     *)
(* Copy loses no byte, gives a Tun whole packets only, and says nil only   *)
(* when all is written.                                                    *)
(***************************************************************************)
EXTENDS PacketCopy, ByteStreamProofs

(* What the proof needs of the types; TypeOK says more. *)
Types ==
  /\ packets \in Streams /\ total \in 0..EndOf(packets, Len(packets))
  /\ writer \in {"stream", "tun", "ring"} /\ ring \in 0..RingSize
  /\ got \in 0..total
  /\ failed \in BOOLEAN
  /\ pc \in {"read", "write", "done"}
  /\ buff \in Seq(Nat) /\ Len(buff) <= Size
  /\ er \in {"nil", "EOF", "fail"} /\ err \in {"nil", "fail", "invalid"}
  /\ written \in Nat
  /\ out \in Seq(Nat)

(* A Tun has been given whole packets. *)
Aligned == writer # "stream" => Len(out) \in Boundaries

(* Copy writes when there is something to write, and reads, or returns nil, *)
(* when nothing is left but a part of a packet a Tun would not take.        *)
PartKept ==
  /\ writer # "stream"
  /\ \E k \in 1..Len(packets) :
       EndOf(packets, k - 1) = Len(out) /\ Len(buff) < packets[k]

Rested ==
  /\ pc = "write" => buff # <<>>
  /\ pc = "read" \/ (pc = "done" /\ err = "nil") => buff = <<>> \/ PartKept

(* A failure is unsettled while the bytes of the read that failed are       *)
(* written, and no longer; only the end of the stream is returned as nil.   *)
Ended ==
  /\ er = "EOF" => got = total
  /\ pc = "read" => failed = FALSE
  /\ pc = "write" => failed = (er = "fail")
  /\ pc = "done" /\ err = "nil" => er = "EOF" /\ failed = FALSE

IInv == Types /\ Lossless /\ Aligned /\ Rested /\ Ended

-----------------------------------------------------------------------------
LEMMA PacketTypes ==
  ASSUME packets \in Streams
  PROVE  /\ packets \in Seq(Nat) /\ packets \in Seq(Nat \ {0})
         /\ Len(packets) \in Nat
         /\ \A k \in 1..Len(packets) : packets[k] >= Header
<1>1. packets \in Seq(Nat \ (0..(Header - 1)))
  BY PacketAssumption
<1>2. \A k \in 1..Len(packets) :
        packets[k] \in Nat /\ packets[k] >= Header /\ packets[k] # 0
  BY <1>1, HeaderAssumption
<1>3. QED
  BY <1>1, <1>2

(* Both halves of the stream lie in order. *)
LEMMA InOrder ==
  ASSUME Types, Lossless
  PROVE  /\ Len(out) \in Nat /\ Len(buff) \in Nat /\ got \in Nat
         /\ Len(out) + Len(buff) = got
         /\ buff = Bytes(Len(out), got)
         /\ \A i \in 1..Len(out) : out[i] = i
         /\ \A i \in 1..Len(buff) : buff[i] = Len(out) + i
<1>1. out \in Seq(Nat) /\ buff \in Seq(Nat) /\ got \in Nat
  BY DEF Types
<1>2. Cut(out, buff, got)
  BY DEF Lossless, Cut
<1>3. QED
  <2>1. /\ Len(out) + Len(buff) = got /\ buff = Bytes(Len(out), got)
        /\ \A i \in 1..Len(out) : out[i] = i
        /\ \A i \in 1..Len(buff) : buff[i] = Len(out) + i
    BY <1>1, <1>2, BytesCut
  <2>2. QED
    BY <1>1, <2>1

(* What TotalLen says to a buffer that starts at a packet. *)
LEMMA AtPacket ==
  ASSUME Types, Lossless, Aligned, writer # "stream", buff # <<>>
  PROVE  \E k \in 1..Len(packets) :
           /\ EndOf(packets, k - 1) = Len(out)
           /\ TotalLens(packets, buff) =
                IF Len(buff) < packets[k] THEN {Short} ELSE {packets[k]}
<1>1. /\ Len(out) \in BoundariesOf(packets)
      /\ packets \in Seq(Nat) /\ \A k \in 1..Len(packets) : packets[k] >= Header
  BY PacketTypes DEF Aligned, Boundaries, Types
<1>2. got \in Nat /\ got <= EndOf(packets, Len(packets))
  <2>1. EndOf(packets, Len(packets)) \in Nat
    BY <1>1, EndOfSums
  <2>2. QED
    BY <2>1 DEF Types
<1>3. /\ buff \in Seq(Nat) /\ Len(buff) # 0
      /\ Len(out) + Len(buff) <= EndOf(packets, Len(packets))
      /\ \A i \in 1..Len(buff) : buff[i] = Len(out) + i
  <2>1. /\ Len(out) + Len(buff) = got
        /\ \A i \in 1..Len(buff) : buff[i] = Len(out) + i
    BY InOrder
  <2>2. buff \in Seq(Nat) /\ Len(buff) # 0
    BY DEF Types
  <2>3. QED
    BY <1>2, <2>1, <2>2
<1>4. PICK k \in 1..Len(packets) :
        /\ EndOf(packets, k - 1) = Len(out)
        /\ TotalLens(packets, buff) =
             IF packets[k] < Header THEN {NotIp}
             ELSE IF Len(buff) < packets[k] THEN {Short} ELSE {packets[k]}
  BY <1>1, <1>3, LensAtHead, ZenonT(60)
<1>5. ~(packets[k] < Header)
  <2>1. packets[k] \in Nat /\ packets[k] >= Header
    BY <1>1
  <2>2. QED
    BY <2>1, HeaderAssumption
<1>6. QED
  BY <1>4, <1>5

(* What a Tun answers: all of the packet at the head, or that it is short. *)
LEMMA TunTakes ==
  ASSUME Types, Lossless, Aligned, writer # "stream", buff # <<>>, NEW r \in TunResults
  PROVE  /\ r.n \in 0..Len(buff) /\ r.e \in {"nil", "short", "fail"}
         /\ Len(out) + r.n \in Boundaries
         /\ r.e = "short" => r.n = 0 /\ PartKept
<1>1. PICK k \in 1..Len(packets) :
        /\ EndOf(packets, k - 1) = Len(out)
        /\ TotalLens(packets, buff) =
             IF Len(buff) < packets[k] THEN {Short} ELSE {packets[k]}
  BY AtPacket
<1>2. /\ packets[k] \in Nat \ {0} /\ Len(buff) \in Nat /\ Len(out) \in Nat
      /\ EndOf(packets, k) = Len(out) + packets[k]
      /\ EndOf(packets, k) \in Boundaries /\ Len(out) \in Boundaries
  <2>1. packets \in Seq(Nat) /\ packets \in Seq(Nat \ {0})
    BY PacketTypes DEF Types
  <2>2. QED
    BY <1>1, <2>1, BoundariesFound DEF Types, Boundaries
<1>3. CASE Len(buff) < packets[k]
  <2>1. r = Result(0, "short")
    BY <1>1, <1>3 DEF TunResults, Short, NotIp
  <2>2. PartKept
    BY <1>1, <1>3 DEF PartKept
  <2>3. QED
    BY <1>2, <2>1, <2>2 DEF Result
<1>4. CASE ~(Len(buff) < packets[k])
  <2>1. packets[k] # Short /\ packets[k] # NotIp
    BY <1>2 DEF Short, NotIp
  <2>2. r = Result(packets[k], "nil") \/ r = Result(0, "fail")
    BY <1>1, <1>4, <2>1 DEF TunResults
  <2>3. QED
    BY <1>2, <1>4, <2>2 DEF Result
<1>5. QED
  BY <1>3, <1>4

(* What any writer takes. *)
LEMMA WriterTakes ==
  ASSUME Types, Lossless, Aligned, buff # <<>>,
         NEW r \in IF writer = "stream" THEN StreamResults ELSE TunResults
  PROVE  /\ r.n \in Nat /\ r.e \in {"nil", "short", "fail"}
         /\ r.e = "short" => r.n = 0 /\ PartKept
         /\ writer # "stream" => r.n <= Len(buff) /\ Len(out) + r.n \in Boundaries
<1>1. CASE writer = "stream"
  <2>1. Len(buff) \in Nat
    BY DEF Types
  <2>2. QED
    BY <1>1, <2>1 DEF StreamResults, Result
<1>2. CASE writer # "stream"
  <2>1. Len(buff) \in Nat
    BY DEF Types
  <2>2. QED
    BY <1>2, <2>1, TunTakes
<1>3. QED
  BY <1>1, <1>2

-----------------------------------------------------------------------------
LEMMA InitOK == Init => IInv
<1> SUFFICES ASSUME Init PROVE IInv
  OBVIOUS
<1>1. packets \in Seq(Nat) /\ Len(packets) \in Nat
  BY PacketTypes DEF Init
<1>2. EndOf(packets, Len(packets)) \in Nat /\ 0 \in Boundaries
  BY <1>1, EndOfSums, BoundariesFound DEF Boundaries
<1>3. Bytes(0, 0) = <<>>
  <2>1. Bytes(0, 0) \in Seq(Nat) /\ Len(Bytes(0, 0)) = 0
    BY BytesAre
  <2>2. QED
    BY <2>1
<1>4. Types
  <2>1. total \in Nat /\ 0 \in 0..total /\ 0 \in 0..RingSize
    BY <1>2, RingAssumption DEF Init
  <2>2. buff \in Seq(Nat) /\ Len(buff) <= Size /\ out \in Seq(Nat)
    BY SizeAssumption DEF Init
  <2>3. QED
    BY <2>1, <2>2 DEF Init, Types
<1>5. Lossless /\ Aligned /\ Rested /\ Ended
  <2>1. out \o buff = <<>> /\ Len(out) = 0
    BY DEF Init
  <2>2. Lossless /\ Aligned
    BY <1>2, <1>3, <2>1 DEF Init, Lossless, Aligned
  <2>3. QED
    BY <2>2 DEF Init, Rested, Ended
<1>6. QED
  BY <1>4, <1>5 DEF IInv

LEMMA ReadStep == ASSUME IInv, Read PROVE IInv'
<1> USE DEF IInv
<1>1. PICK n \in 0..Room, e \in {"nil", "EOF", "fail"} :
        /\ got + n <= total
        /\ n > 0 \/ e # "nil"
        /\ e = "EOF" => got + n = total
        /\ got' = got + n
        /\ failed' = (failed \/ e = "fail")
        /\ er' = e
        /\ buff' = buff \o Bytes(got, got + n)
        /\ IF n > 0 THEN pc' = "write" /\ UNCHANGED err ELSE Proceed(e)
  BY DEF Read
<1>2. UNCHANGED <<packets, total, writer, ring, written, out>> /\ pc = "read"
  BY DEF Read
<1>3. /\ got \in Nat /\ total \in Nat /\ n \in Nat /\ got + n \in Nat
      /\ buff \in Seq(Nat) /\ out \in Seq(Nat) /\ Len(buff) \in Nat
      /\ Len(buff) + n <= Size
  BY <1>1, PacketTypes, EndOfSums, SizeAssumption DEF Types, Room
<1>4. /\ Bytes(got, got + n) \in Seq(Nat) /\ Len(Bytes(got, got + n)) = n
  <2>1. got <= got + n /\ (got + n) - got = n
    BY <1>3
  <2>2. QED
    BY <1>3, <2>1, BytesAre
<1>5. buff' \in Seq(Nat) /\ Len(buff') = Len(buff) + n
  <2>1. /\ buff \o Bytes(got, got + n) \in Seq(Nat)
        /\ Len(buff \o Bytes(got, got + n)) = Len(buff) + Len(Bytes(got, got + n))
    BY <1>3, <1>4, Joined, Zenon
  <2>2. QED
    BY <1>1, <1>4, <2>1, Zenon
<1>6. /\ pc' \in {"write", "done"} /\ err' \in {"nil", "fail", "invalid"}
      /\ pc' = "done" /\ err' = "nil" => er' = "EOF"
      /\ failed' = (er' = "fail")
  <2>1. err \in {"nil", "fail", "invalid"} /\ failed = FALSE
    BY <1>2 DEF Types, Ended
  <2>2. pc' \in {"write", "done"} /\ err' \in {"nil", "fail", "invalid"}
    BY <1>1, <2>1 DEF Proceed
  <2>3. pc' = "done" /\ err' = "nil" => er' = "EOF"
    BY <1>1 DEF Proceed
  <2>4. QED
    BY <1>1, <2>1, <2>2, <2>3
<1>7. Types'
  <2>1. got' \in 0..total /\ failed' \in BOOLEAN /\ er' \in {"nil", "EOF", "fail"}
    BY <1>1, <1>3, <1>6
  <2>2. buff' \in Seq(Nat) /\ Len(buff') <= Size
    BY <1>3, <1>5
  <2>3. QED
    BY <1>2, <1>6, <2>1, <2>2 DEF Types
<1>8. Lossless'
  <2>1. Bytes(0, got) \o Bytes(got, got + n) = Bytes(0, got + n)
    <3>1. 0 <= got /\ got <= got + n /\ 0 \in Nat
      BY <1>3
    <3>2. QED
      BY <1>3, <3>1, BytesFollow
  <2>2. out \o buff' = (out \o buff) \o Bytes(got, got + n)
    BY <1>1, <1>3, <1>4, Joined
  <2>3. QED
    BY <1>1, <1>2, <2>1, <2>2 DEF Lossless
<1>9. Aligned'
  BY <1>2 DEF Aligned, Boundaries
<1>10. Rested'
  <2>1. CASE n > 0
    <3>1. pc' = "write" /\ Len(buff') # 0
      BY <1>1, <1>3, <1>5, <2>1
    <3>2. QED
      BY <3>1 DEF Rested
  <2>2. CASE ~(n > 0)
    <3>1. n = 0 /\ pc' = "done"
      BY <1>1, <1>3, <2>2 DEF Proceed
    <3>2. buff' = buff
      <4>1. Len(Bytes(got, got + n)) = 0
        BY <1>4, <3>1
      <4>2. Bytes(got, got + n) = <<>>
        BY <1>4, <4>1
      <4>3. QED
        BY <1>1, <1>3, <4>2
    <3>3. PartKept' = PartKept
      BY <1>2, <3>2 DEF PartKept
    <3>4. QED
      BY <1>2, <3>1, <3>2, <3>3 DEF Rested
  <2>3. QED
    BY <2>1, <2>2
<1>11. Ended'
  BY <1>1, <1>2, <1>6 DEF Ended
<1>12. QED
  BY <1>7, <1>8, <1>9, <1>10, <1>11

LEMMA WriteStep == ASSUME IInv, Write PROVE IInv'
<1> USE DEF IInv
<1>1. PICK r \in IF writer = "stream" THEN StreamResults ELSE TunResults :
        LET valid == r.n <= Len(buff)
            nw    == IF valid THEN r.n ELSE 0
            ew    == IF ~valid /\ r.e = "nil" THEN "invalid" ELSE r.e
        IN /\ nw > 0 => ~RingFull
           /\ ring' = IF writer = "ring" /\ nw > 0 THEN ring + 1 ELSE ring
           /\ written' = written + nw
           /\ out' = out \o SubSeq(buff, 1, nw)
           /\ CASE ew = "short" -> ReadOn
                [] ew = "nil"   -> buff' = Rest(nw) /\ AfterWrite(nw) /\ UNCHANGED failed
                [] OTHER        -> /\ buff' = Rest(nw) /\ pc' = "done" /\ err' = ew
                                   /\ UNCHANGED failed
  BY DEF Write
<1>2. UNCHANGED <<packets, total, writer, got, er>> /\ pc = "write"
  BY DEF Write
<1>3. buff # <<>> /\ buff \in Seq(Nat) /\ out \in Seq(Nat) /\ Len(buff) \in Nat
  BY <1>2 DEF Rested, Types
<1>4. /\ r.n \in Nat /\ r.e \in {"nil", "short", "fail"}
      /\ r.e = "short" => r.n = 0 /\ PartKept
      /\ writer # "stream" => r.n <= Len(buff) /\ Len(out) + r.n \in Boundaries
  BY <1>3, WriterTakes
(* The three ways a write can end. *)
<1>5. PICK nw \in 0..Len(buff), ew \in {"nil", "short", "fail", "invalid"} :
        /\ nw > 0 => ~RingFull
        /\ ring' = IF writer = "ring" /\ nw > 0 THEN ring + 1 ELSE ring
        /\ written' = written + nw
        /\ out' = out \o SubSeq(buff, 1, nw)
        /\ writer # "stream" => Len(out) + nw \in Boundaries
        /\ \/ /\ ew = "short" /\ nw = 0 /\ PartKept
              /\ pc' = "read" /\ buff' = buff /\ UNCHANGED err /\ failed' = FALSE
           \/ ew = "nil" /\ buff' = Rest(nw) /\ AfterWrite(nw) /\ UNCHANGED failed
           \/ /\ ew \in {"fail", "invalid"} /\ buff' = Rest(nw)
              /\ pc' = "done" /\ err' = ew /\ UNCHANGED failed
  <2> DEFINE nw == IF r.n <= Len(buff) THEN r.n ELSE 0
             ew == IF ~(r.n <= Len(buff)) /\ r.e = "nil" THEN "invalid" ELSE r.e
  <2>1. nw \in 0..Len(buff) /\ ew \in {"nil", "short", "fail", "invalid"}
    BY <1>3, <1>4
  <2>2. /\ nw > 0 => ~RingFull
        /\ ring' = IF writer = "ring" /\ nw > 0 THEN ring + 1 ELSE ring
        /\ written' = written + nw
        /\ out' = out \o SubSeq(buff, 1, nw)
    BY <1>1
  <2>3. writer # "stream" => Len(out) + nw \in Boundaries
    BY <1>4
  <2>4. CASE ew = "short"
    <3>1. nw = 0 /\ PartKept
      BY <1>3, <1>4, <2>4
    <3>2. pc' = "read" /\ buff' = buff /\ UNCHANGED err /\ failed' = FALSE
      <4>1. ReadOn
        BY <1>1, <2>4
      <4>2. failed = (er = "fail")
        BY <1>2 DEF Ended
      <4>3. QED
        BY <4>1, <4>2 DEF ReadOn, Kept
    <3> HIDE DEF nw, ew
    <3>3. QED
      BY <2>1, <2>2, <2>3, <2>4, <3>1, <3>2
  <2>5. CASE ew = "nil"
    <3>1. buff' = Rest(nw) /\ AfterWrite(nw) /\ UNCHANGED failed
      BY <1>1, <2>5
    <3> HIDE DEF nw, ew
    <3>2. QED
      BY <2>1, <2>2, <2>3, <2>5, <3>1
  <2>6. CASE ew \in {"fail", "invalid"}
    <3>1. buff' = Rest(nw) /\ pc' = "done" /\ err' = ew /\ UNCHANGED failed
      BY <1>1, <2>6
    <3> HIDE DEF nw, ew
    <3>2. QED
      BY <2>1, <2>2, <2>3, <2>6, <3>1
  <2> HIDE DEF nw, ew
  <2>7. QED
    BY <2>1, <2>4, <2>5, <2>6
<1>6. /\ SubSeq(buff, 1, nw) \in Seq(Nat) /\ Len(SubSeq(buff, 1, nw)) = nw
      /\ Rest(nw) \in Seq(Nat) /\ Len(Rest(nw)) = Len(buff) - nw
      /\ SubSeq(buff, 1, nw) \o Rest(nw) = buff
  BY <1>3, CutAndJoin, Zenon DEF Rest
<1>7. buff' = Rest(nw)
  <2>1. nw = 0 => Rest(nw) = buff
    BY <1>3, SubSeqFull DEF Rest
  <2>2. QED
    BY <1>5, <2>1
<1>8. out' \in Seq(Nat) /\ Len(out') = Len(out) + nw
  BY <1>3, <1>5, <1>6, Joined
<1>9. out' \o buff' = out \o buff
  <2>1. out \o (SubSeq(buff, 1, nw) \o Rest(nw)) = (out \o SubSeq(buff, 1, nw)) \o Rest(nw)
    BY <1>3, <1>6, Joined
  <2>2. QED
    BY <1>5, <1>6, <1>7, <2>1, Zenon
<1>10. Lossless'
  <2>1. out' \o buff' = Bytes(0, got')
    BY <1>2, <1>9 DEF Lossless
  <2>2. written' = Len(out')
    BY <1>5, <1>8 DEF Lossless
  <2>3. QED
    BY <2>1, <2>2 DEF Lossless
<1>11. /\ pc' \in {"read", "write", "done"} /\ err' \in {"nil", "fail", "invalid"}
       /\ pc' = "done" /\ err' = "nil" => er' = "EOF"
  BY <1>2, <1>5 DEF Types, AfterWrite, Proceed
(* Copy reads again when no failure is left to be reported. *)
<1>12. failed' \in BOOLEAN /\ Ended'
  <2>1. failed = (er = "fail")
    BY <1>2 DEF Ended
  <2>2. /\ failed' \in BOOLEAN
        /\ pc' = "read" => failed' = FALSE
        /\ pc' = "write" => failed' = (er = "fail")
        /\ pc' = "done" /\ err' = "nil" => failed' = FALSE
    BY <1>2, <1>5, <1>11, <2>1 DEF AfterWrite, Proceed
  <2>3. QED
    BY <1>2, <1>11, <2>2 DEF Ended
<1>13. ring' \in 0..RingSize
  BY <1>2, <1>5, RingAssumption DEF Types, RingFull
<1>14. Types'
  <2>1. buff' \in Seq(Nat) /\ Len(buff') <= Size
    BY <1>3, <1>6, <1>7, SizeAssumption DEF Types
  <2>2. written' \in Nat
    BY <1>5 DEF Types
  <2>3. QED
    BY <1>2, <1>8, <1>11, <1>12, <1>13, <2>1, <2>2 DEF Types
<1>15. Aligned'
  BY <1>2, <1>5, <1>8 DEF Aligned, Boundaries
<1>16. Rested'
  <2>1. CASE ew = "short"
    <3>1. out' = out
      <4>1. SubSeq(buff, 1, nw) = <<>>
        BY <1>5, <1>6, <2>1
      <4>2. out \o <<>> = out
        BY <1>3
      <4>3. QED
        BY <1>5, <4>1, <4>2
    <3>2. PartKept' /\ pc' = "read"
      BY <1>2, <1>5, <2>1, <3>1 DEF PartKept
    <3>3. QED
      BY <3>2 DEF Rested
  <2>2. CASE ew = "nil" /\ nw < Len(buff)
    <3>1. pc' = "write" /\ Len(buff') # 0
      BY <1>2, <1>3, <1>5, <1>6, <1>7, <2>2 DEF AfterWrite
    <3>2. QED
      BY <3>1 DEF Rested
  <2>3. CASE ew = "nil" /\ ~(nw < Len(buff))
    <3>1. Len(buff') = 0 /\ buff' \in Seq(Nat)
      BY <1>3, <1>6, <1>7, <2>3
    <3>2. buff' = <<>> /\ pc' # "write"
      BY <1>5, <2>3, <3>1 DEF AfterWrite, Proceed
    <3>3. QED
      BY <3>2 DEF Rested
  <2>4. CASE ew \in {"fail", "invalid"}
    BY <1>5, <2>4 DEF Rested
  <2>5. QED
    BY <2>1, <2>2, <2>3, <2>4
<1>17. QED
  BY <1>10, <1>12, <1>14, <1>15, <1>16

LEMMA Invariance == Spec => []IInv
<1>1. IInv /\ [Next]_vars => IInv'
  <2> SUFFICES ASSUME IInv, [Next]_vars PROVE IInv'
    OBVIOUS
  <2>1. CASE DriverTakes
    BY <2>1, RingAssumption
       DEF DriverTakes, IInv, Types, Lossless, Aligned, Boundaries, Rested, PartKept, Ended
  <2>2. CASE Returned \/ UNCHANGED vars
    BY <2>2 DEF Returned, vars, IInv, Types, Lossless, Aligned, Boundaries, Rested,
                PartKept, Ended
  <2>3. QED
    BY <2>1, <2>2, ReadStep, WriteStep DEF Next
<1>2. QED
  BY InitOK, <1>1, PTL DEF Spec

-----------------------------------------------------------------------------
(* Copy: the buffer never outgrows its size, and no more is written than    *)
(* was read.                                                                *)
THEOREM TypeCorrect == Spec => []TypeOK
<1>1. IInv => TypeOK
  <2> SUFFICES ASSUME IInv PROVE TypeOK
    OBVIOUS
  <2>1. Types /\ Lossless
    BY DEF IInv
  <2>2. /\ Len(out) \in Nat /\ Len(buff) \in Nat /\ got \in Nat
        /\ Len(out) + Len(buff) = got
        /\ \A i \in 1..Len(out) : out[i] = i
        /\ \A i \in 1..Len(buff) : buff[i] = Len(out) + i
    BY <2>1, InOrder
  <2>3. total \in Nat /\ got <= total
    BY <2>1, <2>2, PacketTypes, EndOfSums DEF Types
  <2>4. \A i \in 1..Len(out) : out[i] \in 1..total
    BY <2>2, <2>3
  <2>5. \A i \in 1..Len(buff) : buff[i] \in 1..total
    BY <2>2, <2>3
  <2>6. out \in Seq(1..total) /\ buff \in Seq(1..total)
    BY <2>1, <2>4, <2>5, Retyped DEF Types
  <2>7. written \in 0..total
    BY <2>1, <2>2, <2>3 DEF Lossless
  <2>8. QED
    BY <2>1, <2>6, <2>7 DEF Types, TypeOK
<1>2. QED
  BY <1>1, Invariance, PTL

(* Copy: no byte is lost, repeated or moved, for packets of any lengths and *)
(* a buffer of any size.                                                    *)
THEOREM NoByteLost == Spec => []Lossless
BY Invariance, PTL DEF IInv

(* Copy gives a Tun a buffer that starts at a packet, each time. *)
THEOREM StaysInSync == Spec => []InSync
<1>1. IInv => InSync
  <2> SUFFICES ASSUME IInv, pc = "write", writer # "stream"
               PROVE  buff[1] - 1 \in Boundaries
    BY DEF InSync
  <2>1. /\ Len(out) \in Nat /\ Len(buff) \in Nat
        /\ \A i \in 1..Len(buff) : buff[i] = Len(out) + i
    BY InOrder DEF IInv
  <2>2. 1 \in 1..Len(buff)
    BY <2>1 DEF IInv, Rested, Types
  <2>3. buff[1] - 1 = Len(out)
    BY <2>1, <2>2
  <2>4. QED
    BY <2>3 DEF IInv, Aligned
<1>2. QED
  BY <1>1, Invariance, PTL

(* Copy: nil means that the last read was told the end, that every whole    *)
(* packet has been written, and that no error went unreported but those     *)
(* that came with bytes the Tun found short.                                *)
THEOREM NilIsComplete == Spec => []NilMeansComplete
<1>1. IInv => NilMeansComplete
  <2> SUFFICES ASSUME IInv, pc = "done", err = "nil"
               PROVE  /\ er = "EOF" /\ ~failed
                      /\ Len(out) = IF writer = "stream" THEN total
                                    ELSE Max(Boundaries \cap 0..total)
    BY DEF NilMeansComplete
  <2>1. er = "EOF" /\ failed = FALSE /\ got = total
    BY DEF IInv, Ended
  <2>2. Len(out) \in Nat /\ Len(buff) \in Nat /\ Len(out) + Len(buff) = got
    BY InOrder DEF IInv
  <2>3. buff = <<>> \/ PartKept
    BY DEF IInv, Rested
  <2>4. CASE writer = "stream"
    <3>1. buff = <<>>
      BY <2>3, <2>4 DEF PartKept
    <3>2. Len(buff) = 0
      BY <3>1
    <3>3. QED
      BY <2>1, <2>2, <2>4, <3>2
  <2>5. CASE writer # "stream"
    <3>1. Len(out) \in Boundaries \cap 0..total
      BY <2>1, <2>2, <2>5 DEF IInv, Aligned
    <3>2. ASSUME NEW x \in Boundaries \cap 0..total PROVE x <= Len(out)
      <4>1. CASE buff = <<>>
        <5>1. Len(buff) = 0
          BY <4>1
        <5>2. QED
          BY <2>1, <2>2, <5>1
      <4>2. CASE PartKept
        <5>1. PICK k \in 1..Len(packets) :
                EndOf(packets, k - 1) = Len(out) /\ Len(buff) < packets[k]
          BY <4>2 DEF PartKept
        <5>2. packets \in Seq(Nat)
          BY PacketTypes DEF IInv, Types
        <5>3. EndOf(packets, k) = Len(out) + packets[k] /\ packets[k] \in Nat
          BY <5>1, <5>2, BoundariesFound
        <5>4. x > Len(out) => x >= EndOf(packets, k)
          BY <5>1, <5>2, BetweenBoundaries DEF Boundaries
        <5>5. QED
          BY <2>1, <2>2, <5>1, <5>3, <5>4
      <4>3. QED
        BY <2>3, <4>1, <4>2
    <3>3. Len(out) = Max(Boundaries \cap 0..total)
      <4> DEFINE S == Boundaries \cap 0..total
      <4>1. S \subseteq Int
        OBVIOUS
      <4> HIDE DEF S
      <4>2. \A x \in S : x = Len(out) \/ ~(\A y \in S : x >= y)
        BY <2>2, <3>1, <3>2, <4>1 DEF S
      <4>3. \A y \in S : Len(out) >= y
        BY <2>2, <3>2, <4>1 DEF S
      <4>4. Len(out) \in S
        BY <3>1 DEF S
      <4>5. Max(S) = Len(out)
        BY <4>2, <4>3, <4>4 DEF Max
      <4>6. QED
        BY <4>5 DEF S
    <3>4. QED
      BY <2>1, <2>5, <3>3, Zenon
  <2>6. QED
    BY <2>1, <2>4, <2>5
<1>2. QED
  BY <1>1, Invariance, PTL
=============================================================================
