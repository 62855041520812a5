----------------------------- MODULE SolarisTun -----------------------------
(***************************************************************************)
(* The tunDevice of Solaris: the flag and the mutexes of UnixTun, but two  *)
(* files, and a data file that is a stream of bytes.  A read of it gives   *)
(* what is there, parts of packets included.  readPacket cuts it into      *)
(* packets, and keeps what is left in unread, a slice of buff.             *)
(*                                                                         *)
(* queued, of UnixTun, counts bytes here.                                  *)
(***************************************************************************)
EXTENDS ByteStream

CONSTANTS
  Threads, NoThread,        \* as in UnixTun
  Streams,                  \* bound: the lengths of the packets of a stream
  Size                      \* tunReadBufferLen

ASSUME ThreadsAssumption == NoThread \notin Threads
ASSUME StreamsAssumption == \A p \in Streams : p \in Seq(Nat \ {0})
ASSUME SizeAssumption == Size \in Nat \ {0}

VARIABLES
  closed, mutex, fileClosing, fdOpen, queued, op, pc, res,  \* as in UnixTun
  linkOpen,                 \* linkFile has its descriptor
  packets,                  \* the stream
  taken,                    \* the bytes read from the data file
  buff, from, to,           \* unread is buff[from:to]
  out                       \* the bytes given to callers

file   == <<closed, mutex, fileClosing, fdOpen>>
stream == <<packets, taken, buff, from, to, out>>
vars   == <<file, queued, op, pc, res, linkOpen, stream>>

Unix == INSTANCE UnixTun WITH MaxPackets <- 0

unread == SubSeq(buff, from + 1, to)

(* A slice that leaves buff would be a panic. *)
TypeOK ==
  /\ closed \in BOOLEAN /\ fileClosing \in BOOLEAN
  /\ fdOpen \in BOOLEAN /\ linkOpen \in BOOLEAN
  /\ mutex \in [Unix!Transfers -> Threads \cup {NoThread}]
  /\ op \in [Threads -> Unix!Transfers \cup {"close", "none"}]
  /\ packets \in Streams
  /\ taken \in Nat /\ queued \in Nat /\ taken + queued \in BoundariesOf(packets)
  /\ buff \in Seq(1..taken) /\ Len(buff) <= Size
  /\ to \in 0..Len(buff) /\ from \in 0..to
  /\ out \in Seq(1..taken)

Init ==
  /\ Unix!Init
  /\ linkOpen = TRUE
  /\ packets \in Streams /\ taken = 0
  /\ buff = <<>> /\ from = 0 /\ to = 0
  /\ out = <<>>

-----------------------------------------------------------------------------
(* Read *)

Reading(t, place) == op[t] = "read" /\ pc[t] = place

(* The packet at the head of u, which lies in buff from f on, is copied to  *)
(* the caller.                                                              *)
Deliver(t, place, f, u) ==
  /\ \E l \in TotalLens(packets, u) \ {Short, NotIp} :
       out' = out \o SubSeq(u, 1, l) /\ from' = f + l
  /\ Unix!Answer(t, place, "ok")

(* Not a packet, or a part of one, or one too long for the caller.          *)
Reject(t, place, f) ==
  /\ Unix!Answer(t, place, "failed")
  /\ from' = f /\ UNCHANGED out

(* A packet left by an earlier Read: the file is not looked at. *)
ReadUnread(t) ==
  /\ Reading(t, "enter")
  /\ TotalLens(packets, unread) # {Short}
  /\ Deliver(t, "enter", from, unread) \/ Reject(t, "enter", from)
  /\ UNCHANGED <<file, queued, op, linkOpen, packets, taken, buff, to>>

(* Mutant: the rest is left where it is. *)
RestInPlace == buff

(* The rest of a packet is moved to the front before the file is read, and  *)
(* unread still means the old place until the read has succeeded.           *)
RestInFront == unread \o SubSeq(buff, Len(unread) + 1, Len(buff))

(* Mutant: Read does not look at unread first. *)
EnterFileAtOnce(t) ==
  /\ buff' = IF op[t] = "read" THEN RestInFront ELSE buff
  /\ Unix!EnterFile(t)
  /\ UNCHANGED <<linkOpen, packets, taken, from, to, out>>

EnterFile(t) ==
  /\ IF op[t] = "read"
     THEN Short \in TotalLens(packets, unread) /\ buff' = RestInFront
     ELSE UNCHANGED buff
  /\ Unix!EnterFile(t)
  /\ UNCHANGED <<linkOpen, packets, taken, from, to, out>>

(* Mutant: buff as a whole. *)
RoomOfAll == Size

(* What there is to read into, behind the rest. *)
Room == Size - Len(unread)

(* A stream gives some of the bytes it has; os.File answers a read into no  *)
(* room at once.                                                            *)
ReadChunk(t) ==
  /\ Reading(t, "sys")
  /\ \E n \in 0..Room :
       /\ n <= queued /\ (n = 0 <=> Room = 0)
       /\ LET got == SubSeq(buff, 1, Len(unread)) \o Bytes(taken, taken + n)
          IN /\ buff' = got \o SubSeq(buff, Len(got) + 1, Len(buff))
             /\ to' = Len(got)
             /\ Deliver(t, "sys", 0, got) \/ Reject(t, "sys", 0)
       /\ taken' = taken + n /\ queued' = queued - n
  /\ UNCHANGED <<file, op, linkOpen, packets>>

(* The read fails, or the close wakes it. *)
FileError(t) ==
  /\ Unix!FileError(t) \/ Unix!Evicted(t)
  /\ UNCHANGED <<linkOpen, stream>>

-----------------------------------------------------------------------------
(* The rest of the device *)

(* What is done as in UnixTun, Write in full. *)
AsUnix(t) ==
  /\ \/ Unix!CheckClosed(t) \/ Unix!WritePacket(t) \/ Unix!Return(t)
     \/ Unix!SwapClosed(t) \/ Unix!Evict(t)
  /\ UNCHANGED <<linkOpen, stream>>

Call(t) ==
  /\ \E o \in Unix!Transfers \cup {"close"} : Unix!Call(t, o)
  /\ UNCHANGED <<linkOpen, stream>>

Lock(t) == Unix!Lock(t) /\ UNCHANGED <<linkOpen, stream>>

RejectPacket(t) == Unix!RejectPacket(t) /\ UNCHANGED <<linkOpen, stream>>

CloseData(t) ==
  /\ \A u \in Threads : pc[u] # "sys"
  /\ Unix!Goto(t, "drain", "link")
  /\ fdOpen' = FALSE
  /\ \E r \in {"ok", "failed"} : res' = [res EXCEPT ![t] = r]
  /\ UNCHANGED <<closed, mutex, fileClosing, queued, op, linkOpen, stream>>

(* Mutant: an error of the data file ends Close. *)
CloseLinkUnlessFailed(t) ==
  /\ \E r \in {res[t], "failed"} : Unix!Answer(t, "link", r)
  /\ linkOpen' = (linkOpen /\ res[t] = "failed")
  /\ UNCHANGED <<file, queued, op, stream>>

(* Whatever became of the data file; the first error is reported. *)
CloseLink(t) ==
  /\ \E r \in {res[t], "failed"} : Unix!Answer(t, "link", r)
  /\ linkOpen' = FALSE
  /\ UNCHANGED <<file, queued, op, stream>>

(* The driver puts a packet upstream. *)
PacketArrives ==
  /\ \E i \in 1..Len(packets) :
       EndOf(packets, i - 1) = taken + queued /\ queued' = queued + packets[i]
  /\ UNCHANGED <<file, op, pc, res, linkOpen, stream>>

Advance(t) ==
  AsUnix(t) \/ ReadUnread(t) \/ EnterFile(t) \/ ReadChunk(t) \/ CloseData(t) \/ CloseLink(t)

Next ==
  \/ \E t \in Threads :
       Call(t) \/ Advance(t) \/ Lock(t) \/ RejectPacket(t) \/ FileError(t)
  \/ PacketArrives

Spec == Init /\ [][Next]_vars

(* As in UnixTun. *)
FairSpec ==
  /\ Spec
  /\ \A t \in Threads :
       /\ WF_vars(Advance(t)) /\ SF_vars(Lock(t))
       /\ WF_vars(Unix!Evicted(t) /\ FileError(t))

-----------------------------------------------------------------------------
(* Properties *)

(* What readPacket holds: during a read of the file, what it has moved. *)
Held ==
  IF \E t \in Threads : Reading(t, "sys") THEN SubSeq(buff, 1, Len(unread)) ELSE unread

(* Nothing read from the file was lost, repeated or moved, and callers got  *)
(* whole packets.                                                           *)
Intact == out \o Held = Bytes(0, taken) /\ Len(out) \in BoundariesOf(packets)

(* That is so for ever, however packets are cut and reads fail, but for one *)
(* way: the read fails after a rest longer than what lay before it was      *)
(* moved, and has overwritten itself.                                       *)
KeepsTheRest ==
  [][Intact => \/ Intact'
               \/ /\ from < Len(unread) /\ UNCHANGED taken
                  /\ \E t \in Threads :
                       /\ \E place \in {"enter", "sys"} : Reading(t, place)
                       /\ pc'[t] = "return" /\ res'[t] # "ok"]_vars

(* The device is a Tun handle.  A Read that was let through before Close    *)
(* may end after it with a packet from unread.                              *)
kept == TotalLens(packets, unread) \ {Short, NotIp} # {}
life == IF ~closed THEN "open" ELSE IF fdOpen \/ linkOpen THEN "closing" ELSE "closed"
st   == [t \in Threads |-> Unix!Stage(pc[t], res[t])]

Handle == INSTANCE TunHandle WITH lost <- FALSE

RefinesHandle == Handle!Spec

(* As long as somebody reads, every packet that has arrived is handed out,  *)
(* provided the file works and callers bring enough room.  Two things end   *)
(* this for good: bytes that are no packet, and a packet longer than buff.  *)
Clogged == \/ TotalLens(packets, unread) = {NotIp}
           \/ TotalLens(packets, unread) = {Short} /\ Len(unread) = Size

Served == queued = 0 /\ TotalLens(packets, unread) = {Short}

SpoiltRead(t) ==
  FileError(t) \/ (op[t] = "read" /\ pc'[t] = "return" /\ res'[t] = "failed" /\ kept')

AllServed ==
  /\ []<>(\E t \in Threads : op[t] = "read")
  /\ ~[]<><<\E t \in Threads : SpoiltRead(t)>>_vars
  => []<>(Served \/ Clogged \/ closed \/ ~Intact)
=============================================================================
