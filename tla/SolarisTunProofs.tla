-------------------------- MODULE SolarisTunProofs --------------------------
(***************************************************************************)
(* Proofs about SolarisTun, for any goroutines, packets and buffer.  First *)
(* the device, with its two files, is a Tun handle; what is in the buffer  *)
(* plays no part in it.  Then the buffer: unread never leaves it, and no   *)
(* byte is lost but in the one way KeepsTheRest names.                     *)
(***************************************************************************)
EXTENDS SolarisTun, ByteStreamProofs

(* The types of what the calls are made of; Buffer has the others. *)
Control ==
  /\ closed \in BOOLEAN /\ fileClosing \in BOOLEAN
  /\ fdOpen \in BOOLEAN /\ linkOpen \in BOOLEAN
  /\ op \in [Threads -> {"read", "write", "close", "none"}]
  /\ pc \in [Threads -> {"idle", "check", "lock", "enter", "sys",
                         "swap", "evict", "drain", "link", "return"}]
  /\ res \in [Threads -> {"ok", "failed", "refused"}]

(* A goroutine is only at places its method passes through. *)
AtOwnPlace ==
  \A t \in Threads :
    /\ pc[t] \in {"check", "lock", "enter", "sys"} => op[t] \in {"read", "write"}
    /\ pc[t] \in {"swap", "evict", "drain", "link"} => op[t] = "close"

Closing == {"evict", "drain", "link"}

(* The one Close that has won stands between closed and the end of the      *)
(* second file; the first is closed once nobody is inside it.               *)
OneCloser ==
  /\ \A t \in Threads : pc[t] \in Closing => closed /\ linkOpen
  /\ \A t \in Threads : pc[t] = "evict" => fdOpen
  /\ \A t \in Threads : pc[t] = "drain" => fdOpen
  /\ \A t \in Threads : pc[t] = "link" => ~fdOpen /\ res[t] \in {"ok", "failed"}
  /\ \A t, u \in Threads : pc[t] \in Closing /\ pc[u] \in Closing => t = u
  /\ \A t \in Threads : pc[t] = "sys" => fdOpen
  /\ ~closed => fdOpen /\ linkOpen /\ ~fileClosing
  /\ ~fdOpen => fileClosing
  /\ \A t \in Threads : pc[t] = "evict" => ~fileClosing
  /\ \A t \in Threads : pc[t] = "drain" => fileClosing

IInv == Control /\ AtOwnPlace /\ OneCloser

-----------------------------------------------------------------------------
LEMMA InitIInv == Init => IInv
BY DEF Init, Unix!Init, IInv, Control, AtOwnPlace, OneCloser, Closing

LEMMA InvStep == IInv /\ [Next]_vars => IInv'
<1> SUFFICES ASSUME IInv, [Next]_vars PROVE IInv'
  OBVIOUS
<1> USE DEF IInv, Control, AtOwnPlace, OneCloser, Closing, Unix!Goto, Unix!Answer,
            Unix!Transfers, Unix!device, file
<1>1. CASE UNCHANGED vars
  BY <1>1 DEF vars
<1>2. ASSUME NEW t \in Threads, Call(t) PROVE IInv'
  BY <1>2 DEF Call, Unix!Call
<1>3. ASSUME NEW t \in Threads, Unix!CheckClosed(t), UNCHANGED linkOpen
      PROVE IInv'
  BY <1>3 DEF Unix!CheckClosed
<1>4. ASSUME NEW t \in Threads, Unix!WritePacket(t), UNCHANGED linkOpen
      PROVE IInv'
  BY <1>4 DEF Unix!WritePacket
<1>5. ASSUME NEW t \in Threads, Unix!Return(t), UNCHANGED linkOpen
      PROVE IInv'
  BY <1>5 DEF Unix!Return
<1>6. ASSUME NEW t \in Threads, Unix!SwapClosed(t), UNCHANGED linkOpen
      PROVE IInv'
  BY <1>6 DEF Unix!SwapClosed
<1>7. ASSUME NEW t \in Threads, Unix!Evict(t), UNCHANGED linkOpen
      PROVE IInv'
  BY <1>7 DEF Unix!Evict
<1>8. ASSUME NEW t \in Threads, Lock(t) PROVE IInv'
  BY <1>8 DEF Lock, Unix!Lock
<1>9. ASSUME NEW t \in Threads, RejectPacket(t) \/ FileError(t) PROVE IInv'
  BY <1>9 DEF RejectPacket, FileError, Unix!RejectPacket, Unix!FileError,
              Unix!Evicted
<1>10. ASSUME NEW t \in Threads, ReadUnread(t) \/ ReadChunk(t) PROVE IInv'
  <2>1. PICK from0 \in {"enter", "sys"}, r \in {"ok", "failed"} :
          Unix!Answer(t, from0, r) /\ op[t] = "read"
    BY <1>10 DEF ReadUnread, ReadChunk, Reading, Deliver, Reject
  <2>2. UNCHANGED <<file, op, linkOpen>>
    BY <1>10 DEF ReadUnread, ReadChunk
  <2>3. QED
    BY <2>1, <2>2
<1>11. ASSUME NEW t \in Threads, EnterFile(t) PROVE IInv'
  BY <1>11 DEF EnterFile, Unix!EnterFile
<1>12. ASSUME NEW t \in Threads, CloseData(t) PROVE IInv'
  <2>1. PICK r \in {"ok", "failed"} : res' = [res EXCEPT ![t] = r]
    BY <1>12 DEF CloseData
  <2>2. /\ pc[t] = "drain" /\ pc' = [pc EXCEPT ![t] = "link"] /\ fdOpen' = FALSE
        /\ UNCHANGED <<closed, fileClosing, linkOpen, op>>
        /\ \A u \in Threads : pc[u] # "sys"
    BY <1>12 DEF CloseData
  <2>3. Control' /\ AtOwnPlace'
    BY <2>1, <2>2
  <2>4. /\ pc'[t] = "link" /\ res'[t] \in {"ok", "failed"}
        /\ \A u \in Threads \ {t} : pc'[u] = pc[u] /\ pc'[u] \notin Closing
    BY <2>1, <2>2
  <2>5. closed /\ linkOpen /\ fileClosing
    BY <2>2
  <2>6. OneCloser'
    BY <2>2, <2>4, <2>5
  <2>7. QED
    BY <2>3, <2>6
<1>13. ASSUME NEW t \in Threads, CloseLink(t) PROVE IInv'
  <2>1. PICK r \in {"ok", "failed"} : Unix!Answer(t, "link", r)
    BY <1>13 DEF CloseLink
  <2>2. UNCHANGED <<file, op>> /\ linkOpen' = FALSE
    BY <1>13 DEF CloseLink
  <2>3. Control' /\ AtOwnPlace'
    BY <2>1, <2>2
  <2>4. /\ pc[t] = "link" /\ pc'[t] = "return" /\ closed /\ ~fdOpen
        /\ \A u \in Threads \ {t} : pc'[u] = pc[u] /\ pc'[u] \notin Closing
    BY <2>1
  <2>5. OneCloser'
    BY <2>2, <2>4
  <2>6. QED
    BY <2>3, <2>5
<1>14. CASE PacketArrives
  BY <1>14 DEF PacketArrives
<1>15. QED
  BY <1>1, <1>2, <1>3, <1>4, <1>5, <1>6, <1>7, <1>8, <1>9, <1>10, <1>11,
     <1>12, <1>13, <1>14 DEF Next, Advance, AsUnix

LEMMA Invariance == Spec => []IInv
BY InitIInv, InvStep, PTL DEF Spec

-----------------------------------------------------------------------------
(* A goroutine's move shows in the handle as a move of its call alone. *)
LEMMA StageOfMove ==
  ASSUME Control, NEW t \in Threads, NEW p, NEW r,
         pc' = [pc EXCEPT ![t] = p], res' = [res EXCEPT ![t] = r]
  PROVE  /\ st' = [st EXCEPT ![t] = Unix!Stage(p, r)]
         /\ st[t] = Unix!Stage(pc[t], res[t])
BY DEF Control, st

LEMMA ResStays == ASSUME Control, NEW t \in Threads, res' = res
                  PROVE  res' = [res EXCEPT ![t] = res[t]]
BY DEF Control

LEMMA HandleInit == Init => Handle!Init
BY DEF Init, Unix!Init, Handle!Init, life, st, Unix!Stage

LEMMA HandleStep == IInv /\ [Next]_vars => [Handle!Next]_(Handle!vars)
<1> SUFFICES ASSUME IInv, [Next]_vars PROVE [Handle!Next]_(Handle!vars)
  OBVIOUS
<1> USE StageOfMove, ResStays
    DEF IInv, Unix!Goto, Unix!Answer, Unix!Stage, Unix!Transfers, Unix!device,
        file, Handle!Step
<1> Control
  OBVIOUS
<1>1. CASE UNCHANGED vars
  BY <1>1 DEF vars, Handle!vars, life, st
<1>2. ASSUME NEW t \in Threads, Call(t)
      PROVE \E o \in Handle!Ops : Handle!Call(t, o)
  <2>1. PICK o \in Handle!Ops : Unix!Call(t, o)
    BY <1>2 DEF Call, Handle!Ops
  <2>2. linkOpen' = linkOpen
    BY <1>2 DEF Call
  <2>3. Handle!Call(t, o)
    BY <2>1, <2>2 DEF Unix!Call, Handle!Call, life
  <2>4. QED
    BY <2>3
<1>3. ASSUME NEW t \in Threads, Unix!CheckClosed(t), UNCHANGED linkOpen
      PROVE Handle!Admit(t) \/ Handle!Refuse(t)
  BY <1>3 DEF Unix!CheckClosed, AtOwnPlace, life, Handle!Admit, Handle!Refuse
<1>4. ASSUME NEW t \in Threads, Unix!WritePacket(t), UNCHANGED linkOpen
      PROVE Handle!Transfer(t)
  BY <1>4 DEF Unix!WritePacket, AtOwnPlace, OneCloser, life, Handle!Transfer
<1>5. ASSUME NEW t \in Threads, Unix!Return(t), UNCHANGED linkOpen
      PROVE Handle!Return(t)
  BY <1>5 DEF Unix!Return, Control, life, Handle!Return, Handle!Results
<1>6. ASSUME NEW t \in Threads, Unix!SwapClosed(t), UNCHANGED linkOpen
      PROVE Handle!Refuse(t) \/ Handle!StartClose(t)
  BY <1>6 DEF Unix!SwapClosed, AtOwnPlace, OneCloser, life,
              Handle!Refuse, Handle!StartClose
<1>7. ASSUME NEW t \in Threads, Unix!Evict(t), UNCHANGED linkOpen
      PROVE UNCHANGED Handle!vars
  BY <1>7 DEF Unix!Evict, Control, life, st, Handle!vars
<1>8. ASSUME NEW t \in Threads, Lock(t) PROVE UNCHANGED Handle!vars
  BY <1>8 DEF Lock, Unix!Lock, Control, life, st, Handle!vars
<1>9. ASSUME NEW t \in Threads, RejectPacket(t) \/ Unix!FileError(t),
             UNCHANGED linkOpen
      PROVE Handle!Fail(t)
  BY <1>9 DEF RejectPacket, Unix!RejectPacket, Unix!FileError, AtOwnPlace, life,
              Handle!Fail
<1>10. ASSUME NEW t \in Threads, Unix!Evicted(t), UNCHANGED linkOpen
       PROVE Handle!Refuse(t)
  BY <1>10 DEF Unix!Evicted, AtOwnPlace, OneCloser, life, Handle!Refuse
<1>11. ASSUME NEW t \in Threads, ReadUnread(t) \/ ReadChunk(t)
       PROVE Handle!Transfer(t) \/ Handle!Fail(t)
  <2>1. PICK from0 \in {"enter", "sys"}, r \in {"ok", "failed"} :
          /\ Unix!Answer(t, from0, r) /\ op[t] = "read"
          /\ r = "ok" => kept \/ from0 = "sys"
    BY <1>11 DEF ReadUnread, ReadChunk, Reading, Deliver, Reject, kept
  <2>2. UNCHANGED <<file, op, linkOpen>>
    BY <1>11 DEF ReadUnread, ReadChunk
  <2>3. life' = life /\ (from0 = "sys" => life # "closed")
    BY <2>1, <2>2 DEF life, OneCloser
  <2>4. QED
    BY <2>1, <2>2, <2>3 DEF Handle!Transfer, Handle!Fail
<1>12. ASSUME NEW t \in Threads, EnterFile(t)
       PROVE UNCHANGED Handle!vars \/ Handle!Refuse(t)
  <2>1. CASE fileClosing
    BY <1>12, <2>1 DEF EnterFile, Unix!EnterFile, AtOwnPlace, OneCloser, life,
                       Handle!Refuse
  <2>2. CASE ~fileClosing
    BY <1>12, <2>2 DEF EnterFile, Unix!EnterFile, Control, life, st, Handle!vars
  <2>3. QED
    BY <2>1, <2>2
<1>13. ASSUME NEW t \in Threads, CloseData(t) PROVE UNCHANGED Handle!vars
  <2>1. PICK r \in {"ok", "failed"} : res' = [res EXCEPT ![t] = r]
    BY <1>13 DEF CloseData
  <2>2. pc[t] = "drain" /\ pc' = [pc EXCEPT ![t] = "link"]
    BY <1>13 DEF CloseData
  <2>3. \A u \in Threads : Unix!Stage(pc'[u], res'[u]) = Unix!Stage(pc[u], res[u])
    BY <2>1, <2>2 DEF Control
  <2>4. st' = st
    BY <2>3 DEF st
  <2>5. closed /\ linkOpen /\ UNCHANGED <<closed, linkOpen, op>>
    BY <1>13, <2>2 DEF CloseData, OneCloser, Closing
  <2>6. QED
    BY <2>4, <2>5 DEF life, Handle!vars
<1>14. ASSUME NEW t \in Threads, CloseLink(t) PROVE Handle!FinishClose(t)
  <2>1. PICK r \in {"ok", "failed"} : Unix!Answer(t, "link", r)
    BY <1>14 DEF CloseLink, OneCloser
  <2>2. st[t] = "admitted" /\ st' = [st EXCEPT ![t] = r]
    BY <2>1
  <2>3. op[t] = "close" /\ life = "closing" /\ life' = "closed" /\ op' = op
    BY <1>14, <2>1 DEF CloseLink, AtOwnPlace, OneCloser, Closing, life
  <2>4. QED
    BY <2>2, <2>3 DEF Handle!FinishClose
<1>15. CASE PacketArrives
  BY <1>15 DEF PacketArrives, life, st, Handle!vars
<1>16. QED
  BY <1>1, <1>2, <1>3, <1>4, <1>5, <1>6, <1>7, <1>8, <1>9, <1>10, <1>11,
     <1>12, <1>13, <1>14, <1>15
     DEF Next, Advance, AsUnix, FileError, RejectPacket, Handle!Next

(* Read, Write, Close of tun_solaris.go: a Tun handle like the others, but  *)
(* that a Read let through before Close may be served from unread after it. *)
THEOREM Refinement == Spec => RefinesHandle
BY Invariance, HandleInit, HandleStep, PTL DEF Spec, RefinesHandle, Handle!Spec

-----------------------------------------------------------------------------
(* Windows on the buffer *)

LEMMA Window ==
  ASSUME NEW b \in Seq(Nat), NEW z \in 0..Len(b), NEW f \in 0..z
  PROVE  /\ SubSeq(b, f + 1, z) \in Seq(Nat) /\ Len(SubSeq(b, f + 1, z)) = z - f
         /\ \A i \in 1..(z - f) : SubSeq(b, f + 1, z)[i] = b[f + i]
<1>1. f + 1 \in Int /\ z \in Int /\ \A i \in (f + 1)..z : b[i] \in Nat
  OBVIOUS
<1>2. /\ SubSeq(b, f + 1, z) \in Seq(Nat)
      /\ Len(SubSeq(b, f + 1, z)) = IF f + 1 <= z THEN z - (f + 1) + 1 ELSE 0
      /\ \A i \in 1..(z - (f + 1) + 1) : SubSeq(b, f + 1, z)[i] = b[f + 1 + i - 1]
  BY <1>1, SubSeqProperties
<1>3. Len(SubSeq(b, f + 1, z)) = z - f
  BY <1>2
<1>4. ASSUME NEW i \in 1..(z - f) PROVE SubSeq(b, f + 1, z)[i] = b[f + i]
  <2>1. i \in 1..(z - (f + 1) + 1) /\ f + 1 + i - 1 = f + i
    OBVIOUS
  <2>2. QED
    BY <1>2, <2>1
<1>5. QED
  BY <1>2, <1>3, <1>4

(* Two windows that show the same. *)
LEMMA SameWindow ==
  ASSUME NEW b \in Seq(Nat), NEW z \in 0..Len(b), NEW f \in 0..z,
         NEW c \in Seq(Nat), NEW y \in 0..Len(c), NEW e \in 0..y,
         z - f = y - e, \A i \in 1..(z - f) : b[f + i] = c[e + i]
  PROVE  SubSeq(b, f + 1, z) = SubSeq(c, e + 1, y)
<1> DEFINE u == SubSeq(b, f + 1, z)
           v == SubSeq(c, e + 1, y)
<1>1. u \in Seq(Nat) /\ Len(u) = z - f /\ \A i \in 1..(z - f) : u[i] = b[f + i]
  BY Window
<1>2. v \in Seq(Nat) /\ Len(v) = y - e /\ \A i \in 1..(y - e) : v[i] = c[e + i]
  BY Window
<1> HIDE DEF u, v
<1>3. Len(u) = Len(v) /\ \A i \in 1..Len(u) : u[i] = v[i]
  BY <1>1, <1>2
<1>4. u = v
  BY <1>1, <1>2, <1>3, SeqEqual
<1>5. QED
  BY <1>4 DEF u, v

(* A window on a window. *)
LEMMA LaterWindow ==
  ASSUME NEW b \in Seq(Nat), NEW z \in 0..Len(b), NEW f \in 0..z,
         NEW l \in 0..Len(SubSeq(b, f + 1, z))
  PROVE  SubSeq(b, (f + l) + 1, z)
           = SubSeq(SubSeq(b, f + 1, z), l + 1, Len(SubSeq(b, f + 1, z)))
<1> DEFINE u == SubSeq(b, f + 1, z)
<1>1. u \in Seq(Nat) /\ Len(u) = z - f /\ \A i \in 1..(z - f) : u[i] = b[f + i]
  BY Window
<1> HIDE DEF u
<1>2. l \in 0..Len(u)
  BY DEF u
<1> DEFINE g == f + l
<1>3. /\ g \in 0..z /\ Len(u) \in 0..Len(u) /\ z - g = Len(u) - l
      /\ f \in Nat /\ z \in Nat /\ l \in Nat /\ g = f + l
  <2>1. Len(b) \in Nat /\ Len(u) \in Nat
    BY <1>1
  <2>2. z \in Nat /\ z <= Len(b) /\ f \in Nat /\ f <= z /\ l \in Nat /\ l <= Len(u)
    BY <1>2, <2>1
  <2>3. QED
    BY <1>1, <2>1, <2>2
<1> HIDE DEF g
<1>4. ASSUME NEW i \in 1..(z - g) PROVE b[g + i] = u[l + i]
  <2>1. l + i \in 1..(z - f) /\ g + i = f + (l + i)
    BY <1>3
  <2>2. QED
    BY <1>1, <2>1
<1>5. SubSeq(b, g + 1, z) = SubSeq(u, l + 1, Len(u))
  BY <1>1, <1>2, <1>3, <1>4, SameWindow
<1>6. QED
  BY <1>5, Zenon DEF u, g

(* What lies in b once g has been copied to its front. *)
Over(g, b) == g \o SubSeq(b, Len(g) + 1, Len(b))

LEMMA Overwritten ==
  ASSUME NEW b \in Seq(Nat), NEW g \in Seq(Nat)
  PROVE  /\ Over(g, b) \in Seq(Nat)
         /\ Len(Over(g, b)) = IF Len(g) <= Len(b) THEN Len(b) ELSE Len(g)
         /\ \A i \in 1..Len(g) : Over(g, b)[i] = g[i]
         /\ \A i \in (Len(g) + 1)..Len(b) : Over(g, b)[i] = b[i]
<1> DEFINE r == SubSeq(b, Len(g) + 1, Len(b))
<1>1. Len(g) \in Nat /\ Len(b) \in Nat
  OBVIOUS
<1>2. CASE Len(g) <= Len(b)
  <2>1. /\ r \in Seq(Nat) /\ Len(r) = Len(b) - Len(g)
        /\ \A i \in 1..(Len(b) - Len(g)) : r[i] = b[Len(g) + i]
    <3>1. Len(b) \in 0..Len(b) /\ Len(g) \in 0..Len(b)
      BY <1>1, <1>2
    <3>2. QED
      BY <3>1, Window
  <2> HIDE DEF r
  <2>2. g \o r \in Seq(Nat) /\ Len(g \o r) = Len(b)
    BY <1>1, <2>1
  <2>3. \A i \in 1..Len(g) : (g \o r)[i] = g[i]
    BY <1>1, <2>1
  <2>4. ASSUME NEW i \in (Len(g) + 1)..Len(b) PROVE (g \o r)[i] = b[i]
    <3>1. (g \o r)[i] = r[i - Len(g)]
      BY <1>1, <2>1
    <3>2. i - Len(g) \in 1..(Len(b) - Len(g)) /\ Len(g) + (i - Len(g)) = i
      BY <1>1
    <3>3. QED
      BY <2>1, <3>1, <3>2
  <2>5. QED
    BY <1>2, <2>2, <2>3, <2>4 DEF Over, r
<1>3. CASE ~(Len(g) <= Len(b))
  <2>1. r = <<>>
    BY <1>1, <1>3, SubSeqEmpty
  <2>2. g \o <<>> = g
    OBVIOUS
  <2>3. Over(g, b) = g
    BY <2>1, <2>2 DEF Over
  <2>4. (Len(g) + 1)..Len(b) = {}
    BY <1>1, <1>3
  <2>5. QED
    BY <1>3, <2>3, <2>4
<1>4. QED
  BY <1>2, <1>3

-----------------------------------------------------------------------------
(* The buffer *)

(* The part of TypeOK that is about bytes. *)
Buffer ==
  /\ packets \in Streams
  /\ taken \in Nat /\ queued \in Nat /\ taken + queued \in BoundariesOf(packets)
  /\ buff \in Seq(Nat) /\ \A i \in 1..Len(buff) : buff[i] \in 1..taken
  /\ Len(buff) <= Size
  /\ to \in 0..Len(buff) /\ from \in 0..to
  /\ out \in Seq(Nat) /\ \A i \in 1..Len(out) : out[i] \in 1..taken

(* Only one goroutine reads at a time. *)
Readers ==
  /\ mutex \in [Unix!Transfers -> Threads \cup {NoThread}]
  /\ \A t \in Threads : pc[t] \in {"enter", "sys"} => mutex[op[t]] = t

(* During a read of the file, a rest that was not longer than what lay      *)
(* before it is still in its old place too.                                 *)
Moved ==
  (\E t \in Threads : Reading(t, "sys")) /\ from >= Len(unread)
    => SubSeq(buff, 1, Len(unread)) = unread

BInv == IInv /\ Buffer /\ Readers /\ Moved

LEMMA StreamTypes ==
  ASSUME packets \in Streams
  PROVE  packets \in Seq(Nat) /\ packets \in Seq(Nat \ {0}) /\ Len(packets) \in Nat
<1>1. packets \in Seq(Nat \ {0})
  BY StreamsAssumption
<1>2. \A i \in 1..Len(packets) : packets[i] \in Nat
  BY <1>1
<1>3. QED
  BY <1>1, <1>2

LEMMA Unread ==
  ASSUME Buffer
  PROVE  /\ unread \in Seq(Nat) /\ Len(unread) = to - from
         /\ \A i \in 1..(to - from) : unread[i] = buff[from + i]
         /\ \A i \in 1..Len(unread) : unread[i] \in 1..taken
         /\ Len(unread) \in 0..Len(buff)
<1>1. buff \in Seq(Nat) /\ to \in 0..Len(buff) /\ from \in 0..to
  BY DEF Buffer
<1>2. /\ unread \in Seq(Nat) /\ Len(unread) = to - from
      /\ \A i \in 1..(to - from) : unread[i] = buff[from + i]
  BY <1>1, Window DEF unread
<1>3. ASSUME NEW i \in 1..Len(unread) PROVE unread[i] \in 1..taken
  <2>1. i \in 1..(to - from) /\ from + i \in 1..Len(buff)
    BY <1>1, <1>2
  <2>2. QED
    BY <1>2, <2>1 DEF Buffer
<1>4. QED
  BY <1>1, <1>2, <1>3

LEMMA InitBuffer == Init => BInv
<1> SUFFICES ASSUME Init PROVE BInv
  OBVIOUS
<1>1. Buffer
  <2>1. packets \in Seq(Nat)
    BY StreamTypes DEF Init
  <2>2. 0 \in BoundariesOf(packets)
    BY <2>1, BoundariesFound
  <2>3. Len(buff) = 0 /\ Len(out) = 0 /\ buff \in Seq(Nat) /\ out \in Seq(Nat)
    BY DEF Init
  <2>4. QED
    BY <2>2, <2>3, SizeAssumption DEF Init, Unix!Init, Buffer
<1>2. Readers /\ Moved
  BY DEF Init, Unix!Init, Readers, Moved, Reading, Unix!Transfers
<1>3. QED
  BY <1>1, <1>2, InitIInv DEF BInv

(* Readers: each action of a goroutine that is about to enter the file, or  *)
(* leaves it.                                                               *)
LEMMA ReadersStep == ASSUME IInv, Readers, [Next]_vars PROVE Readers'
<1> USE DEF IInv, Control, AtOwnPlace, Readers, Unix!Goto, Unix!Answer, Unix!Transfers,
            Unix!device, file
<1>1. CASE UNCHANGED vars
  BY <1>1 DEF vars
<1>2. ASSUME NEW t \in Threads, Call(t) PROVE Readers'
  BY <1>2 DEF Call, Unix!Call
<1>3. ASSUME NEW t \in Threads, Lock(t) PROVE Readers'
  <2>1. /\ pc[t] = "lock" /\ pc' = [pc EXCEPT ![t] = "enter"] /\ op' = op
        /\ mutex[op[t]] = NoThread /\ mutex' = [mutex EXCEPT ![op[t]] = t]
    BY <1>3 DEF Lock, Unix!Lock
  <2>2. op[t] \in {"read", "write"}
    BY <2>1
  <2>3. mutex' \in [Unix!Transfers -> Threads \cup {NoThread}] /\ mutex'[op[t]] = t
    BY <2>1, <2>2
  <2>4. ASSUME NEW u \in Threads, u # t, pc'[u] \in {"enter", "sys"} PROVE mutex'[op'[u]] = u
    <3>1. pc[u] \in {"enter", "sys"} /\ mutex[op[u]] = u /\ op[u] \in {"read", "write"}
      BY <2>1, <2>4
    <3>2. op[u] # op[t]
      BY <2>1, <3>1, ThreadsAssumption
    <3>3. QED
      BY <2>1, <2>2, <3>1, <3>2
  <2>5. QED
    BY <2>1, <2>3, <2>4
<1>4. ASSUME NEW t \in Threads, Unix!Return(t) PROVE Readers'
  <2>1. /\ pc[t] = "return" /\ pc' = [pc EXCEPT ![t] = "idle"]
        /\ op' = [op EXCEPT ![t] = "none"]
        /\ mutex' = [o \in Unix!Transfers |-> IF mutex[o] = t THEN NoThread ELSE mutex[o]]
    BY <1>4 DEF Unix!Return
  <2>2. mutex' \in [Unix!Transfers -> Threads \cup {NoThread}]
    BY <2>1
  <2>3. ASSUME NEW u \in Threads, pc'[u] \in {"enter", "sys"} PROVE mutex'[op'[u]] = u
    <3>1. u # t /\ pc[u] \in {"enter", "sys"} /\ op'[u] = op[u]
      BY <2>1, <2>3
    <3>2. mutex[op[u]] = u /\ op[u] \in Unix!Transfers
      BY <3>1
    <3>3. QED
      BY <2>1, <3>1, <3>2
  <2>4. QED
    BY <2>2, <2>3
<1>5. ASSUME NEW t \in Threads, NEW place, NEW end, Unix!Goto(t, place, end),
             end = "sys" => place = "enter", end # "enter", UNCHANGED <<mutex, op>>
      PROVE  Readers'
  BY <1>5
<1>6. CASE PacketArrives
  BY <1>6 DEF PacketArrives
<1>7. ASSUME NEW t \in Threads, AsUnix(t), ~Unix!Return(t) PROVE Readers'
  BY <1>5, <1>7 DEF AsUnix, Unix!CheckClosed, Unix!WritePacket, Unix!SwapClosed, Unix!Evict
<1>8. ASSUME NEW t \in Threads, ReadUnread(t) \/ ReadChunk(t) PROVE Readers'
  BY <1>5, <1>8 DEF ReadUnread, ReadChunk, Deliver, Reject
<1>9. ASSUME NEW t \in Threads, EnterFile(t) PROVE Readers'
  BY <1>5, <1>9 DEF EnterFile, Unix!EnterFile
<1>10. ASSUME NEW t \in Threads, RejectPacket(t) \/ FileError(t) PROVE Readers'
  BY <1>5, <1>10 DEF RejectPacket, FileError, Unix!RejectPacket, Unix!FileError,
                     Unix!Evicted
<1>11. ASSUME NEW t \in Threads, CloseData(t) \/ CloseLink(t) PROVE Readers'
  BY <1>5, <1>11 DEF CloseData, CloseLink
<1>12. QED
  BY <1>1, <1>2, <1>3, <1>4, <1>6, <1>7, <1>8, <1>9, <1>10, <1>11 DEF Next, Advance, AsUnix

-----------------------------------------------------------------------------
(* Steps, by what they do to the buffer *)

(* A step that leaves it alone, and no reader enters or leaves the file. *)
Quiet ==
  /\ UNCHANGED <<stream, queued>>
  /\ \A u \in Threads : Reading(u, "sys")' <=> Reading(u, "sys")

LEMMA StepKinds ==
  ASSUME IInv, [Next]_vars
  PROVE  \/ Quiet \/ PacketArrives
         \/ \E t \in Threads :
              \/ ReadUnread(t) \/ ReadChunk(t)
              \/ op[t] = "read" /\ (EnterFile(t) \/ FileError(t))
<1> USE DEF IInv, Control, AtOwnPlace, Unix!Goto, Unix!Answer, Unix!Transfers,
            Unix!device, file, Quiet, Reading
<1>1. CASE UNCHANGED vars
  BY <1>1 DEF vars, stream
<1>2. ASSUME NEW t \in Threads, Call(t) PROVE Quiet
  BY <1>2 DEF Call, Unix!Call
<1>3. ASSUME NEW t \in Threads, Lock(t) PROVE Quiet
  BY <1>3 DEF Lock, Unix!Lock
<1>4. ASSUME NEW t \in Threads, Unix!Return(t), UNCHANGED stream PROVE Quiet
  BY <1>4 DEF Unix!Return
<1>5. ASSUME NEW t \in Threads, NEW place, NEW end, Unix!Goto(t, place, end), place # end,
             op[t] # "read" \/ (place # "sys" /\ end # "sys"), UNCHANGED <<stream, queued, op>>
      PROVE  Quiet
  BY <1>5
<1>6. ASSUME NEW t \in Threads, AsUnix(t), ~Unix!Return(t) PROVE Quiet
  BY <1>5, <1>6 DEF AsUnix, Unix!CheckClosed, Unix!WritePacket, Unix!SwapClosed, Unix!Evict
<1>7. ASSUME NEW t \in Threads, EnterFile(t) \/ FileError(t), op[t] # "read" PROVE Quiet
  BY <1>5, <1>7 DEF EnterFile, Unix!EnterFile, FileError, Unix!FileError, Unix!Evicted,
                    stream
<1>8. ASSUME NEW t \in Threads, RejectPacket(t) PROVE Quiet
  BY <1>5, <1>8 DEF RejectPacket, Unix!RejectPacket
<1>9. ASSUME NEW t \in Threads, CloseData(t) \/ CloseLink(t) PROVE Quiet
  BY <1>5, <1>9 DEF CloseData, CloseLink
<1>10. QED
  BY <1>1, <1>2, <1>3, <1>4, <1>6, <1>7, <1>8, <1>9 DEF Next, Advance, AsUnix

LEMMA QuietStep ==
  ASSUME BInv, Quiet
  PROVE  Buffer' /\ Moved' /\ (Intact => Intact')
<1>1. UNCHANGED <<stream, queued>>
  BY DEF Quiet
<1>2. (\E u \in Threads : Reading(u, "sys"))' <=> \E u \in Threads : Reading(u, "sys")
  BY DEF Quiet
<1>3. unread' = unread
  BY <1>1 DEF stream, unread
<1>4. Held' = Held
  BY <1>1, <1>2, <1>3 DEF Held, stream
<1>5. QED
  BY <1>1, <1>2, <1>3, <1>4 DEF BInv, Buffer, Moved, Intact, stream

LEMMA ArriveStep ==
  ASSUME BInv, PacketArrives
  PROVE  Buffer' /\ Moved' /\ (Intact => Intact')
<1>1. PICK i \in 1..Len(packets) :
        EndOf(packets, i - 1) = taken + queued /\ queued' = queued + packets[i]
  BY DEF PacketArrives
<1>2. UNCHANGED <<op, pc, stream>>
  BY DEF PacketArrives
<1>3. queued' \in Nat /\ taken + queued' \in BoundariesOf(packets)
  <2>1. packets \in Seq(Nat)
    BY StreamTypes DEF BInv, Buffer
  <2>2. /\ EndOf(packets, i) = EndOf(packets, i - 1) + packets[i]
        /\ EndOf(packets, i) \in BoundariesOf(packets) /\ packets[i] \in Nat
    BY <2>1, BoundariesFound
  <2>3. taken \in Nat /\ queued \in Nat
    BY DEF BInv, Buffer
  <2>4. taken + queued' = EndOf(packets, i)
    BY <1>1, <2>2, <2>3
  <2>5. QED
    BY <1>1, <2>2, <2>3, <2>4
<1>4. Held' = Held /\ unread' = unread
  BY <1>2 DEF Held, Reading, unread, stream
<1>5. QED
  BY <1>2, <1>3, <1>4 DEF BInv, Buffer, Moved, Intact, Reading, stream

(* The mutex keeps the other readers out. *)
LEMMA NobodyElse ==
  ASSUME BInv, NEW t \in Threads, Reading(t, "enter") \/ Reading(t, "sys")
  PROVE  \A u \in Threads \ {t} : ~Reading(u, "sys")
BY DEF BInv, Readers, Reading

(* Once it has answered, no reader is in the file. *)
LEMMA NobodyInside ==
  ASSUME BInv, NEW t \in Threads, NEW place \in {"enter", "sys"}, Reading(t, place),
         NEW r, Unix!Answer(t, place, r), op' = op
  PROVE  ~\E u \in Threads : Reading(u, "sys")'
<1>1. \A u \in Threads \ {t} : ~Reading(u, "sys")
  BY NobodyElse
<1>2. pc'[t] = "return" /\ \A u \in Threads \ {t} : pc'[u] = pc[u]
  BY DEF Unix!Answer, Unix!Goto, BInv, IInv, Control
<1>3. QED
  BY <1>1, <1>2 DEF Reading

-----------------------------------------------------------------------------
(* A packet handed out *)

LEMMA DeliverTypes ==
  ASSUME packets \in Streams, NEW o \in Seq(Nat), NEW u \in Seq(Nat), NEW z \in Nat,
         \A i \in 1..Len(o) : o[i] \in 1..z, \A i \in 1..Len(u) : u[i] \in 1..z,
         NEW l \in TotalLens(packets, u) \ {Short, NotIp}
  PROVE  /\ l \in 1..Len(u)
         /\ o \o SubSeq(u, 1, l) \in Seq(Nat)
         /\ \A i \in 1..Len(o \o SubSeq(u, 1, l)) : (o \o SubSeq(u, 1, l))[i] \in 1..z
<1>1. l \in 1..Len(u) /\ Len(u) \in Nat
  BY StreamTypes, LensInRange
<1> DEFINE v == SubSeq(u, 1, l)
<1>2. v \in Seq(Nat) /\ Len(v) = l /\ \A i \in 1..l : v[i] = u[i]
  <2>1. l \in 0..Len(u) /\ 0 \in 0..l /\ 0 + 1 = 1 /\ l - 0 = l
    BY <1>1
  <2>2. \A i \in 1..l : 0 + i = i
    BY <1>1
  <2>3. QED
    BY <2>1, <2>2, Window
<1> HIDE DEF v
<1>3. o \o v \in Seq(Nat) /\ Len(o \o v) = Len(o) + l /\ Len(o) \in Nat
  <2>1. v \in Seq(Nat) /\ Len(v) = l
    BY <1>2
  <2>2. o \o v \in Seq(Nat) /\ Len(o \o v) = Len(o) + Len(v)
    BY <2>1, Joined
  <2>3. QED
    BY <2>1, <2>2
<1>4. ASSUME NEW i \in 1..(Len(o) + l) PROVE (o \o v)[i] \in 1..z
  <2>1. CASE i <= Len(o)
    <3>1. (o \o v)[i] = o[i] /\ i \in 1..Len(o)
      BY <1>2, <1>3, <2>1
    <3>2. QED
      BY <3>1
  <2>2. CASE ~(i <= Len(o))
    <3>1. (o \o v)[i] = v[i - Len(o)] /\ i - Len(o) \in 1..l
      BY <1>1, <1>2, <1>3, <2>2
    <3>2. i - Len(o) \in 1..Len(u) /\ v[i - Len(o)] = u[i - Len(o)]
      BY <1>1, <1>2, <3>1
    <3>3. QED
      BY <3>1, <3>2
  <2>3. QED
    BY <2>1, <2>2
<1>5. QED
  BY <1>1, <1>3, <1>4 DEF v

LEMMA DeliverKeeps ==
  ASSUME packets \in Streams, NEW o \in Seq(Nat), NEW u \in Seq(Nat), NEW z \in Nat,
         z <= EndOf(packets, Len(packets)),
         Cut(o, u, z), Len(o) \in BoundariesOf(packets),
         NEW l \in TotalLens(packets, u) \ {Short, NotIp}
  PROVE  /\ Cut(o \o SubSeq(u, 1, l), SubSeq(u, l + 1, Len(u)), z)
         /\ Len(o \o SubSeq(u, 1, l)) \in BoundariesOf(packets)
<1>1. packets \in Seq(Nat) /\ packets \in Seq(Nat \ {0})
  BY StreamTypes
<1>2. l \in 1..Len(u) /\ Len(u) \in Nat
  BY <1>1, LensInRange
<1>3. Len(o) + Len(u) = z /\ \A i \in 1..Len(u) : u[i] = Len(o) + i
  BY BytesCut
<1>4. PICK k \in 1..Len(packets) :
        /\ EndOf(packets, k - 1) = Len(o)
        /\ TotalLens(packets, u) = IF packets[k] < Header THEN {NotIp}
                                   ELSE IF Len(u) < packets[k] THEN {Short} ELSE {packets[k]}
  <2>1. Len(u) # 0 /\ Len(o) + Len(u) <= EndOf(packets, Len(packets))
    BY <1>2, <1>3
  <2>2. QED
    BY <1>1, <1>3, <2>1, LensAtHead, ZenonT(60)
<1>5. l = packets[k]
  BY <1>4
<1>6. /\ SubSeq(u, 1, l) \in Seq(Nat) /\ Len(SubSeq(u, 1, l)) = l
      /\ SubSeq(u, l + 1, Len(u)) \in Seq(Nat)
      /\ SubSeq(u, 1, l) \o SubSeq(u, l + 1, Len(u)) = u
  <2>1. l \in 0..Len(u)
    BY <1>2
  <2>2. QED
    BY <2>1, CutAndJoin, Zenon
<1>7. Len(o \o SubSeq(u, 1, l)) = Len(o) + l
  BY <1>6, Joined, Zenon
<1>8. Len(o) + l \in BoundariesOf(packets)
  BY <1>1, <1>4, <1>5, BoundariesFound
<1>9. o \o (SubSeq(u, 1, l) \o SubSeq(u, l + 1, Len(u)))
        = (o \o SubSeq(u, 1, l)) \o SubSeq(u, l + 1, Len(u))
  <2> DEFINE v == SubSeq(u, 1, l)
             w == SubSeq(u, l + 1, Len(u))
  <2>1. v \in Seq(Nat) /\ w \in Seq(Nat)
    BY <1>6
  <2> HIDE DEF v, w
  <2>2. o \o (v \o w) = (o \o v) \o w
    BY <2>1, Joined, ZenonT(60)
  <2>3. QED
    BY <2>2, Zenon DEF v, w
<1>10. QED
  BY <1>6, <1>7, <1>8, <1>9, Zenon DEF Cut

-----------------------------------------------------------------------------
(* The four steps of a reader *)

(* The exception of KeepsTheRest: a rest that was copied over itself, and a *)
(* Read that failed after it.                                               *)
Spoilt ==
  /\ from < Len(unread) /\ UNCHANGED taken
  /\ \E t \in Threads :
       /\ \E place \in {"enter", "sys"} : Reading(t, place)
       /\ pc'[t] = "return" /\ res'[t] # "ok"

LEMMA LastBoundary ==
  ASSUME Buffer PROVE taken <= EndOf(packets, Len(packets))
                      /\ taken + queued <= EndOf(packets, Len(packets))
                      /\ EndOf(packets, Len(packets)) \in Nat
<1>1. packets \in Seq(Nat)
  BY StreamTypes DEF Buffer
<1>2. taken + queued <= EndOf(packets, Len(packets))
  BY <1>1, BetweenBoundaries DEF Buffer
<1>3. EndOf(packets, Len(packets)) \in Nat
  BY <1>1, EndOfSums
<1>4. QED
  BY <1>2, <1>3 DEF Buffer

LEMMA ReadUnreadStep ==
  ASSUME BInv, NEW t \in Threads, ReadUnread(t)
  PROVE  Buffer' /\ Moved' /\ (Intact => Intact')
<1>1. /\ UNCHANGED <<packets, taken, queued, buff, to, op>> /\ Reading(t, "enter")
      /\ \/ Deliver(t, "enter", from, unread) \/ Reject(t, "enter", from)
  BY DEF ReadUnread
<1>2. PICK r \in {"ok", "failed"} : Unix!Answer(t, "enter", r)
  BY <1>1 DEF Deliver, Reject
<1>3. ~\E u \in Threads : Reading(u, "sys")'
  BY <1>1, <1>2, NobodyInside
<1>4. Held = unread
  <2>1. ~Reading(t, "sys")
    BY <1>1 DEF Reading
  <2>2. QED
    BY <1>1, <2>1, NobodyElse DEF Held
<1>5. Held' = unread'
  BY <1>3 DEF Held
<1>6. Moved'
  BY <1>3 DEF Moved
<1>7. Buffer
  BY DEF BInv
<1>8. /\ unread \in Seq(Nat) /\ Len(unread) = to - from /\ Len(unread) \in Nat
      /\ \A i \in 1..(to - from) : unread[i] = buff[from + i]
      /\ \A i \in 1..Len(unread) : unread[i] \in 1..taken
  BY <1>7, Unread
<1>9. CASE Reject(t, "enter", from)
  <2>1. from' = from /\ out' = out
    BY <1>9 DEF Reject
  <2>2. unread' = unread
    BY <1>1, <2>1 DEF unread
  <2>3. Buffer'
    BY <1>1, <1>7, <2>1 DEF Buffer
  <2>4. QED
    BY <1>1, <1>4, <1>5, <1>6, <2>1, <2>2, <2>3 DEF Intact
<1>10. CASE Deliver(t, "enter", from, unread)
  <2>1. PICK l \in TotalLens(packets, unread) \ {Short, NotIp} :
          out' = out \o SubSeq(unread, 1, l) /\ from' = from + l
    BY <1>10 DEF Deliver
  <2>2. /\ packets \in Streams /\ out \in Seq(Nat) /\ taken \in Nat
        /\ \A i \in 1..Len(out) : out[i] \in 1..taken
    BY <1>7 DEF Buffer
  <2>3. /\ l \in 1..Len(unread) /\ out' \in Seq(Nat)
        /\ \A i \in 1..Len(out') : out'[i] \in 1..taken
    BY <1>8, <2>1, <2>2, DeliverTypes, Zenon
  <2>4. from' \in 0..to
    BY <1>7, <1>8, <2>1, <2>3 DEF Buffer
  <2>5. Buffer'
    BY <1>1, <1>7, <2>3, <2>4 DEF Buffer
  <2>6. unread' = SubSeq(unread, l + 1, Len(unread))
    <3>1. buff \in Seq(Nat) /\ to \in 0..Len(buff) /\ from \in 0..to
      BY <1>7 DEF Buffer
    <3>2. l \in 0..Len(unread)
      BY <1>8, <2>3
    <3>3. SubSeq(buff, (from + l) + 1, to) = SubSeq(unread, l + 1, Len(unread))
      BY <3>1, <3>2, LaterWindow, Zenon DEF unread
    <3>4. QED
      BY <1>1, <2>1, <3>3, Zenon DEF unread
  <2>7. ASSUME Intact PROVE Intact'
    <3>1. Cut(out, unread, taken) /\ Len(out) \in BoundariesOf(packets)
      BY <1>4, <2>7 DEF Intact, Cut
    <3>2. taken <= EndOf(packets, Len(packets))
      BY <1>7, LastBoundary
    <3>3. /\ Cut(out', unread', taken)
          /\ Len(out') \in BoundariesOf(packets)
      BY <1>8, <2>1, <2>2, <2>6, <3>1, <3>2, DeliverKeeps, Zenon
    <3>4. QED
      BY <1>1, <1>5, <3>3 DEF Intact, Cut
  <2>8. QED
    BY <1>6, <2>5, <2>7
<1>11. QED
  BY <1>1, <1>9, <1>10

LEMMA FileErrorStep ==
  ASSUME BInv, NEW t \in Threads, op[t] = "read", FileError(t)
  PROVE  Buffer' /\ Moved' /\ (Intact => Intact' \/ Spoilt)
<1>1. UNCHANGED <<stream, queued, op>> /\ Reading(t, "sys")
  BY DEF FileError, Unix!FileError, Unix!Evicted, Unix!Answer, Unix!Goto, Unix!device,
         Reading
<1>2. PICK r \in {"failed", "refused"} : Unix!Answer(t, "sys", r)
  BY DEF FileError, Unix!FileError, Unix!Evicted
<1>3. ~\E u \in Threads : Reading(u, "sys")'
  BY <1>1, <1>2, NobodyInside
<1>4. Held = SubSeq(buff, 1, Len(unread)) /\ Held' = unread' /\ unread' = unread
  BY <1>1, <1>3 DEF Held, unread, stream
<1>5. Buffer' /\ Moved'
  BY <1>1, <1>3 DEF BInv, Buffer, Moved, stream
<1>6. CASE from >= Len(unread)
  <2>1. Held' = Held
    BY <1>1, <1>4, <1>6 DEF BInv, Moved
  <2>2. Intact' = Intact
    BY <1>1, <2>1 DEF Intact, stream
  <2>3. QED
    BY <1>5, <2>2
<1>7. CASE ~(from >= Len(unread))
  <2>1. from < Len(unread)
    BY <1>7, Unread DEF BInv, Buffer
  <2>2. pc'[t] = "return" /\ res'[t] # "ok"
    BY <1>2 DEF Unix!Answer, Unix!Goto, BInv, IInv, Control
  <2>3. Spoilt
    BY <1>1, <2>1, <2>2 DEF Spoilt, stream
  <2>4. QED
    BY <1>5, <2>3
<1>8. QED
  BY <1>6, <1>7

LEMMA EnterFileStep ==
  ASSUME BInv, NEW t \in Threads, op[t] = "read", EnterFile(t)
  PROVE  Buffer' /\ Moved' /\ (Intact => Intact' \/ Spoilt)
<1>1. /\ UNCHANGED <<packets, taken, queued, from, to, out, op>> /\ Reading(t, "enter")
      /\ buff' = Over(unread, buff)
  BY DEF EnterFile, RestInFront, Over, Unix!EnterFile, Unix!Answer, Unix!Goto,
         Unix!device, Reading
<1>2. Buffer
  BY DEF BInv
<1>3. /\ unread \in Seq(Nat) /\ Len(unread) = to - from /\ Len(unread) \in 0..Len(buff)
      /\ \A i \in 1..(to - from) : unread[i] = buff[from + i]
      /\ \A i \in 1..Len(unread) : unread[i] \in 1..taken
  BY <1>2, Unread
<1>4. /\ buff \in Seq(Nat) /\ Len(buff) \in Nat
      /\ from \in Nat /\ to \in Nat /\ from <= to /\ to <= Len(buff)
  BY <1>2 DEF Buffer
<1>5. /\ buff' \in Seq(Nat) /\ Len(buff') = Len(buff)
      /\ \A i \in 1..Len(unread) : buff'[i] = unread[i]
      /\ \A i \in (Len(unread) + 1)..Len(buff) : buff'[i] = buff[i]
  <2>1. /\ Over(unread, buff) \in Seq(Nat)
        /\ Len(Over(unread, buff)) = IF Len(unread) <= Len(buff) THEN Len(buff) ELSE Len(unread)
        /\ \A i \in 1..Len(unread) : Over(unread, buff)[i] = unread[i]
        /\ \A i \in (Len(unread) + 1)..Len(buff) : Over(unread, buff)[i] = buff[i]
    BY <1>3, <1>4, Overwritten, Zenon
  <2>2. Len(unread) <= Len(buff)
    BY <1>3, <1>4
  <2>3. QED
    BY <1>1, <2>1, <2>2, Zenon
<1>6. Buffer'
  <2>1. ASSUME NEW i \in 1..Len(buff') PROVE buff'[i] \in 1..taken
    <3>1. CASE i <= Len(unread)
      BY <1>3, <1>5, <3>1
    <3>2. CASE ~(i <= Len(unread))
      <4>1. i \in (Len(unread) + 1)..Len(buff) /\ i \in 1..Len(buff)
        BY <1>3, <1>5, <3>2
      <4>2. QED
        BY <1>2, <1>5, <4>1 DEF Buffer
    <3>3. QED
      BY <3>1, <3>2
  <2>2. QED
    BY <1>1, <1>2, <1>5, <2>1 DEF Buffer
<1>7. Held = unread
  <2>1. ~Reading(t, "sys")
    BY <1>1 DEF Reading
  <2>2. QED
    BY <1>1, <2>1, NobodyElse DEF Held
(* The rest, in its new place. *)
<1>8. SubSeq(buff', 1, Len(unread)) = unread
  <2>1. 0 \in 0..Len(unread) /\ Len(unread) \in 0..Len(buff') /\ from \in 0..to
        /\ to \in 0..Len(buff) /\ Len(unread) - 0 = to - from
    BY <1>3, <1>4, <1>5
  <2>2. \A i \in 1..(Len(unread) - 0) : buff'[0 + i] = buff[from + i]
    BY <1>3, <1>5
  <2>3. SubSeq(buff', 0 + 1, Len(unread)) = SubSeq(buff, from + 1, to)
    BY <1>4, <1>5, <2>1, <2>2, SameWindow
  <2>4. 0 + 1 = 1
    OBVIOUS
  <2>5. QED
    BY <2>3, <2>4, Zenon DEF unread
(* The rest, in its old place, unless it was copied over itself. *)
<1>9. ASSUME from >= Len(unread) PROVE unread' = unread
  <2>1. from \in 0..to /\ to \in 0..Len(buff) /\ to \in 0..Len(buff')
    BY <1>4, <1>5
  <2>2. ASSUME NEW i \in 1..(to - from) PROVE buff'[from + i] = buff[from + i]
    <3>1. from + i \in (Len(unread) + 1)..Len(buff)
      BY <1>3, <1>4, <1>9
    <3>2. QED
      BY <1>5, <3>1
  <2>3. SubSeq(buff', from + 1, to) = SubSeq(buff, from + 1, to)
    <3>1. buff \in Seq(Nat) /\ buff' \in Seq(Nat) /\ to - from = to - from
      BY <1>4, <1>5
    <3>2. QED
      BY <2>1, <2>2, <3>1, SameWindow, Zenon
  <2>4. QED
    BY <1>1, <2>3 DEF unread
<1>10. Len(unread') = Len(unread)
  <2>1. from \in 0..to /\ to \in 0..Len(buff')
    BY <1>4, <1>5
  <2>2. Len(SubSeq(buff', from + 1, to)) = to - from
    BY <1>5, <2>1, Window
  <2>3. QED
    BY <1>1, <1>3, <2>2 DEF unread
<1>11. CASE fileClosing
  <2>1. Unix!Answer(t, "enter", "refused")
    BY <1>11 DEF EnterFile, Unix!EnterFile
  <2>2. ~\E u \in Threads : Reading(u, "sys")'
    BY <1>1, <2>1, NobodyInside
  <2>3. Moved' /\ Held' = unread'
    BY <2>2 DEF Moved, Held
  <2>4. CASE from >= Len(unread)
    BY <1>1, <1>6, <1>7, <1>9, <2>3, <2>4 DEF Intact
  <2>5. CASE ~(from >= Len(unread))
    <3>1. from < Len(unread)
      BY <1>3, <1>4, <2>5
    <3>2. pc'[t] = "return" /\ res'[t] # "ok"
      BY <2>1 DEF Unix!Answer, Unix!Goto, BInv, IInv, Control
    <3>3. Spoilt
      BY <1>1, <3>1, <3>2 DEF Spoilt
    <3>4. QED
      BY <1>6, <2>3, <3>3
  <2>6. QED
    BY <2>4, <2>5
<1>12. CASE ~fileClosing
  <2>1. Unix!Goto(t, "enter", "sys")
    BY <1>12 DEF EnterFile, Unix!EnterFile
  <2>2. Reading(t, "sys")'
    BY <1>1, <2>1 DEF Unix!Goto, Reading, BInv, IInv, Control
  <2>3. Held' = SubSeq(buff', 1, Len(unread'))
    BY <2>2 DEF Held
  <2>4. Held' = Held
    BY <1>7, <1>8, <1>10, <2>3
  <2>5. Moved'
    BY <1>1, <1>8, <1>9, <1>10 DEF Moved
  <2>6. QED
    BY <1>1, <1>6, <2>4, <2>5 DEF Intact
<1>13. QED
  BY <1>11, <1>12

LEMMA ReadChunkStep ==
  ASSUME BInv, NEW t \in Threads, ReadChunk(t)
  PROVE  Buffer' /\ Moved' /\ (Intact => Intact')
<1> DEFINE rest == SubSeq(buff, 1, Len(unread))
<1>1. PICK n \in 0..Room :
        /\ n <= queued
        /\ LET got == rest \o Bytes(taken, taken + n)
           IN /\ buff' = got \o SubSeq(buff, Len(got) + 1, Len(buff))
              /\ to' = Len(got)
              /\ Deliver(t, "sys", 0, got) \/ Reject(t, "sys", 0)
        /\ taken' = taken + n /\ queued' = queued - n
  BY DEF ReadChunk
<1> DEFINE got == rest \o Bytes(taken, taken + n)
<1>2. Reading(t, "sys") /\ UNCHANGED <<packets, op>>
  BY DEF ReadChunk
<1>3. PICK r \in {"ok", "failed"} : Unix!Answer(t, "sys", r)
  BY <1>1 DEF Deliver, Reject
<1>4. ~\E u \in Threads : Reading(u, "sys")'
  BY <1>2, <1>3, NobodyInside
<1>5. Moved' /\ Held' = unread' /\ Held = rest
  BY <1>2, <1>4 DEF Moved, Held
<1>6. Buffer
  BY DEF BInv
<1>7. /\ Len(unread) \in 0..Len(buff) /\ Len(buff) \in Nat /\ buff \in Seq(Nat)
      /\ \A i \in 1..Len(buff) : buff[i] \in 1..taken
      /\ taken \in Nat /\ queued \in Nat /\ n \in Nat /\ taken + n \in Nat
      /\ Len(unread) + n <= Size
      /\ packets \in Streams /\ out \in Seq(Nat)
      /\ \A i \in 1..Len(out) : out[i] \in 1..taken
  <2>1. Len(unread) \in 0..Len(buff)
    BY <1>6, Unread
  <2>2. QED
    BY <1>1, <1>6, <2>1, SizeAssumption DEF Buffer, Room
(* What the file gave is behind the rest. *)
<1>8. rest \in Seq(Nat) /\ Len(rest) = Len(unread) /\ \A i \in 1..Len(unread) : rest[i] = buff[i]
  <2>1. rest \in Seq(Nat) /\ Len(rest) = Len(unread)
    BY <1>7, CutAndJoin
  <2>2. \A i \in 1..Len(unread) : rest[i] = buff[i]
    BY <1>7
  <2>3. QED
    BY <2>1, <2>2
<1> DEFINE new == Bytes(taken, taken + n)
<1>9. new \in Seq(Nat) /\ Len(new) = n /\ \A i \in 1..n : new[i] = taken + i
  <2>1. taken <= taken + n /\ (taken + n) - taken = n
    BY <1>7
  <2>2. QED
    BY <1>7, <2>1, BytesAre
<1>10. got \in Seq(Nat) /\ Len(got) = Len(unread) + n
  <2> HIDE DEF rest, new
  <2>1. rest \o new \in Seq(Nat) /\ Len(rest \o new) = Len(rest) + Len(new)
    BY <1>8, <1>9, Joined
  <2>2. QED
    BY <1>8, <1>9, <2>1 DEF new
<1>11. \A i \in 1..Len(got) : got[i] \in 1..(taken + n)
  <2> HIDE DEF rest, new
  <2>1. ASSUME NEW i \in 1..(Len(unread) + n) PROVE (rest \o new)[i] \in 1..(taken + n)
    <3>1. CASE i <= Len(unread)
      <4>1. (rest \o new)[i] = rest[i] /\ i \in 1..Len(unread) /\ i \in 1..Len(buff)
        BY <1>7, <1>8, <1>9, <3>1
      <4>2. rest[i] = buff[i] /\ buff[i] \in 1..taken
        BY <1>7, <1>8, <4>1
      <4>3. QED
        BY <1>7, <4>1, <4>2
    <3>2. CASE ~(i <= Len(unread))
      <4>1. (rest \o new)[i] = new[i - Len(unread)] /\ i - Len(unread) \in 1..n
        BY <1>7, <1>8, <1>9, <3>2
      <4>2. new[i - Len(unread)] = taken + (i - Len(unread))
        BY <1>9, <4>1
      <4>3. QED
        BY <1>7, <4>1, <4>2
    <3>3. QED
      BY <3>1, <3>2
  <2>2. QED
    BY <1>10, <2>1 DEF new
<1>12. /\ buff' = Over(got, buff) /\ to' = Len(got)
       /\ Deliver(t, "sys", 0, got) \/ Reject(t, "sys", 0)
  BY <1>1 DEF Over
<1>13. /\ Cut(out, rest, taken) => Cut(out, got, taken + n)
  <2>1. Bytes(0, taken) \o Bytes(taken, taken + n) = Bytes(0, taken + n)
    <3>1. 0 \in Nat /\ 0 <= taken /\ taken <= taken + n
      BY <1>7
    <3>2. QED
      BY <1>7, <3>1, BytesFollow
  <2> HIDE DEF rest
  <2>2. out \o (rest \o new) = (out \o rest) \o new
    <3> HIDE DEF new
    <3>1. QED
      BY <1>7, <1>8, <1>9, Joined, Zenon
  <2>3. QED
    BY <2>1, <2>2, Zenon DEF Cut, new
<1> HIDE DEF got, rest, new
<1>14. /\ buff' \in Seq(Nat) /\ Len(got) <= Len(buff') /\ Len(buff') <= Size
       /\ \A i \in 1..Len(got) : buff'[i] = got[i]
       /\ \A i \in 1..Len(buff') : buff'[i] \in 1..(taken + n)
  <2>1. /\ Over(got, buff) \in Seq(Nat)
        /\ Len(Over(got, buff)) = IF Len(got) <= Len(buff) THEN Len(buff) ELSE Len(got)
        /\ \A i \in 1..Len(got) : Over(got, buff)[i] = got[i]
        /\ \A i \in (Len(got) + 1)..Len(buff) : Over(got, buff)[i] = buff[i]
    BY <1>7, <1>10, Overwritten, Zenon
  <2>2. /\ buff' \in Seq(Nat)
        /\ Len(buff') = IF Len(got) <= Len(buff) THEN Len(buff) ELSE Len(got)
        /\ \A i \in 1..Len(got) : buff'[i] = got[i]
        /\ \A i \in (Len(got) + 1)..Len(buff) : buff'[i] = buff[i]
    BY <1>12, <2>1, Zenon
  <2>3. Len(got) <= Len(buff') /\ Len(buff') <= Size
    BY <1>6, <1>7, <1>10, <2>2 DEF Buffer
  <2>4. ASSUME NEW i \in 1..Len(buff') PROVE buff'[i] \in 1..(taken + n)
    <3>1. CASE i <= Len(got)
      <4>1. i \in 1..Len(got)
        BY <1>10, <3>1
      <4>2. QED
        BY <1>11, <2>2, <4>1
    <3>2. CASE ~(i <= Len(got))
      <4>1. i \in (Len(got) + 1)..Len(buff) /\ i \in 1..Len(buff)
        BY <1>7, <1>10, <2>2, <3>2
      <4>2. buff'[i] = buff[i] /\ buff[i] \in 1..taken
        BY <1>7, <2>2, <4>1
      <4>3. QED
        BY <1>7, <4>2
    <3>3. QED
      BY <3>1, <3>2
  <2>5. QED
    BY <2>2, <2>3, <2>4
<1>15. taken' \in Nat /\ queued' \in Nat /\ taken' + queued' = taken + queued
  BY <1>1, <1>7
(* The window on the new buffer shows what is left of got. *)
<1>16. ASSUME NEW l \in 0..Len(got), from' = l
       PROVE  unread' = SubSeq(got, l + 1, Len(got))
  <2>1. to' \in 0..Len(buff') /\ from' \in 0..to' /\ to' - from' = Len(got) - l
        /\ Len(got) \in 0..Len(got)
    BY <1>10, <1>12, <1>14, <1>16
  <2>2. ASSUME NEW i \in 1..(to' - from') PROVE buff'[from' + i] = got[l + i]
    <3>1. l + i \in 1..Len(got) /\ from' + i = l + i
      BY <1>10, <1>12, <1>16
    <3>2. QED
      BY <1>14, <3>1
  <2>3. SubSeq(buff', from' + 1, to') = SubSeq(got, l + 1, Len(got))
    BY <1>10, <1>14, <2>1, <2>2, SameWindow, ZenonT(60)
  <2>4. QED
    BY <2>3 DEF unread
<1>17. taken + n <= EndOf(packets, Len(packets))
  BY <1>1, <1>6, <1>7, LastBoundary
<1>18. CASE Reject(t, "sys", 0)
  <2>1. from' = 0 /\ out' = out
    BY <1>18 DEF Reject
  <2>2. Buffer'
    <3>1. \A i \in 1..Len(out) : out[i] \in 1..(taken + n)
      BY <1>7
    <3>2. to' \in 0..Len(buff') /\ from' \in 0..to'
      BY <1>10, <1>12, <1>14, <2>1
    <3>3. QED
      BY <1>1, <1>2, <1>6, <1>7, <1>14, <1>15, <2>1, <3>1, <3>2 DEF Buffer
  <2>3. unread' = got
    <3>1. 0 \in 0..Len(got) /\ 0 + 1 = 1
      BY <1>10
    <3>2. unread' = SubSeq(got, 0 + 1, Len(got))
      BY <1>16, <2>1, <3>1, Zenon
    <3>3. QED
      BY <1>10, <3>1, <3>2, SubSeqFull, Zenon
  <2>4. ASSUME Intact PROVE Intact'
    <3>1. Cut(out, rest, taken) /\ Len(out) \in BoundariesOf(packets)
      BY <1>5, <2>4 DEF Intact, Cut
    <3>2. QED
      BY <1>1, <1>2, <1>5, <1>13, <2>1, <2>3, <3>1, Zenon DEF Intact, Cut
  <2>5. QED
    BY <1>5, <2>2, <2>4
<1>19. CASE Deliver(t, "sys", 0, got)
  <2>1. PICK l \in TotalLens(packets, got) \ {Short, NotIp} :
          out' = out \o SubSeq(got, 1, l) /\ from' = 0 + l
    BY <1>19 DEF Deliver
  <2>2. \A i \in 1..Len(out) : out[i] \in 1..(taken + n)
    BY <1>7
  <2>3. /\ l \in 1..Len(got) /\ out' \in Seq(Nat)
        /\ \A i \in 1..Len(out') : out'[i] \in 1..(taken + n)
    BY <1>7, <1>10, <1>11, <2>1, <2>2, DeliverTypes, ZenonT(60)
  <2>4. from' = l /\ l \in 0..Len(got)
    BY <1>10, <2>1, <2>3
  <2>5. Buffer'
    <3>1. to' \in 0..Len(buff') /\ from' \in 0..to'
      BY <1>10, <1>12, <1>14, <2>4
    <3>2. QED
      BY <1>1, <1>2, <1>6, <1>7, <1>14, <1>15, <2>3, <3>1 DEF Buffer
  <2>6. unread' = SubSeq(got, l + 1, Len(got))
    BY <1>16, <2>4
  <2>7. ASSUME Intact PROVE Intact'
    <3>1. Cut(out, rest, taken) /\ Len(out) \in BoundariesOf(packets)
      BY <1>5, <2>7 DEF Intact, Cut
    <3>2. Cut(out, got, taken + n)
      BY <1>13, <3>1
    <3>3. /\ Cut(out', unread', taken + n)
          /\ Len(out') \in BoundariesOf(packets)
      BY <1>7, <1>10, <1>17, <2>1, <2>6, <3>1, <3>2, DeliverKeeps, ZenonT(60)
    <3>4. QED
      BY <1>1, <1>2, <1>5, <3>3 DEF Intact, Cut
  <2>8. QED
    BY <1>5, <2>5, <2>7
<1>20. QED
  BY <1>12, <1>18, <1>19

-----------------------------------------------------------------------------
LEMMA BufferStep ==
  ASSUME BInv, [Next]_vars
  PROVE  BInv' /\ (Intact => Intact' \/ Spoilt)
<1>1. IInv' /\ Readers'
  BY InvStep, ReadersStep DEF BInv
<1>2. Buffer' /\ Moved' /\ (Intact => Intact' \/ Spoilt)
  <2>1. CASE Quiet
    BY <2>1, QuietStep
  <2>2. CASE PacketArrives
    BY <2>2, ArriveStep
  <2>3. ASSUME NEW t \in Threads, ReadUnread(t) \/ ReadChunk(t)
        PROVE  Buffer' /\ Moved' /\ (Intact => Intact' \/ Spoilt)
    BY <2>3, ReadUnreadStep, ReadChunkStep
  <2>4. ASSUME NEW t \in Threads, op[t] = "read", EnterFile(t) \/ FileError(t)
        PROVE  Buffer' /\ Moved' /\ (Intact => Intact' \/ Spoilt)
    BY <2>4, EnterFileStep, FileErrorStep
  <2>5. QED
    BY <2>1, <2>2, <2>3, <2>4, StepKinds DEF BInv
<1>3. QED
  BY <1>1, <1>2 DEF BInv

LEMMA BInvTypes == BInv => TypeOK
<1> SUFFICES ASSUME BInv PROVE TypeOK
  OBVIOUS
<1>1. buff \in Seq(1..taken) /\ out \in Seq(1..taken)
  BY Retyped, Zenon DEF BInv, Buffer
<1>2. op \in [Threads -> Unix!Transfers \cup {"close", "none"}]
  <2>1. Unix!Transfers \cup {"close", "none"} = {"read", "write", "close", "none"}
    BY DEF Unix!Transfers
  <2>2. QED
    BY <2>1, Zenon DEF BInv, IInv, Control
<1>3. /\ closed \in BOOLEAN /\ fileClosing \in BOOLEAN
      /\ fdOpen \in BOOLEAN /\ linkOpen \in BOOLEAN
  BY Zenon DEF BInv, IInv, Control
<1>4. mutex \in [Unix!Transfers -> Threads \cup {NoThread}]
  BY Zenon DEF BInv, Readers
<1>5. QED
  BY <1>1, <1>2, <1>3, <1>4, Zenon DEF TypeOK, BInv, Buffer

LEMMA BufferInvariance == Spec => []BInv
<1>1. BInv /\ [Next]_vars => BInv'
  BY BufferStep
<1>2. QED
  BY <1>1, InitBuffer, PTL DEF Spec

(* TypeOK: unread stays within buff and buff within its size, whatever the  *)
(* file gives and whatever packets lie in the bytes (readPacket slices      *)
(* without a check of its own); and the file is always read up to a place   *)
(* that, with what waits in it, ends a packet.                              *)
THEOREM TypeCorrect == Spec => []TypeOK
BY BufferInvariance, BInvTypes, PTL

(* KeepsTheRest: what readPacket has read and not yet given out stays, in   *)
(* order and complete, through parts of packets, short reads, failed reads  *)
(* and refused ones, but for the one failure that the property names.       *)
THEOREM RestKept == Spec => KeepsTheRest
<1>1. BInv /\ [Next]_vars =>
        [Intact => \/ Intact'
                   \/ /\ from < Len(unread) /\ UNCHANGED taken
                      /\ \E t \in Threads :
                           /\ \E place \in {"enter", "sys"} : Reading(t, place)
                           /\ pc'[t] = "return" /\ res'[t] # "ok"]_vars
  BY BufferStep DEF Spoilt
<1>2. QED
  BY <1>1, BufferInvariance, PTL DEF Spec, KeepsTheRest
=============================================================================
