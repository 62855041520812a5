---------------------------- MODULE WinTunProofs ----------------------------
(* What holds of WinTun for any set of goroutines and any receive ring.    *)
EXTENDS WinTun, TLAPS

(* A goroutine is only at places its method passes through, and holds a    *)
(* slot exactly while Read still looks at it.                              *)
Transferring == {"add", "check", "recheck", "done", "notify"} \cup InSession
Closing == {"signal", "waitgroup", "asleep", "woken", "end", "adapter"}

AtOwnPlace ==
  \A t \in Threads :
    /\ pc[t] = "idle" <=> op[t] = "none"
    /\ pc[t] \in Transferring => op[t] \in Transfers
    /\ pc[t] \in Closing \cup {"swap"} => op[t] = "close"
    /\ pc[t] \in {"copy", "release", "validate"} <=> slot[t] # NoSlot

(* The WaitGroup counts the calls between their Add and their Done.        *)
Counted ==
  \A t \in Threads :
    t \in running <=> pc[t] \in {"check", "recheck", "done"} \cup InSession

(* One Close at a time shuts the device down, and what it has still to     *)
(* take down is up.                                                        *)
OneCloser ==
  /\ \A t, u \in Threads : pc[t] \in Closing /\ pc[u] \in Closing => t = u
  /\ \A t \in Threads : pc[t] \in Closing => closed /\ adapter
  /\ \A t \in Threads : pc[t] \in Closing \ {"adapter"} => session
  /\ \A t \in Threads : pc[t] = "adapter" => ~session
  /\ ~closed => session
  /\ session => adapter

(* Once the WaitGroup has let Close go on, whether its count was zero when *)
(* Close looked or a Done brought it there, nobody is inside the session;  *)
(* and nobody gets in, for closed was set before.                          *)
Drained ==
  /\ \A t \in Threads : pc[t] = "notify" /\ ~panicked => running = {} /\ Waiting
  /\ \A t, u \in Threads :
       pc[t] = "notify" /\ pc[u] = "notify" /\ ~panicked => t = u
  /\ \A t, u \in Threads :
       pc[t] \in {"woken", "end", "adapter"} => pc[u] \notin InSession
  /\ ~session => \A u \in Threads : pc[u] \notin InSession

(* The ring holds no slot twice. *)
RingIsSet == \A i, j \in 1..Len(ring) : ring[i] = ring[j] => i = j

IInv ==
  /\ TypeOK
  /\ AtOwnPlace
  /\ Counted
  /\ OneCloser
  /\ Drained
  /\ PanicOnlyInClose

-----------------------------------------------------------------------------
LEMMA InitIInv == Init => IInv
<1> SUFFICES ASSUME Init PROVE IInv
  OBVIOUS
<1> USE DEF Init, InSession
<1>1. TypeOK
  <2>1. ring \in Seq(Slots) /\ running \subseteq Threads
    OBVIOUS
  <2>2. memory \in [Slots -> Packets] /\ got \in [Threads -> Packets]
    BY DEF Packets
  <2>3. slot \in [Threads -> Slots \cup {NoSlot}]
    OBVIOUS
  <2>4. QED
    BY <2>1, <2>2, <2>3 DEF TypeOK, Transfers, Results
<1>2. AtOwnPlace /\ Counted
  BY DEF AtOwnPlace, Counted, Transferring, Closing
<1>3. OneCloser /\ Drained /\ PanicOnlyInClose
  BY DEF OneCloser, Drained, PanicOnlyInClose, Closing, Waiting
<1>4. QED
  BY <1>1, <1>2, <1>3 DEF IInv

LEMMA TypeStep == TypeOK /\ AtOwnPlace /\ [Next]_vars => TypeOK'
<1> SUFFICES ASSUME TypeOK, AtOwnPlace, [Next]_vars PROVE TypeOK'
  OBVIOUS
<1> USE DEF TypeOK, Transfers, Packets, Results, Goto, Answer, handle, data
<1>1. CASE UNCHANGED vars
  BY <1>1 DEF vars
<1>2. ASSUME NEW t \in Threads, NEW o \in Transfers \cup {"close"}, Call(t, o)
      PROVE TypeOK'
  BY <1>2 DEF Call
<1>3. ASSUME NEW t \in Threads, Add(t) \/ WaitReturns(t) PROVE TypeOK'
  <2>1. PICK from \in {"add", "woken"}, to \in {"check", "end"} :
          pc' = [pc EXCEPT ![t] = to]
    BY <1>3 DEF Add, WaitReturns
  <2>2. running' \subseteq Threads /\ panicked' \in BOOLEAN
    BY <1>3 DEF Add, WaitReturns
  <2>3. UNCHANGED <<closed, session, adapter, data, op, res>>
    BY <1>3 DEF Add, WaitReturns
  <2>4. QED
    BY <2>1, <2>2, <2>3
<1>4. ASSUME NEW t \in Threads, Done(t) PROVE TypeOK'
  BY <1>4 DEF Done
<1>5. ASSUME NEW t \in Threads, WakeWaiter(t) PROVE TypeOK'
  BY <1>5 DEF WakeWaiter
<1>6. ASSUME NEW t \in Threads, WaitGroupWait(t) PROVE TypeOK'
  BY <1>6 DEF WaitGroupWait
<1>7. ASSUME NEW t \in Threads, CheckClosed(t) PROVE TypeOK'
  BY <1>7 DEF CheckClosed
<1>8. ASSUME NEW t \in Threads,
             DeviceLost(t) \/ Reject(t) \/ RingFull(t) \/ SendPacket(t)
      PROVE TypeOK'
  BY <1>8 DEF DeviceLost, Reject, RingFull, SendPacket
<1>9. ASSUME NEW t \in Threads, Receive(t) PROVE TypeOK'
  BY <1>9 DEF Receive
<1>10. ASSUME NEW t \in Threads,
              NoMoreItems(t) \/ ReleaseReceivePacket(t) \/ AllocateSendPacket(t)
       PROVE TypeOK'
  BY <1>10 DEF NoMoreItems, ReleaseReceivePacket, AllocateSendPacket
<1>11. ASSUME NEW t \in Threads, WakeUp(t) \/ SetEvent(t) PROVE TypeOK'
  BY <1>11 DEF WakeUp, SetEvent
<1>12. ASSUME NEW t \in Threads, CopyOut(t) PROVE TypeOK'
  BY <1>12 DEF CopyOut, AtOwnPlace
<1>13. ASSUME NEW t \in Threads, Validate(t) PROVE TypeOK'
  BY <1>13 DEF Validate
<1>14. ASSUME NEW t \in Threads, Return(t) PROVE TypeOK'
  BY <1>14 DEF Return
<1>15. ASSUME NEW t \in Threads, SwapClosed(t) PROVE TypeOK'
  BY <1>15 DEF SwapClosed
<1>16. ASSUME NEW t \in Threads, EndSession(t) \/ CloseAdapter(t) PROVE TypeOK'
  <2>1. CASE EndSession(t)
    BY <2>1 DEF EndSession
  <2>2. CASE CloseAdapter(t)
    <3>1. PICK r \in {"ok", "failed"} : Answer(t, "adapter", r, "return")
      BY <2>2 DEF CloseAdapter
    <3>2. QED
      BY <2>2, <3>1 DEF CloseAdapter
  <2>3. QED
    BY <1>16, <2>1, <2>2
<1>17. CASE PacketArrives
  BY <1>17, IncomingAssumption DEF PacketArrives, Free
<1>18. CASE LoseDevice
  BY <1>18 DEF LoseDevice
<1>19. QED
  BY <1>1, <1>2, <1>3, <1>4, <1>5, <1>6, <1>7, <1>8, <1>9, <1>10, <1>11,
     <1>12, <1>13, <1>14, <1>15, <1>16, <1>17, <1>18
     DEF Next, Work, Advance, Crashed

LEMMA PlaceStep == IInv /\ [Next]_vars => AtOwnPlace' /\ Counted'
<1> SUFFICES ASSUME IInv, [Next]_vars PROVE AtOwnPlace' /\ Counted'
  OBVIOUS
<1> USE SlotsAssumption
    DEF IInv, TypeOK, AtOwnPlace, Counted, Transferring, Closing, InSession,
        Transfers, Goto, Answer, handle, data
<1>1. CASE UNCHANGED vars
  BY <1>1 DEF vars
<1>2. ASSUME NEW t \in Threads, NEW o \in Transfers \cup {"close"}, Call(t, o)
      PROVE AtOwnPlace' /\ Counted'
  BY <1>2 DEF Call
<1>3. ASSUME NEW t \in Threads, Add(t) PROVE AtOwnPlace' /\ Counted'
  BY <1>3 DEF Add
<1>4. ASSUME NEW t \in Threads, Done(t) PROVE AtOwnPlace' /\ Counted'
  BY <1>4 DEF Done
<1>5. ASSUME NEW t \in Threads, WakeWaiter(t) PROVE AtOwnPlace' /\ Counted'
  BY <1>5 DEF WakeWaiter
<1>6. ASSUME NEW t \in Threads, WaitGroupWait(t) \/ WaitReturns(t)
      PROVE AtOwnPlace' /\ Counted'
  BY <1>6 DEF WaitGroupWait, WaitReturns
<1>7. ASSUME NEW t \in Threads, CheckClosed(t) PROVE AtOwnPlace' /\ Counted'
  BY <1>7 DEF CheckClosed
<1>8. ASSUME NEW t \in Threads,
             DeviceLost(t) \/ Reject(t) \/ RingFull(t) \/ SendPacket(t)
      PROVE AtOwnPlace' /\ Counted'
  BY <1>8 DEF DeviceLost, Reject, RingFull, SendPacket
<1>9. ASSUME NEW t \in Threads, Receive(t) PROVE AtOwnPlace' /\ Counted'
  BY <1>9 DEF Receive
<1>10. ASSUME NEW t \in Threads,
              NoMoreItems(t) \/ ReleaseReceivePacket(t) \/ AllocateSendPacket(t)
       PROVE AtOwnPlace' /\ Counted'
  BY <1>10 DEF NoMoreItems, ReleaseReceivePacket, AllocateSendPacket
<1>11. ASSUME NEW t \in Threads, WakeUp(t) \/ SetEvent(t) \/ CopyOut(t)
       PROVE AtOwnPlace' /\ Counted'
  BY <1>11 DEF WakeUp, SetEvent, CopyOut
<1>12. ASSUME NEW t \in Threads, Validate(t) PROVE AtOwnPlace' /\ Counted'
  BY <1>12 DEF Validate
<1>13. ASSUME NEW t \in Threads, Return(t) PROVE AtOwnPlace' /\ Counted'
  BY <1>13 DEF Return
<1>14. ASSUME NEW t \in Threads,
              SwapClosed(t) \/ EndSession(t) \/ CloseAdapter(t)
       PROVE AtOwnPlace' /\ Counted'
  BY <1>14 DEF SwapClosed, EndSession, CloseAdapter
<1>15. CASE PacketArrives \/ LoseDevice
  BY <1>15 DEF PacketArrives, LoseDevice
<1>16. QED
  BY <1>1, <1>2, <1>3, <1>4, <1>5, <1>6, <1>7, <1>8, <1>9, <1>10, <1>11,
     <1>12, <1>13, <1>14, <1>15 DEF Next, Work, Advance, Crashed

LEMMA CloserStep ==
  IInv /\ [Next]_vars => OneCloser' /\ Drained' /\ PanicOnlyInClose'
<1> DEFINE Goal == OneCloser' /\ Drained' /\ PanicOnlyInClose'
<1> SUFFICES ASSUME IInv, [Next]_vars PROVE Goal
  OBVIOUS
<1> USE DEF IInv, TypeOK, Counted, OneCloser, Drained, PanicOnlyInClose,
            Waiting, Closing, InSession, Goto, Answer, handle, data
<1>1. CASE UNCHANGED vars
  BY <1>1 DEF vars
<1>2. ASSUME NEW t \in Threads, NEW o \in Transfers \cup {"close"}, Call(t, o)
      PROVE Goal
  BY <1>2 DEF Call
<1>3. ASSUME NEW t \in Threads, ~panicked, Add(t) PROVE Goal
  BY <1>3 DEF Add
<1>4. ASSUME NEW t \in Threads, ~panicked, Done(t) PROVE Goal
  BY <1>4 DEF Done
<1>5. ASSUME NEW t \in Threads, ~panicked, WakeWaiter(t) PROVE Goal
  BY <1>5 DEF WakeWaiter
<1>6. ASSUME NEW t \in Threads, WaitGroupWait(t) PROVE Goal
  BY <1>6 DEF WaitGroupWait
<1>7. ASSUME NEW t \in Threads, ~panicked, WaitReturns(t) PROVE Goal
  BY <1>7 DEF WaitReturns
<1>8. ASSUME NEW t \in Threads, CheckClosed(t) PROVE Goal
  BY <1>8 DEF CheckClosed
<1>9. ASSUME NEW t \in Threads,
             DeviceLost(t) \/ Reject(t) \/ RingFull(t) \/ SendPacket(t)
      PROVE Goal
  BY <1>9 DEF DeviceLost, Reject, RingFull, SendPacket
<1>10. ASSUME NEW t \in Threads,
              \/ Receive(t) \/ NoMoreItems(t) \/ ReleaseReceivePacket(t)
              \/ AllocateSendPacket(t)
       PROVE Goal
  BY <1>10 DEF Receive, NoMoreItems, ReleaseReceivePacket, AllocateSendPacket
<1>11. ASSUME NEW t \in Threads, WakeUp(t) \/ SetEvent(t) \/ CopyOut(t)
       PROVE Goal
  BY <1>11 DEF WakeUp, SetEvent, CopyOut
<1>12. ASSUME NEW t \in Threads, Validate(t) \/ Return(t) PROVE Goal
  <2>1. \/ Goto(t, "validate", "done")
        \/ Goto(t, "return", "idle")
    BY <1>12 DEF Validate, Return
  <2>2. UNCHANGED <<handle, running>>
    BY <1>12 DEF Validate, Return
  <2>3. QED
    BY <2>1, <2>2
<1>13. ASSUME NEW t \in Threads, SwapClosed(t) PROVE Goal
  BY <1>13 DEF SwapClosed
<1>14. ASSUME NEW t \in Threads, EndSession(t) PROVE Goal
  BY <1>14 DEF EndSession
<1>15. ASSUME NEW t \in Threads, ~panicked, CloseAdapter(t) PROVE Goal
  BY <1>15 DEF CloseAdapter
<1>16. CASE PacketArrives \/ LoseDevice
  BY <1>16 DEF PacketArrives, LoseDevice
<1>17. QED
  BY <1>1, <1>2, <1>3, <1>4, <1>5, <1>6, <1>7, <1>8, <1>9, <1>10, <1>11,
     <1>12, <1>13, <1>14, <1>15, <1>16 DEF Next, Work, Advance, Crashed

(* IInv holds in every reachable state. *)
THEOREM Invariance == Spec => []IInv
<1>1. IInv /\ [Next]_vars => IInv'
  BY TypeStep, PlaceStep, CloserStep DEF IInv
<1>2. QED
  BY InitIInv, <1>1, PTL DEF Spec

-----------------------------------------------------------------------------
(* The receive ring.  Lent: the slots of Reads that have not released them. *)
SlotInv == RingIsSet /\ SlotsNotShared

LEMMA TailOfRing ==
  ASSUME ring \in Seq(Slots), ring # <<>>
  PROVE  /\ Len(Tail(ring)) = Len(ring) - 1
         /\ \A i \in 1..Len(Tail(ring)) : Tail(ring)[i] = ring[i + 1]
         /\ 1 \in 1..Len(ring) /\ Head(ring) = ring[1]
OBVIOUS

LEMMA AppendToRing ==
  ASSUME ring \in Seq(Slots), NEW s \in Slots
  PROVE  /\ Len(Append(ring, s)) = Len(ring) + 1
         /\ \A i \in 1..Len(ring) : Append(ring, s)[i] = ring[i]
         /\ Append(ring, s)[Len(ring) + 1] = s
OBVIOUS

LEMMA SlotStep == IInv /\ SlotInv /\ [Next]_vars => SlotInv'
<1> SUFFICES ASSUME IInv, SlotInv, [Next]_vars PROVE SlotInv'
  OBVIOUS
<1> USE DEF SlotInv, RingIsSet, SlotsNotShared
<1> DEFINE Keeps == /\ ring' = ring
                    /\ \A t \in Threads : pc'[t] \in {"copy", "release"} =>
                         pc[t] \in {"copy", "release"} /\ slot'[t] = slot[t]
<1>1. CASE UNCHANGED vars
  BY <1>1 DEF vars, data
<1>2. ASSUME NEW t \in Threads, Receive(t) PROVE SlotInv'
  <2>1. /\ ring' = Tail(ring) /\ ring # <<>> /\ ring \in Seq(Slots)
        /\ slot' = [slot EXCEPT ![t] = Head(ring)]
        /\ pc' = [pc EXCEPT ![t] = "copy"]
    BY <1>2 DEF Receive, Goto, IInv, TypeOK
  <2>2. \A i \in 1..Len(ring') :
          i + 1 \in 1..Len(ring) /\ ring'[i] = ring[i + 1] /\ i + 1 # 1
    BY <2>1, TailOfRing
  <2>3. RingIsSet'
    BY <2>2
  <2>4. \A i \in 1..Len(ring') : ring'[i] # Head(ring)
    BY <2>1, <2>2, TailOfRing
  <2>5. \A u \in Threads \ {t} : pc[u] \in {"copy", "release"} => slot[u] # Head(ring)
    BY <2>1, TailOfRing
  <2>6. SlotsNotShared'
    BY <2>1, <2>2, <2>4, <2>5 DEF IInv, TypeOK
  <2>7. QED
    BY <2>3, <2>6
<1>3. ASSUME PacketArrives PROVE SlotInv'
  <2>1. PICK s \in Free : ring' = Append(ring, s)
    BY <1>3 DEF PacketArrives
  <2>2. s \in Slots /\ ring \in Seq(Slots)
    BY DEF Free, IInv, TypeOK
  <2>3. \A i \in 1..Len(ring) : ring[i] # s
    BY DEF Free
  <2>4. \A t \in Threads : pc[t] \in {"copy", "release"} => slot[t] # s
    BY DEF Free, Borrowed
  <2>5. \A i \in 1..Len(ring') :
          IF i = Len(ring) + 1 THEN ring'[i] = s
                               ELSE i \in 1..Len(ring) /\ ring'[i] = ring[i]
    BY <2>1, <2>2, AppendToRing
  <2>6. RingIsSet'
    BY <2>3, <2>5
  <2>7. SlotsNotShared'
    BY <1>3, <2>3, <2>4, <2>5 DEF PacketArrives
  <2>8. QED
    BY <2>6, <2>7
<1>4. CASE LoseDevice
  BY <1>4 DEF LoseDevice
<1>5. ASSUME NEW t \in Threads, NEW o \in Transfers \cup {"close"}, Call(t, o)
      PROVE Keeps
  BY <1>5 DEF Call, Goto, data, IInv, TypeOK
<1>6. ASSUME NEW t \in Threads, Advance(t) \/ Reject(t) \/ RingFull(t)
      PROVE Keeps \/ Receive(t)
  <2> USE DEF Goto, Answer, data, IInv, TypeOK
  <2>1. CASE Validate(t)
    <3>1. ring' = ring /\ pc' = [pc EXCEPT ![t] = "done"]
          /\ slot' = [slot EXCEPT ![t] = NoSlot]
      BY <2>1 DEF Validate
    <3>2. QED
      BY <3>1
  <2>2. CASE WakeWaiter(t)
    BY <2>2 DEF WakeWaiter
  <2>3. CASE CopyOut(t)
    BY <2>3 DEF CopyOut
  <2>4. CASE Add(t) \/ Done(t) \/ WaitGroupWait(t) \/ WaitReturns(t)
    BY <2>4 DEF Add, Done, WaitGroupWait, WaitReturns
  <2>5. CASE CheckClosed(t) \/ DeviceLost(t) \/ Reject(t) \/ RingFull(t)
    BY <2>5 DEF CheckClosed, DeviceLost, Reject, RingFull
  <2>6. CASE NoMoreItems(t) \/ WakeUp(t) \/ ReleaseReceivePacket(t)
    BY <2>6 DEF NoMoreItems, WakeUp, ReleaseReceivePacket
  <2>7. CASE AllocateSendPacket(t) \/ SendPacket(t) \/ Return(t)
    BY <2>7 DEF AllocateSendPacket, SendPacket, Return
  <2>8. CASE SwapClosed(t) \/ SetEvent(t) \/ EndSession(t)
    BY <2>8 DEF SwapClosed, SetEvent, EndSession
  <2>9. CASE CloseAdapter(t)
    <3>1. ring' = ring /\ slot' = slot /\ pc' = [pc EXCEPT ![t] = "return"]
      BY <2>9 DEF CloseAdapter
    <3>2. QED
      BY <3>1
  <2>10. QED
    BY <1>6, <2>1, <2>2, <2>3, <2>4, <2>5, <2>6, <2>7, <2>8, <2>9 DEF Advance
<1>7. Keeps => SlotInv'
  OBVIOUS
<1>8. QED
  BY <1>1, <1>2, <1>3, <1>4, <1>5, <1>6, <1>7 DEF Next, Work, Crashed

-----------------------------------------------------------------------------
(* Every variable keeps its type. *)
THEOREM TypeCorrect == Spec => []TypeOK
BY Invariance, PTL DEF IInv

(* Read, Write, Close: when the session ends nobody is inside it, whatever *)
(* the interleaving and however the WaitGroup is misused.                  *)
THEOREM SessionStaysAlive == Spec => []SessionAlive
<1>1. IInv => SessionAlive
  BY DEF IInv, SessionAlive, TypeOK, Drained, OneCloser
<1>2. QED
  BY Invariance, <1>1, PTL

(* sync.WaitGroup in Read, Write, Close: it can only panic once a Close has *)
(* begun, and before the adapter is closed.                                 *)
THEOREM PanicConfined == Spec => []PanicOnlyInClose
BY Invariance, PTL DEF IInv

(* Read: until it has released its packet, a Read shares the memory with   *)
(* nobody.                                                                 *)
THEOREM NoSlotShared == Spec => []SlotsNotShared
<1>1. Init => SlotInv
  BY DEF Init, SlotInv, RingIsSet, SlotsNotShared
<1>2. IInv /\ SlotInv /\ [Next]_vars => SlotInv'
  BY SlotStep
<1>3. QED
  BY Invariance, <1>1, <1>2, PTL DEF Spec, SlotInv

(* What Read copies is what the driver delivered: only the driver writes to *)
(* the ring's memory, and only to slots that no Read has borrowed.          *)
THEOREM CopiesAreStable == Spec => CopyIsStable
<1> DEFINE Stable ==
      \A t \in Threads : pc[t] = "copy" => memory'[slot[t]] = memory[slot[t]]
<1>1. IInv /\ [Next]_vars => Stable
  <2> SUFFICES ASSUME IInv, [Next]_vars PROVE Stable
    OBVIOUS
  <2> USE DEF data
  <2>1. CASE PacketArrives
    <3>1. PICK s \in Free, p \in Incoming : memory' = [memory EXCEPT ![s] = p]
      BY <2>1 DEF PacketArrives
    <3>2. \A t \in Threads : pc[t] = "copy" => slot[t] # s
      BY DEF Free, Borrowed
    <3>3. QED
      BY <3>1, <3>2 DEF IInv, TypeOK
  <2>2. ASSUME NEW t \in Threads,
               \/ \E o \in Transfers \cup {"close"} : Call(t, o)
               \/ Advance(t) \/ Reject(t) \/ RingFull(t)
        PROVE  memory' = memory
    BY <2>2 DEF Call, Advance, Reject, RingFull, Add, CheckClosed, DeviceLost,
                Receive, NoMoreItems, WakeUp, CopyOut, ReleaseReceivePacket,
                Validate, AllocateSendPacket, SendPacket, Done, WakeWaiter,
                Return, SwapClosed, SetEvent, WaitGroupWait, WaitReturns,
                EndSession, CloseAdapter
  <2>3. CASE LoseDevice \/ UNCHANGED vars
    BY <2>3 DEF LoseDevice, vars
  <2>4. QED
    BY <2>1, <2>2, <2>3 DEF Next, Work, Crashed
<1>2. QED
  BY Invariance, <1>1, PTL DEF Spec, CopyIsStable

-----------------------------------------------------------------------------
(* WinTun implements TunHandle. *)

(* A goroutine's move shows in the handle as a move of its call alone. *)
LEMMA StageOfMove ==
  ASSUME TypeOK, NEW t \in Threads, NEW p, NEW r,
         pc' = [pc EXCEPT ![t] = p], res' = [res EXCEPT ![t] = r]
  PROVE  st' = [st EXCEPT ![t] = Stage(p, r)] /\ st[t] = Stage(pc[t], res[t])
BY DEF TypeOK, st

LEMMA ResStays == ASSUME TypeOK, NEW t \in Threads, res' = res
                  PROVE  res' = [res EXCEPT ![t] = res[t]]
BY DEF TypeOK

LEMMA HandleInit == Init => Handle!Init
BY DEF Init, Handle!Init, life, st, Stage

LEMMA HandleStep == IInv /\ [Next]_vars => [Handle!Next]_(Handle!vars)
<1> SUFFICES ASSUME IInv, [Next]_vars PROVE [Handle!Next]_(Handle!vars)
  OBVIOUS
<1> USE StageOfMove, ResStays
    DEF IInv, Goto, Answer, Stage, Handle!Step, handle, data
<1> TypeOK
  OBVIOUS
<1>1. CASE UNCHANGED vars
  BY <1>1 DEF vars, Handle!vars, life, st
<1>2. ASSUME NEW t \in Threads, NEW o \in Transfers \cup {"close"}, Call(t, o)
      PROVE Handle!Call(t, o) /\ o \in Handle!Ops
  BY <1>2 DEF Call, Handle!Call, Handle!Ops, Transfers, life
<1>3. ASSUME NEW t \in Threads,
             \/ Add(t) \/ WaitGroupWait(t) \/ WaitReturns(t)
             \/ Receive(t) \/ NoMoreItems(t) \/ WakeUp(t)
      PROVE UNCHANGED Handle!vars
  <2>1. CASE Add(t)
    BY <2>1 DEF Add, TypeOK, life, st, Handle!vars
  <2>2. CASE WaitGroupWait(t)
    BY <2>2 DEF WaitGroupWait, TypeOK, life, st, Handle!vars
  <2>3. CASE WaitReturns(t)
    BY <2>3 DEF WaitReturns, TypeOK, life, st, Handle!vars
  <2>4. CASE Receive(t)
    BY <2>4 DEF Receive, TypeOK, life, st, Handle!vars
  <2>5. CASE NoMoreItems(t)
    BY <2>5 DEF NoMoreItems, TypeOK, life, st, Handle!vars
  <2>6. CASE WakeUp(t)
    BY <2>6 DEF WakeUp, TypeOK, life, st, Handle!vars
  <2>7. QED
    BY <1>3, <2>1, <2>2, <2>3, <2>4, <2>5, <2>6
<1>4. ASSUME NEW t \in Threads,
             CopyOut(t) \/ ReleaseReceivePacket(t) \/ AllocateSendPacket(t)
             \/ SetEvent(t) \/ EndSession(t) \/ Done(t) \/ WakeWaiter(t)
      PROVE UNCHANGED Handle!vars
  <2>1. CASE CopyOut(t)
    BY <2>1 DEF CopyOut, TypeOK, life, st, Handle!vars
  <2>2. CASE ReleaseReceivePacket(t)
    BY <2>2 DEF ReleaseReceivePacket, TypeOK, life, st, Handle!vars
  <2>3. CASE AllocateSendPacket(t)
    BY <2>3 DEF AllocateSendPacket, TypeOK, life, st, Handle!vars
  <2>4. CASE SetEvent(t)
    BY <2>4 DEF SetEvent, TypeOK, life, st, Handle!vars
  <2>5. CASE EndSession(t)
    BY <2>5 DEF EndSession, TypeOK, life, st, Handle!vars
  <2>6. CASE Done(t)
    BY <2>6 DEF Done, TypeOK, life, st, Handle!vars
  <2>7. CASE WakeWaiter(t)
    BY <2>7 DEF WakeWaiter, TypeOK, life, st, Handle!vars
  <2>8. QED
    BY <1>4, <2>1, <2>2, <2>3, <2>4, <2>5, <2>6, <2>7
<1>5. ASSUME NEW t \in Threads, CheckClosed(t)
      PROVE \/ Handle!Admit(t) \/ Handle!Refuse(t)
            \/ UNCHANGED Handle!vars
  <2>1. PICK from \in {"check", "recheck"} :
          IF closed THEN Answer(t, from, "refused", "done")
          ELSE /\ Goto(t, from, IF op[t] = "read" THEN "receive" ELSE "allocate")
               /\ UNCHANGED res
    BY <1>5 DEF CheckClosed
  <2>2. op[t] # "close" /\ life' = life /\ op' = op /\ lost' = lost
    BY <1>5, <2>1 DEF CheckClosed, AtOwnPlace, Transferring, Transfers, life
  <2>3. CASE closed
    BY <2>1, <2>2, <2>3 DEF life, Handle!Refuse
  <2>4. CASE ~closed /\ from = "check"
    BY <2>1, <2>2, <2>4 DEF life, Handle!Admit
  <2>5. CASE ~closed /\ from = "recheck"
    BY <2>1, <2>2, <2>5 DEF TypeOK, st, Handle!vars
  <2>6. QED
    BY <2>3, <2>4, <2>5
<1>6. ASSUME NEW t \in Threads, DeviceLost(t) PROVE Handle!Refuse(t)
  <2>1. PICK from \in {"receive", "allocate"} : Answer(t, from, "refused", "done")
    BY <1>6 DEF DeviceLost
  <2>2. op[t] # "close" /\ lost /\ life' = life /\ op' = op /\ lost' = lost
    BY <1>6, <2>1 DEF DeviceLost, AtOwnPlace, Transferring, InSession,
                      Transfers, life
  <2>3. QED
    BY <2>1, <2>2 DEF Handle!Refuse
<1>7. ASSUME NEW t \in Threads, Reject(t) \/ RingFull(t) PROVE Handle!Fail(t)
  BY <1>7 DEF Reject, RingFull, AtOwnPlace, Transferring, InSession, Transfers,
              life, Handle!Fail
<1>8. ASSUME NEW t \in Threads, Validate(t)
      PROVE Handle!Transfer(t) \/ Handle!Fail(t)
  <2>1. PICK r \in {"ok", "failed"} : Answer(t, "validate", r, "done")
    BY <1>8 DEF Validate
  <2>2. op[t] # "close" /\ life # "closed"
    <3>1. op[t] \in Transfers
      BY <2>1 DEF AtOwnPlace, Transferring, InSession
    <3>2. life # "closed"
      BY <2>1 DEF InSession, Drained, OneCloser, life
    <3>3. QED
      BY <3>1, <3>2 DEF Transfers
  <2>3. life' = life /\ op' = op /\ lost' = lost
    BY <1>8 DEF Validate, life
  <2>4. QED
    BY <2>1, <2>2, <2>3 DEF Handle!Transfer, Handle!Fail
<1>9. ASSUME NEW t \in Threads, SendPacket(t) PROVE Handle!Transfer(t)
  <2>1. op[t] \in Transfers /\ life # "closed"
    <3>1. op[t] \in Transfers
      BY <1>9 DEF SendPacket, AtOwnPlace, Transferring, InSession
    <3>2. life # "closed"
      BY <1>9 DEF SendPacket, InSession, Drained, OneCloser, life
    <3>3. QED
      BY <3>1, <3>2
  <2>2. life' = life /\ op' = op /\ lost' = lost
    BY <1>9 DEF SendPacket, life
  <2>3. PICK from \in {"send"} : Answer(t, from, "ok", "done")
    BY <1>9 DEF SendPacket
  <2>4. QED
    BY <2>1, <2>2, <2>3 DEF Transfers, Handle!Transfer
<1>10. ASSUME NEW t \in Threads, Return(t) PROVE Handle!Return(t)
  BY <1>10 DEF Return, TypeOK, Results, life, Handle!Return, Handle!Results
<1>11. ASSUME NEW t \in Threads, SwapClosed(t)
       PROVE Handle!Refuse(t) \/ Handle!StartClose(t)
  <2>1. CASE closed
    BY <1>11, <2>1 DEF SwapClosed, AtOwnPlace, life, Handle!Refuse
  <2>2. CASE ~closed
    BY <1>11, <2>2 DEF SwapClosed, AtOwnPlace, OneCloser, life, Handle!StartClose
  <2>3. QED
    BY <2>1, <2>2
<1>12. ASSUME NEW t \in Threads, CloseAdapter(t) PROVE Handle!FinishClose(t)
  <2>1. PICK r \in {"ok", "failed"} : Answer(t, "adapter", r, "return")
    BY <1>12 DEF CloseAdapter
  <2>2. st[t] = "admitted" /\ st' = [st EXCEPT ![t] = r]
    BY <2>1
  <2>3. /\ op[t] = "close" /\ life = "closing" /\ life' = "closed"
        /\ op' = op /\ lost' = lost
    BY <1>12, <2>1 DEF CloseAdapter, AtOwnPlace, OneCloser, Closing, life
  <2>4. QED
    BY <2>2, <2>3 DEF Handle!FinishClose
<1>13. CASE PacketArrives
  BY <1>13 DEF PacketArrives, life, st, Handle!vars
<1>14. CASE LoseDevice
  BY <1>14 DEF LoseDevice, life, st, Handle!LoseDevice, Handle!Next
<1>15. QED
  BY <1>1, <1>2, <1>3, <1>4, <1>5, <1>6, <1>7, <1>8, <1>9, <1>10, <1>11,
     <1>12, <1>13, <1>14 DEF Next, Work, Crashed, Advance, Handle!Next

(* Every behaviour of WinTun is one of a Tun handle: one Close wins, no     *)
(* packet moves once it is done, and a late call is refused.                *)
THEOREM Refinement == Spec => RefinesHandle
BY Invariance, HandleInit, HandleStep, PTL DEF Spec, RefinesHandle, Handle!Spec
=============================================================================
