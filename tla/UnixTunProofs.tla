--------------------------- MODULE UnixTunProofs ---------------------------
(* What holds of UnixTun for any set of goroutines and any queue length.   *)
EXTENDS UnixTun, TLAPS

(* A goroutine is only at places its method passes through. *)
AtOwnPlace ==
  \A t \in Threads :
    /\ pc[t] = "idle" <=> op[t] = "none"
    /\ pc[t] \in {"check", "lock", "enter", "sys"} => op[t] \in Transfers
    /\ pc[t] \in {"swap", "evict", "drain"} => op[t] = "close"

(* The one goroutine whose Close has won stands between closed and the      *)
(* release of the descriptor, and nobody else sets fileClosing or fdOpen.   *)
Closing == {"evict", "drain"}

OneCloser ==
  /\ \A t \in Threads : pc[t] \in Closing => closed /\ fdOpen
  /\ \A t \in Threads : pc[t] = "evict" => ~fileClosing
  /\ \A t \in Threads : pc[t] = "drain" => fileClosing
  /\ \A t, u \in Threads : pc[t] \in Closing /\ pc[u] \in Closing => t = u
  /\ ~closed => fdOpen /\ ~fileClosing
  /\ ~fdOpen => fileClosing

IInv == TypeOK /\ AtOwnPlace /\ OneAtATime /\ OneCloser /\ FdOwned

-----------------------------------------------------------------------------
LEMMA InitIInv == Init => IInv
<1> SUFFICES ASSUME Init PROVE IInv
  OBVIOUS
<1> USE DEF Init, Transfers
<1>1. TypeOK
  BY DEF TypeOK, Results
<1>2. AtOwnPlace
  BY DEF AtOwnPlace
<1>3. OneAtATime
  BY ThreadsAssumption DEF OneAtATime
<1>4. OneCloser /\ FdOwned
  BY DEF OneCloser, Closing, FdOwned
<1>5. QED
  BY <1>1, <1>2, <1>3, <1>4 DEF IInv

LEMMA TypeStep == TypeOK /\ [Next]_vars => TypeOK'
<1> SUFFICES ASSUME TypeOK, [Next]_vars PROVE TypeOK'
  OBVIOUS
<1> USE DEF TypeOK, Transfers, Results, Goto, Answer
<1>1. CASE UNCHANGED vars
  BY <1>1 DEF vars
<1>2. ASSUME NEW t \in Threads, NEW o \in Transfers \cup {"close"}, Call(t, o)
      PROVE TypeOK'
  BY <1>2 DEF Call, device
<1>3. ASSUME NEW t \in Threads, CheckClosed(t) PROVE TypeOK'
  BY <1>3 DEF CheckClosed, device
<1>4. ASSUME NEW t \in Threads, EnterFile(t) PROVE TypeOK'
  BY <1>4 DEF EnterFile, device
<1>5. ASSUME NEW t \in Threads, ReadPacket(t) PROVE TypeOK'
  BY <1>5 DEF ReadPacket
<1>6. ASSUME NEW t \in Threads,
             WritePacket(t) \/ RejectPacket(t) \/ FileError(t) \/ Evicted(t)
      PROVE TypeOK'
  BY <1>6 DEF WritePacket, RejectPacket, FileError, Evicted, device
<1>7. ASSUME NEW t \in Threads, Return(t) PROVE TypeOK'
  BY <1>7 DEF Return
<1>8. ASSUME NEW t \in Threads, Lock(t) PROVE TypeOK'
  <2>1. pc' \in [Threads -> {"idle", "check", "lock", "enter", "sys",
                             "swap", "evict", "drain", "return"}]
    BY <1>8 DEF Lock
  <2>2. mutex' \in [Transfers -> Threads \cup {NoThread}]
    BY <1>8 DEF Lock
  <2>3. QED
    BY <1>8, <2>1, <2>2 DEF Lock
<1>9. ASSUME NEW t \in Threads, SwapClosed(t) PROVE TypeOK'
  BY <1>9 DEF SwapClosed
<1>10. ASSUME NEW t \in Threads, Evict(t) \/ CloseFd(t) PROVE TypeOK'
  <2>1. CASE Evict(t)
    BY <2>1 DEF Evict
  <2>2. CASE CloseFd(t)
    <3>1. PICK r \in {"ok", "failed"} : Answer(t, "drain", r)
      BY <2>2 DEF CloseFd
    <3>2. QED
      BY <2>2, <3>1 DEF CloseFd
  <2>3. QED
    BY <1>10, <2>1, <2>2
<1>11. CASE PacketArrives
  BY <1>11 DEF PacketArrives
<1>12. QED
  BY <1>1, <1>2, <1>3, <1>4, <1>5, <1>6, <1>7, <1>8, <1>9, <1>10, <1>11
     DEF Next, Advance

LEMMA PlaceStep == IInv /\ [Next]_vars => AtOwnPlace'
<1> SUFFICES ASSUME IInv, [Next]_vars PROVE AtOwnPlace'
  OBVIOUS
<1> USE DEF IInv, TypeOK, AtOwnPlace, Transfers, Goto, Answer
<1>1. CASE UNCHANGED vars
  BY <1>1 DEF vars
<1>2. ASSUME NEW t \in Threads, NEW o \in Transfers \cup {"close"}, Call(t, o)
      PROVE AtOwnPlace'
  BY <1>2 DEF Call
<1>3. ASSUME NEW t \in Threads, CheckClosed(t) \/ EnterFile(t) \/ Lock(t)
      PROVE AtOwnPlace'
  BY <1>3 DEF CheckClosed, EnterFile, Lock
<1>4. ASSUME NEW t \in Threads,
             \/ ReadPacket(t) \/ WritePacket(t) \/ RejectPacket(t)
             \/ FileError(t) \/ Evicted(t)
      PROVE AtOwnPlace'
  BY <1>4 DEF ReadPacket, WritePacket, RejectPacket, FileError, Evicted
<1>5. ASSUME NEW t \in Threads, Return(t) PROVE AtOwnPlace'
  BY <1>5 DEF Return
<1>6. ASSUME NEW t \in Threads, SwapClosed(t) \/ Evict(t) \/ CloseFd(t)
      PROVE AtOwnPlace'
  BY <1>6 DEF SwapClosed, Evict, CloseFd
<1>7. CASE PacketArrives
  BY <1>7 DEF PacketArrives
<1>8. QED
  BY <1>1, <1>2, <1>3, <1>4, <1>5, <1>6, <1>7 DEF Next, Advance

LEMMA MutexStep == IInv /\ [Next]_vars => OneAtATime'
<1> SUFFICES ASSUME IInv, [Next]_vars PROVE OneAtATime'
  OBVIOUS
<1> USE ThreadsAssumption
    DEF IInv, TypeOK, AtOwnPlace, OneAtATime, Transfers, Goto, Answer
<1>1. CASE UNCHANGED vars
  BY <1>1 DEF vars
<1>2. ASSUME NEW t \in Threads, NEW o \in Transfers \cup {"close"}, Call(t, o)
      PROVE OneAtATime'
  BY <1>2 DEF Call, device
<1>3. ASSUME NEW t \in Threads, CheckClosed(t) \/ EnterFile(t)
      PROVE OneAtATime'
  BY <1>3 DEF CheckClosed, EnterFile, device
<1>4. ASSUME NEW t \in Threads,
             \/ ReadPacket(t) \/ WritePacket(t) \/ RejectPacket(t)
             \/ FileError(t) \/ Evicted(t)
      PROVE OneAtATime'
  BY <1>4 DEF ReadPacket, WritePacket, RejectPacket, FileError, Evicted, device
<1>5. ASSUME NEW t \in Threads, Return(t) PROVE OneAtATime'
  BY <1>5 DEF Return
<1>6. ASSUME NEW t \in Threads, Lock(t) PROVE OneAtATime'
  BY <1>6 DEF Lock
<1>7. ASSUME NEW t \in Threads, SwapClosed(t) \/ Evict(t) \/ CloseFd(t)
      PROVE OneAtATime'
  BY <1>7 DEF SwapClosed, Evict, CloseFd
<1>8. CASE PacketArrives
  BY <1>8 DEF PacketArrives
<1>9. QED
  BY <1>1, <1>2, <1>3, <1>4, <1>5, <1>6, <1>7, <1>8 DEF Next, Advance

LEMMA CloserStep == IInv /\ [Next]_vars => OneCloser' /\ FdOwned'
<1> SUFFICES ASSUME IInv, [Next]_vars PROVE OneCloser' /\ FdOwned'
  OBVIOUS
<1> USE DEF IInv, TypeOK, OneCloser, Closing, FdOwned, Goto, Answer
<1>1. CASE UNCHANGED vars
  BY <1>1 DEF vars
<1>2. ASSUME NEW t \in Threads, NEW o \in Transfers \cup {"close"}, Call(t, o)
      PROVE OneCloser' /\ FdOwned'
  BY <1>2 DEF Call, device
<1>3. ASSUME NEW t \in Threads, CheckClosed(t) \/ EnterFile(t) \/ Lock(t)
      PROVE OneCloser' /\ FdOwned'
  BY <1>3 DEF CheckClosed, EnterFile, Lock, device
<1>4. ASSUME NEW t \in Threads,
             \/ ReadPacket(t) \/ WritePacket(t) \/ RejectPacket(t)
             \/ FileError(t) \/ Evicted(t)
      PROVE OneCloser' /\ FdOwned'
  BY <1>4 DEF ReadPacket, WritePacket, RejectPacket, FileError, Evicted, device
<1>5. ASSUME NEW t \in Threads, Return(t) PROVE OneCloser' /\ FdOwned'
  BY <1>5 DEF Return
<1>6. ASSUME NEW t \in Threads, SwapClosed(t) PROVE OneCloser' /\ FdOwned'
  BY <1>6 DEF SwapClosed
<1>7. ASSUME NEW t \in Threads, Evict(t) PROVE OneCloser' /\ FdOwned'
  BY <1>7 DEF Evict
<1>8. ASSUME NEW t \in Threads, CloseFd(t) PROVE OneCloser' /\ FdOwned'
  BY <1>8 DEF CloseFd
<1>9. CASE PacketArrives
  BY <1>9 DEF PacketArrives
<1>10. QED
  BY <1>1, <1>2, <1>3, <1>4, <1>5, <1>6, <1>7, <1>8, <1>9 DEF Next, Advance

(* IInv holds in every reachable state. *)
THEOREM Invariance == Spec => []IInv
<1>1. IInv /\ [Next]_vars => IInv'
  BY TypeStep, PlaceStep, MutexStep, CloserStep DEF IInv
<1>2. QED
  BY InitIInv, <1>1, PTL DEF Spec

-----------------------------------------------------------------------------
(* Every variable keeps its type. *)
THEOREM TypeCorrect == Spec => []TypeOK
BY Invariance, PTL DEF IInv

(* tunDevice.Read and Write: no system call runs on a descriptor that       *)
(* Close has given back, however the calls interleave.                      *)
THEOREM FdIsOwned == Spec => []FdOwned
BY Invariance, PTL DEF IInv

(* readMutex and writeMutex: one reader and one writer at a time, and no    *)
(* mutex outlives the call that took it.                                    *)
THEOREM MutualExclusion == Spec => []OneAtATime
BY Invariance, PTL DEF IInv

-----------------------------------------------------------------------------
(* UnixTun implements TunHandle. *)

(* A goroutine's move shows in the handle as a move of its call alone. *)
LEMMA StageOfMove ==
  ASSUME TypeOK, NEW t \in Threads, NEW p, NEW r,
         pc' = [pc EXCEPT ![t] = p], res' = [res EXCEPT ![t] = r]
  PROVE  st' = [st EXCEPT ![t] = Stage(p, r)] /\ st[t] = Stage(pc[t], res[t])
BY DEF TypeOK, st

LEMMA ResStays == ASSUME TypeOK, NEW t \in Threads, res' = res
                  PROVE  res' = [res EXCEPT ![t] = res[t]]
BY DEF TypeOK

LEMMA HandleInit == Init => Handle!Init
BY DEF Init, Handle!Init, life, st, Stage

LEMMA HandleStep == IInv /\ [Next]_vars => [Handle!Next]_(Handle!vars)
<1> SUFFICES ASSUME IInv, [Next]_vars PROVE [Handle!Next]_(Handle!vars)
  OBVIOUS
<1> USE StageOfMove, ResStays DEF IInv, Goto, Answer, Stage, Handle!Step
<1> TypeOK
  OBVIOUS
<1>1. CASE UNCHANGED vars
  BY <1>1 DEF vars, Handle!vars, life, st
<1>2. ASSUME NEW t \in Threads, NEW o \in Transfers \cup {"close"}, Call(t, o)
      PROVE Handle!Call(t, o) /\ o \in Handle!Ops
  BY <1>2 DEF Call, device, Handle!Call, Handle!Ops, Transfers, life
<1>3. ASSUME NEW t \in Threads, CheckClosed(t)
      PROVE Handle!Admit(t) \/ Handle!Refuse(t)
  BY <1>3 DEF CheckClosed, AtOwnPlace, Transfers, device, life,
              Handle!Admit, Handle!Refuse
<1>4. ASSUME NEW t \in Threads, Lock(t) PROVE UNCHANGED Handle!vars
  BY <1>4 DEF Lock, TypeOK, life, st, Handle!vars
<1>5. ASSUME NEW t \in Threads, EnterFile(t)
      PROVE UNCHANGED Handle!vars \/ Handle!Refuse(t)
  <2>1. CASE fileClosing
    BY <1>5, <2>1 DEF EnterFile, AtOwnPlace, Transfers, OneCloser, device,
                      life, Handle!Refuse
  <2>2. CASE ~fileClosing
    BY <1>5, <2>2 DEF EnterFile, TypeOK, device, life, st, Handle!vars
  <2>3. QED
    BY <2>1, <2>2
<1>6. ASSUME NEW t \in Threads, ReadPacket(t) \/ WritePacket(t)
      PROVE Handle!Transfer(t) \/ Handle!Fail(t)
  BY <1>6 DEF ReadPacket, WritePacket, AtOwnPlace, Transfers, FdOwned, device,
              life, Handle!Transfer, Handle!Fail
<1>7. ASSUME NEW t \in Threads, RejectPacket(t) \/ FileError(t)
      PROVE Handle!Fail(t)
  BY <1>7 DEF RejectPacket, FileError, AtOwnPlace, Transfers, device, life,
              Handle!Fail
<1>8. ASSUME NEW t \in Threads, Evicted(t) PROVE Handle!Refuse(t)
  BY <1>8 DEF Evicted, AtOwnPlace, Transfers, OneCloser, device, life,
              Handle!Refuse
<1>9. ASSUME NEW t \in Threads, Return(t) PROVE Handle!Return(t)
  BY <1>9 DEF Return, TypeOK, Results, life, Handle!Return, Handle!Results
<1>10. ASSUME NEW t \in Threads, SwapClosed(t)
       PROVE Handle!Refuse(t) \/ Handle!StartClose(t)
  BY <1>10 DEF SwapClosed, AtOwnPlace, OneCloser, life,
               Handle!Refuse, Handle!StartClose
<1>11. ASSUME NEW t \in Threads, Evict(t) PROVE UNCHANGED Handle!vars
  BY <1>11 DEF Evict, TypeOK, life, st, Handle!vars
<1>12. ASSUME NEW t \in Threads, CloseFd(t) PROVE Handle!FinishClose(t)
  <2>1. PICK r \in {"ok", "failed"} : Answer(t, "drain", r)
    BY <1>12 DEF CloseFd
  <2>2. st[t] = "admitted" /\ st' = [st EXCEPT ![t] = r]
    BY <2>1
  <2>3. op[t] = "close" /\ life = "closing" /\ life' = "closed" /\ op' = op
    BY <1>12, <2>1 DEF CloseFd, AtOwnPlace, OneCloser, Closing, life
  <2>4. QED
    BY <2>2, <2>3 DEF Handle!FinishClose
<1>13. CASE PacketArrives
  BY <1>13 DEF PacketArrives, life, st, Handle!vars
<1>14. QED
  BY <1>1, <1>2, <1>3, <1>4, <1>5, <1>6, <1>7, <1>8, <1>9, <1>10, <1>11,
     <1>12, <1>13 DEF Next, Advance, Handle!Next

(* Every behaviour of UnixTun is one of a Tun handle: one Close wins, no    *)
(* packet moves once it is done, and a late call is refused.                *)
THEOREM Refinement == Spec => RefinesHandle
BY Invariance, HandleInit, HandleStep, PTL DEF Spec, RefinesHandle, Handle!Spec
=============================================================================
