------------------------------ MODULE UnixTun ------------------------------
(***************************************************************************)
(* The tunDevice of Linux and the BSDs (and Linux's tunDeviceOffload, whose *)
(* methods have the same shape): an atomic flag, one mutex for the readers, *)
(* one for the writers, and an os.File.                                    *)
(*                                                                         *)
(* The os.File is external.  Of it we keep what the methods lean on: Close *)
(* first forbids new references and wakes the goroutines parked in a       *)
(* system call, then waits for the last of them to leave before the        *)
(* descriptor is given back to the kernel.                                 *)
(***************************************************************************)
EXTENDS Naturals, FiniteSets

CONSTANTS
  Threads,                  \* the goroutines that use the device
  NoThread,                 \* the holder of a free mutex
  MaxPackets                \* bound: packets the kernel keeps queued

ASSUME ThreadsAssumption == NoThread \notin Threads
ASSUME BoundAssumption == MaxPackets \in Nat

VARIABLES
  closed,                   \* tunDevice.closed
  mutex,                    \* readMutex and writeMutex: who holds each
  fileClosing,              \* os.File: no new references
  fdOpen,                   \* os.File: the descriptor is ours
  queued,                   \* packets the kernel holds for the readers
  op, pc, res               \* of each goroutine: method, place, result

vars == <<closed, mutex, fileClosing, fdOpen, queued, op, pc, res>>
device == <<closed, mutex, fileClosing, fdOpen, queued>>

Transfers == {"read", "write"}
Results   == {"ok", "failed", "refused"}

TypeOK ==
  /\ closed \in BOOLEAN
  /\ mutex \in [Transfers -> Threads \cup {NoThread}]
  /\ fileClosing \in BOOLEAN
  /\ fdOpen \in BOOLEAN
  /\ queued \in Nat
  /\ op \in [Threads -> Transfers \cup {"close", "none"}]
  /\ pc \in [Threads -> {"idle", "check", "lock", "enter", "sys",
                         "swap", "evict", "drain", "return"}]
  /\ res \in [Threads -> Results]

Init ==
  /\ closed = FALSE
  /\ mutex = [o \in Transfers |-> NoThread]
  /\ fileClosing = FALSE
  /\ fdOpen = TRUE
  /\ queued = 0
  /\ op = [t \in Threads |-> "none"]
  /\ pc = [t \in Threads |-> "idle"]
  /\ res = [t \in Threads |-> "failed"]

Goto(t, from, to) == pc[t] = from /\ pc' = [pc EXCEPT ![t] = to]
Answer(t, from, r) == Goto(t, from, "return") /\ res' = [res EXCEPT ![t] = r]

-----------------------------------------------------------------------------
(* Read and Write *)

Call(t, o) ==
  /\ Goto(t, "idle", IF o = "close" THEN "swap" ELSE "check")
  /\ op' = [op EXCEPT ![t] = o]
  /\ UNCHANGED <<device, res>>

(* Mutant: the mutex is not taken. *)
CheckClosedOnly(t) ==
  /\ IF closed THEN Answer(t, "check", "refused")
               ELSE Goto(t, "check", "enter") /\ UNCHANGED res
  /\ UNCHANGED <<device, op>>

(* The flag is loaded before the mutex is taken, and not again after it. *)
CheckClosed(t) ==
  /\ IF closed THEN Answer(t, "check", "refused")
               ELSE Goto(t, "check", "lock") /\ UNCHANGED res
  /\ UNCHANGED <<device, op>>

(* Mutant: one mutex for readers and writers. *)
LockBoth(t) ==
  /\ Goto(t, "lock", "enter")
  /\ \A o \in Transfers : mutex[o] = NoThread
  /\ mutex' = [mutex EXCEPT ![op[t]] = t]
  /\ UNCHANGED <<closed, fileClosing, fdOpen, queued, op, res>>

Lock(t) ==
  /\ Goto(t, "lock", "enter")
  /\ mutex[op[t]] = NoThread
  /\ mutex' = [mutex EXCEPT ![op[t]] = t]
  /\ UNCHANGED <<closed, fileClosing, fdOpen, queued, op, res>>

(* checkPacketLen turns the packet down: nothing reaches the file. *)
RejectPacket(t) ==
  /\ op[t] = "write"
  /\ Answer(t, "enter", "failed")
  /\ UNCHANGED <<device, op>>

(* os.File takes a reference for the system call, unless it is closing. *)
EnterFile(t) ==
  /\ IF fileClosing THEN Answer(t, "enter", "refused")
                    ELSE Goto(t, "enter", "sys") /\ UNCHANGED res
  /\ UNCHANGED <<device, op>>

(* Mutant: the file answers before there is a packet. *)
ReadNothing(t) ==
  /\ op[t] = "read"
  /\ queued' = queued - 1
  /\ \E r \in {"ok", "failed"} : Answer(t, "sys", r)
  /\ UNCHANGED <<closed, mutex, fileClosing, fdOpen, op>>

(* A packet leaves the kernel.  It is gone even when Read then finds it too *)
(* long for the buffer or malformed, and fails.                             *)
ReadPacket(t) ==
  /\ op[t] = "read"
  /\ queued > 0
  /\ queued' = queued - 1
  /\ \E r \in {"ok", "failed"} : Answer(t, "sys", r)
  /\ UNCHANGED <<closed, mutex, fileClosing, fdOpen, op>>

WritePacket(t) ==
  /\ op[t] = "write"
  /\ Answer(t, "sys", "ok")
  /\ UNCHANGED <<device, op>>

FileError(t) ==
  /\ op[t] \in Transfers
  /\ Answer(t, "sys", "failed")
  /\ UNCHANGED <<device, op>>

(* A parked system call is woken by the close with os.ErrClosed. *)
Evicted(t) ==
  /\ fileClosing
  /\ Answer(t, "sys", "refused")
  /\ UNCHANGED <<device, op>>

(* The deferred Unlock, and the return; the call's variables go with it. *)
Return(t) ==
  /\ Goto(t, "return", "idle")
  /\ res' = [res EXCEPT ![t] = "failed"]
  /\ mutex' = [o \in Transfers |-> IF mutex[o] = t THEN NoThread ELSE mutex[o]]
  /\ op' = [op EXCEPT ![t] = "none"]
  /\ UNCHANGED <<closed, fileClosing, fdOpen, queued>>

-----------------------------------------------------------------------------
(* Close *)

(* Mutant: the flag is stored, what it was is not looked at. *)
StoreClosed(t) ==
  /\ Goto(t, "swap", "evict")
  /\ closed' = TRUE
  /\ UNCHANGED <<mutex, fileClosing, fdOpen, queued, op, res>>

SwapClosed(t) ==
  /\ IF closed THEN Answer(t, "swap", "refused")
               ELSE Goto(t, "swap", "evict") /\ UNCHANGED res
  /\ closed' = TRUE
  /\ UNCHANGED <<mutex, fileClosing, fdOpen, queued, op>>

(* Mutant: parked system calls are left alone, as by a blocking descriptor. *)
EvictNobody(t) ==
  /\ Goto(t, "evict", "drain")
  /\ UNCHANGED <<device, op, res>>

Evict(t) ==
  /\ Goto(t, "evict", "drain")
  /\ fileClosing' = TRUE
  /\ UNCHANGED <<closed, mutex, fdOpen, queued, op, res>>

(* Mutant: close(2) on the descriptor itself. *)
CloseFdAtOnce(t) ==
  /\ fdOpen' = FALSE
  /\ \E r \in {"ok", "failed"} : Answer(t, "drain", r)
  /\ UNCHANGED <<closed, mutex, fileClosing, queued, op>>

CloseFd(t) ==
  /\ \A u \in Threads : pc[u] # "sys"
  /\ fdOpen' = FALSE
  /\ \E r \in {"ok", "failed"} : Answer(t, "drain", r)
  /\ UNCHANGED <<closed, mutex, fileClosing, queued, op>>

-----------------------------------------------------------------------------
(* The kernel queues a packet for the readers. *)
PacketArrives ==
  /\ queued < MaxPackets
  /\ queued' = queued + 1
  /\ UNCHANGED <<closed, mutex, fileClosing, fdOpen, op, pc, res>>

(* What a goroutine does once its call has begun, the system calls that may *)
(* stay parked for ever only when something lets them go.                   *)
Advance(t) ==
  \/ CheckClosed(t) \/ EnterFile(t) \/ ReadPacket(t) \/ WritePacket(t)
  \/ Evicted(t) \/ Return(t)
  \/ SwapClosed(t) \/ Evict(t) \/ CloseFd(t)

Next ==
  \/ \E t \in Threads :
       \/ \E o \in Transfers \cup {"close"} : Call(t, o)
       \/ Advance(t) \/ Lock(t) \/ RejectPacket(t) \/ FileError(t)
  \/ PacketArrives

Spec == Init /\ [][Next]_vars

(* A runnable goroutine is scheduled.  A sync.Mutex does not starve a       *)
(* waiter, although the mutex is taken from it again and again: SF.         *)
Fairness == \A t \in Threads : WF_vars(Advance(t)) /\ SF_vars(Lock(t))

FairSpec == Spec /\ Fairness

-----------------------------------------------------------------------------
(* Properties *)

(* No system call is under way on a descriptor that was given back: after   *)
(* that the number may name somebody else's file.                           *)
FdOwned == \A t \in Threads : pc[t] = "sys" => fdOpen

(* The file never serves two readers, nor two writers, at a time, and the   *)
(* mutex that says so is never left behind by a call that has returned.     *)
OneAtATime ==
  \A t \in Threads :
    /\ pc[t] \in {"enter", "sys"} => mutex[op[t]] = t
    /\ \A o \in Transfers :
         mutex[o] = t => op[t] = o /\ pc[t] \in {"enter", "sys", "return"}

(* The device is a Tun handle: a single Close wins, only calls admitted     *)
(* before it move packets, none after it, and late calls are refused.       *)
life == IF ~closed THEN "open" ELSE IF fdOpen THEN "closing" ELSE "closed"

Stage(p, r) ==
  CASE p = "idle"              -> "idle"
    [] p \in {"check", "swap"} -> "called"
    [] p = "return"            -> r
    [] OTHER                   -> "admitted"

st == [t \in Threads |-> Stage(pc[t], res[t])]

Handle == INSTANCE TunHandle WITH lost <- FALSE, kept <- FALSE

RefinesHandle == Handle!Spec

(* Close lets everybody out: once the flag is set each call that is under   *)
(* way comes back, a reader parked on an idle interface included.           *)
CloseDrains ==
  \A t \in Threads : closed /\ pc[t] # "idle" ~> pc[t] = "idle"

(* A writer comes back even if no packet is ever read and nobody closes:    *)
(* the parked reader holds a mutex of its own.                              *)
WriterReturns ==
  \A t \in Threads : op[t] = "write" ~> op[t] = "none"
=============================================================================
