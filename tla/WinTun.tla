------------------------------- MODULE WinTun -------------------------------
(***************************************************************************)
(* The tunDevice of Windows: an atomic flag, a sync.WaitGroup that counts  *)
(* the running Reads and Writes, and a wintun session whose rings are      *)
(* memory shared with the driver.                                          *)
(*                                                                         *)
(* wintun.dll and sync.WaitGroup are external.  Of the first we keep the   *)
(* receive ring: the driver fills free slots, a Read borrows a slot and    *)
(* gives it back, and the event readers sleep on is reset by the one wait  *)
(* it satisfies.                                                           *)
(* Of the second we keep the rule that it panics when the count leaves     *)
(* zero between the Wait that found it positive and the return of that     *)
(* Wait.  A panic ends the program.                                        *)
(***************************************************************************)
EXTENDS Naturals, Sequences, FiniteSets

CONSTANTS
  Threads,                  \* the goroutines that use the device
  Readers, Writers,         \* those of them that call Read, and Write
  Slots,                    \* bound: packets the receive ring has room for
  NoSlot,                   \* what a goroutine without a packet borrows
  Incoming                  \* bound: the packets the driver delivers

ASSUME CallersAssumption == Readers \cup Writers \subseteq Threads
ASSUME SlotsAssumption == NoSlot \notin Slots

VARIABLES
  closed, panicked,
  running,                  \* the goroutines the WaitGroup counts
  event,                    \* readWait is set
  session, adapter,         \* neither has been ended or closed
  lost,                     \* the driver has shut the rings down
  ring,                     \* slots filled and not yet borrowed, oldest first
  memory,                   \* memory[s]: what slot s holds
  slot,                     \* slot[t]: the slot a Read has received
  got,                      \* got[t]: what Read copied for its caller
  op, pc, res

handle == <<closed, panicked, session, adapter>>
data   == <<event, lost, ring, memory, slot, got>>
vars   == <<handle, data, running, op, pc, res>>

Transfers == {"read", "write"}
Packets   == {"good", "bad"}            \* whether TotalLen agrees with the size
Results   == {"ok", "failed", "refused", "nothing"}

ASSUME IncomingAssumption == Incoming \subseteq Packets

TypeOK ==
  /\ closed \in BOOLEAN /\ panicked \in BOOLEAN /\ event \in BOOLEAN
  /\ session \in BOOLEAN /\ adapter \in BOOLEAN /\ lost \in BOOLEAN
  /\ running \subseteq Threads
  /\ ring \in Seq(Slots)
  /\ memory \in [Slots -> Packets]
  /\ slot \in [Threads -> Slots \cup {NoSlot}]
  /\ got \in [Threads -> Packets]
  /\ op \in [Threads -> Transfers \cup {"close", "none"}]
  /\ pc \in [Threads -> {"idle", "add", "check", "recheck", "receive",
                         "wait", "copy", "release", "validate", "allocate",
                         "send", "done", "notify", "swap", "signal",
                         "waitgroup", "asleep", "woken", "end", "adapter",
                         "return"}]
  /\ res \in [Threads -> Results]

Init ==
  /\ closed = FALSE /\ panicked = FALSE
  /\ running = {}
  /\ event = FALSE
  /\ session = TRUE /\ adapter = TRUE /\ lost = FALSE
  /\ ring = <<>>
  /\ memory = [s \in Slots |-> "bad"]
  /\ slot = [t \in Threads |-> NoSlot]
  /\ got = [t \in Threads |-> "bad"]
  /\ op = [t \in Threads |-> "none"]
  /\ pc = [t \in Threads |-> "idle"]
  /\ res = [t \in Threads |-> "failed"]

Goto(t, from, to) == pc[t] = from /\ pc' = [pc EXCEPT ![t] = to]
Answer(t, from, r, to) == Goto(t, from, to) /\ res' = [res EXCEPT ![t] = r]

(* Mutant: the slot is released before it is copied. *)
BorrowedTooShort == {slot[t] : t \in {u \in Threads : pc[u] = "release"}}

(* The memory a Read has been given and has not given back.                *)
Borrowed == {slot[t] : t \in {u \in Threads : pc[u] \in {"copy", "release"}}}
Free     == {s \in Slots : \A i \in 1..Len(ring) : ring[i] # s} \ Borrowed

-----------------------------------------------------------------------------
(* sync.WaitGroup *)

(* Wait has registered; it sleeps until the count comes back to zero.      *)
Waiting == \E t \in Threads : pc[t] = "asleep"

Add(t) ==
  /\ running' = running \cup {t}
  /\ panicked' = (Waiting /\ running = {})
  /\ Goto(t, "add", "check")
  /\ UNCHANGED <<closed, session, adapter, data, op, res>>

(* Mutant: a path that returns without Done. *)
DoneForgotten(t) ==
  /\ Goto(t, "done", "return")
  /\ UNCHANGED <<handle, data, running, op, res>>

(* The deferred Done.  The one that brings the count to zero has the waiter *)
(* still to wake.                                                           *)
Done(t) ==
  /\ running' = running \ {t}
  /\ Goto(t, "done", IF Waiting /\ running = {t} THEN "notify" ELSE "return")
  /\ UNCHANGED <<handle, data, op, res>>

(* An Add in between has panicked already. *)
WakeWaiter(t) ==
  /\ pc[t] = "notify"
  /\ pc' = [u \in Threads |-> IF u = t THEN "return"
                              ELSE IF pc[u] = "asleep" THEN "woken"
                              ELSE pc[u]]
  /\ UNCHANGED <<handle, data, running, op, res>>

(* Mutant: Close does not wait for the running calls. *)
NoWait(t) ==
  /\ Goto(t, "waitgroup", "end")
  /\ UNCHANGED <<handle, data, running, op, res>>

WaitGroupWait(t) ==
  /\ Goto(t, "waitgroup", IF running = {} THEN "end" ELSE "asleep")
  /\ UNCHANGED <<handle, data, running, op, res>>

WaitReturns(t) ==
  /\ Goto(t, "woken", "end")
  /\ panicked' = (running # {})
  /\ UNCHANGED <<closed, session, adapter, data, running, op, res>>

-----------------------------------------------------------------------------
(* Read and Write *)

Call(t, o) ==
  /\ (o = "read" => t \in Readers) /\ (o = "write" => t \in Writers)
  /\ Goto(t, "idle", IF o = "close" THEN "swap" ELSE "add")
  /\ op' = [op EXCEPT ![t] = o]
  /\ UNCHANGED <<handle, data, running, res>>

(* Mutant: the flag is not looked at. *)
CheckNothing(t) ==
  /\ \E from \in {"check", "recheck"} :
       Goto(t, from, IF op[t] = "read" THEN "receive" ELSE "allocate")
  /\ UNCHANGED <<handle, data, running, op, res>>

CheckClosed(t) ==
  /\ \E from \in {"check", "recheck"} :
       IF closed THEN Answer(t, from, "refused", "done")
       ELSE /\ Goto(t, from, IF op[t] = "read" THEN "receive" ELSE "allocate")
            /\ UNCHANGED res
  /\ UNCHANGED <<handle, data, running, op>>

(* ERROR_HANDLE_EOF: os.ErrClosed, of a device nobody closed. *)
DeviceLost(t) ==
  /\ lost
  /\ \E from \in {"receive", "allocate"} : Answer(t, from, "refused", "done")
  /\ UNCHANGED <<handle, data, running, op>>

(* Every other error, and a packet Write turns down before it allocates. *)
Reject(t) ==
  /\ \E from \in {"receive", "allocate"} : Answer(t, from, "failed", "done")
  /\ UNCHANGED <<handle, data, running, op>>

Receive(t) ==
  /\ ~lost /\ ring # <<>>
  /\ Goto(t, "receive", "copy")
  /\ slot' = [slot EXCEPT ![t] = Head(ring)]
  /\ ring' = Tail(ring)
  /\ UNCHANGED <<handle, event, lost, memory, got, running, op, res>>

NoMoreItems(t) ==
  /\ ~lost /\ ring = <<>>
  /\ Goto(t, "receive", "wait")
  /\ UNCHANGED <<handle, data, running, op, res>>

(* WaitForSingleObject returns: goto retry. *)
WakeUp(t) ==
  /\ event
  /\ event' = FALSE
  /\ Goto(t, "wait", "recheck")
  /\ UNCHANGED <<handle, lost, ring, memory, slot, got, running, op, res>>

CopyOut(t) ==
  /\ Goto(t, "copy", "release")
  /\ got' = [got EXCEPT ![t] = memory[slot[t]]]
  /\ UNCHANGED <<handle, event, lost, ring, memory, slot, running, op, res>>

(* From here on the driver may fill the slot again. *)
ReleaseReceivePacket(t) ==
  /\ Goto(t, "release", "validate")
  /\ UNCHANGED <<handle, data, running, op, res>>

(* The length is read from the ring, not from the copy, and the packet may *)
(* be longer than the caller's buffer.                                     *)
Validate(t) ==
  /\ pc[t] = "validate"
  /\ \E r \in IF memory[slot[t]] = "good" THEN {"ok", "failed"} ELSE {"failed"} :
       Answer(t, "validate", r, "done")
  /\ slot' = [slot EXCEPT ![t] = NoSlot]
  /\ UNCHANGED <<handle, event, lost, ring, memory, got, running, op>>

AllocateSendPacket(t) ==
  /\ ~lost
  /\ Goto(t, "allocate", "send")
  /\ UNCHANGED <<handle, data, running, op, res>>

(* Mutant: Write lets the error of the ring through. *)
RingFullOverflow(t) ==
  /\ ~lost
  /\ Answer(t, "allocate", "overflow", "done")
  /\ UNCHANGED <<handle, data, running, op>>

(* ERROR_BUFFER_OVERFLOW: Write answers (0, nil). *)
RingFull(t) ==
  /\ ~lost
  /\ Answer(t, "allocate", "nothing", "done")
  /\ UNCHANGED <<handle, data, running, op>>

SendPacket(t) ==
  /\ Answer(t, "send", "ok", "done")
  /\ UNCHANGED <<handle, data, running, op>>

(* The call's variables go with it. *)
Return(t) ==
  /\ Answer(t, "return", "failed", "idle")
  /\ op' = [op EXCEPT ![t] = "none"]
  /\ got' = [got EXCEPT ![t] = "bad"]
  /\ UNCHANGED <<handle, event, lost, ring, memory, slot, running>>

-----------------------------------------------------------------------------
(* Close *)

SwapClosed(t) ==
  /\ IF closed THEN Answer(t, "swap", "refused", "return")
               ELSE Goto(t, "swap", "signal") /\ UNCHANGED res
  /\ closed' = TRUE
  /\ UNCHANGED <<panicked, session, adapter, data, running, op>>

(* Mutant: the sleeping reader is not woken. *)
SetNoEvent(t) ==
  /\ Goto(t, "signal", "waitgroup")
  /\ UNCHANGED <<handle, data, running, op, res>>

SetEvent(t) ==
  /\ Goto(t, "signal", "waitgroup")
  /\ event' = TRUE
  /\ UNCHANGED <<handle, lost, ring, memory, slot, got, running, op, res>>

EndSession(t) ==
  /\ Goto(t, "end", "adapter")
  /\ session' = FALSE
  /\ UNCHANGED <<closed, panicked, adapter, data, running, op, res>>

CloseAdapter(t) ==
  /\ \E r \in {"ok", "failed"} : Answer(t, "adapter", r, "return")
  /\ adapter' = FALSE
  /\ UNCHANGED <<closed, panicked, session, data, running, op>>

-----------------------------------------------------------------------------
(* The driver *)

PacketArrives ==
  /\ session /\ ~lost
  /\ \E s \in Free, p \in Incoming :
       /\ memory' = [memory EXCEPT ![s] = p]
       /\ ring' = Append(ring, s)
  /\ event' = TRUE
  /\ UNCHANGED <<handle, lost, slot, got, running, op, pc, res>>

(* The driver stops the rings and wakes who waits on them. *)
LoseDevice ==
  /\ session
  /\ lost' = TRUE
  /\ event' = TRUE
  /\ UNCHANGED <<handle, ring, memory, slot, got, running, op, pc, res>>

(* What a goroutine does next once its call has begun. *)
Advance(t) ==
  \/ Add(t) \/ CheckClosed(t) \/ DeviceLost(t)
  \/ Receive(t) \/ NoMoreItems(t) \/ WakeUp(t)
  \/ CopyOut(t) \/ ReleaseReceivePacket(t) \/ Validate(t)
  \/ AllocateSendPacket(t) \/ SendPacket(t)
  \/ Done(t) \/ WakeWaiter(t) \/ Return(t)
  \/ SwapClosed(t) \/ SetEvent(t) \/ WaitGroupWait(t) \/ WaitReturns(t)
  \/ EndSession(t) \/ CloseAdapter(t)

Work ==
  \/ \E t \in Threads :
       \/ \E o \in Transfers \cup {"close"} : Call(t, o)
       \/ Advance(t) \/ Reject(t) \/ RingFull(t)
  \/ PacketArrives \/ LoseDevice

Crashed == panicked /\ UNCHANGED vars

Next == \/ ~panicked /\ Work
        \/ Crashed

Spec == Init /\ [][Next]_vars

(* A goroutine that can take a step takes one in the end. *)
Fairness == \A t \in Threads : WF_vars(~panicked /\ Advance(t))

FairSpec == Spec /\ Fairness

-----------------------------------------------------------------------------
(* Properties *)

InSession == {"receive", "wait", "copy", "release", "validate", "allocate",
              "send"}

(* No goroutine is inside the session, asleep on its event or looking at    *)
(* ring memory once the session has ended, whose memory is then unmapped:   *)
(* not even when the WaitGroup was misused on the way.                      *)
SessionAlive ==
  \A t \in Threads : pc[t] \in InSession => session /\ adapter

(* A slot is never in the hands of two Reads, nor of a Read and the driver, *)
(* until the Read has copied it.                                            *)
SlotsNotShared ==
  \A t \in Threads : pc[t] \in {"copy", "release"} =>
    /\ \A u \in Threads \ {t} : pc[u] \in {"copy", "release"} => slot[u] # slot[t]
    /\ \A i \in 1..Len(ring) : ring[i] # slot[t]

(* What Read copies is what the driver delivered: the memory it borrows     *)
(* does not change until it has been copied, whatever packets come in.      *)
CopyIsStable ==
  [][\A t \in Threads : pc[t] = "copy" => memory'[slot[t]] = memory[slot[t]]]_vars

(* The WaitGroup panics only while the device is being closed.  (It can     *)
(* then: by a Read or Write that starts while Close waits for the last one  *)
(* to leave.)                                                               *)
PanicOnlyInClose == panicked => closed /\ adapter

(* The device is a Tun handle.  A full send ring counts as a failure: the   *)
(* packet does not cross.                                                   *)
life == IF ~closed THEN "open" ELSE IF adapter THEN "closing" ELSE "closed"

Stage(p, r) ==
  CASE p = "idle"                         -> "idle"
    [] p \in {"add", "check", "swap"}     -> "called"
    [] p \in {"done", "notify", "return"} -> IF r = "nothing" THEN "failed" ELSE r
    [] OTHER                              -> "admitted"

st == [t \in Threads |-> Stage(pc[t], res[t])]

Handle == INSTANCE TunHandle WITH kept <- FALSE

RefinesHandle == Handle!Spec

(* Close waits for calls that began after it too, only to be refused, and   *)
(* if those keep coming and overlap the count never reaches zero.  What     *)
(* follows holds once the callers give up.                                  *)
LateCallsGoOn == []<><<closed /\ \E t \in Threads : Add(t)>>_vars

(* The event wakes one sleeper.  Of several readers the others sleep on,    *)
(* and Close with them.                                                     *)
Overslept ==
  \E t, u \in Threads : pc[t] = "asleep" /\ pc[u] = "wait" /\ ~event

(* Nothing else keeps Close from coming back but a panic.                   *)
CloseReturns ==
  \/ LateCallsGoOn
  \/ \A t \in Threads :
       op[t] = "close" ~> op[t] = "none" \/ panicked \/ Overslept

(* A reader that is alone cannot be missed: if at most one sleeps, or is    *)
(* about to, when Close sets the event, Close comes back.                   *)
AtMostOneSleeper ==
  \A u, v \in Readers :
    pc[u] \in {"receive", "wait"} /\ pc[v] \in {"receive", "wait"} => u = v

SoleReaderIsWoken ==
  \/ LateCallsGoOn
  \/ \A t \in Threads :
       pc[t] = "signal" /\ AtMostOneSleeper ~> op[t] = "none" \/ panicked

(* tun_windows.go:117: a Read that succeeds hands over a packet whose       *)
(* length field agrees with its size.                                       *)
OkReadIsValid ==
  \A t \in Threads :
    op[t] = "read" /\ pc[t] = "done" /\ res[t] = "ok" => got[t] = "good"
=============================================================================
