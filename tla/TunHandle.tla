----------------------------- MODULE TunHandle -----------------------------
(***************************************************************************)
(* What a Tun promises to the goroutines that share it, on every platform. *)
(*                                                                         *)
(* NewTun returns an io.ReadWriteCloser.  Its Read, Write and Close may be *)
(* called from many goroutines at once.  The handle goes through three     *)
(* stages: open, closing (one Close has won and is shutting down) and      *)
(* closed (that Close has released the device).  A Read or Write is        *)
(* admitted while the handle is open; only an admitted call can move a     *)
(* packet, and once the handle is closed none does so but a Read that      *)
(* finds one kept.  A call that comes too late is refused with             *)
(* os.ErrClosed.                                                           *)
(*                                                                         *)
(* UnixTun, WinTun and SolarisTun are shown to implement this              *)
(* specification.  kept is a fact of theirs that it only looks at.         *)
(***************************************************************************)

CONSTANT Threads            \* the goroutines that use one handle

VARIABLES
  life,                     \* "open", "closing" or "closed"
  lost,                     \* the device went away under an open handle
  kept,                     \* a packet is on this side of the device already
  op,                       \* op[t]: the method t is running
  st                        \* st[t]: how far that call has come

vars == <<life, lost, op, st>>

Ops     == {"read", "write", "close"}
Results == {"ok", "failed", "refused"}

TypeOK ==
  /\ life \in {"open", "closing", "closed"}
  /\ lost \in BOOLEAN /\ kept \in BOOLEAN
  /\ op \in [Threads -> Ops \cup {"none"}]
  /\ st \in [Threads -> {"idle", "called", "admitted"} \cup Results]

Init ==
  /\ life = "open"
  /\ lost = FALSE
  /\ op = [t \in Threads |-> "none"]
  /\ st = [t \in Threads |-> "idle"]

Step(t, from, to) == st[t] \in from /\ st' = [st EXCEPT ![t] = to]

(* A goroutine calls a method. *)
Call(t, o) ==
  /\ Step(t, {"idle"}, "called")
  /\ op' = [op EXCEPT ![t] = o]
  /\ UNCHANGED <<life, lost>>

(* A Read or Write is let through, which only an open handle does. *)
Admit(t) ==
  /\ op[t] # "close"
  /\ life = "open"
  /\ Step(t, {"called"}, "admitted")
  /\ UNCHANGED <<life, lost, op>>

(* One packet crosses the handle. *)
Transfer(t) ==
  /\ op[t] # "close"
  /\ life # "closed" \/ (op[t] = "read" /\ kept)
  /\ Step(t, {"admitted"}, "ok")
  /\ UNCHANGED <<life, lost, op>>

(* An admitted call ends without moving a packet, for a reason of its own. *)
Fail(t) ==
  /\ op[t] # "close"
  /\ Step(t, {"admitted"}, "failed")
  /\ UNCHANGED <<life, lost, op>>

(* os.ErrClosed. *)
Refuse(t) ==
  /\ life # "open" \/ lost
  /\ Step(t, IF op[t] = "close" THEN {"called"} ELSE {"called", "admitted"},
          "refused")
  /\ UNCHANGED <<life, lost, op>>

(* The first Close wins the right to shut the handle down. *)
StartClose(t) ==
  /\ op[t] = "close"
  /\ life = "open"
  /\ life' = "closing"
  /\ Step(t, {"called"}, "admitted")
  /\ UNCHANGED <<lost, op>>

(* The winner has released the device; releasing it may report an error. *)
FinishClose(t) ==
  /\ op[t] = "close"
  /\ life = "closing"
  /\ life' = "closed"
  /\ Step(t, {"admitted"}, "ok") \/ Step(t, {"admitted"}, "failed")
  /\ UNCHANGED <<lost, op>>

Return(t) ==
  /\ Step(t, Results, "idle")
  /\ op' = [op EXCEPT ![t] = "none"]
  /\ UNCHANGED <<life, lost>>

LoseDevice == lost' = TRUE /\ UNCHANGED <<life, op, st>>

Next ==
  \/ \E t \in Threads :
       \/ \E o \in Ops : Call(t, o)
       \/ Admit(t) \/ Transfer(t) \/ Fail(t) \/ Refuse(t)
       \/ StartClose(t) \/ FinishClose(t) \/ Return(t)
  \/ LoseDevice

Spec == Init /\ [][Next]_vars
=============================================================================
