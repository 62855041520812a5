------------------------------- MODULE WinOpen -------------------------------
(***************************************************************************)
(* The life of a Windows device around its Reads and Writes: NewTun, the   *)
(* adapter and the session it opens, Close, and the finalizer; and, under  *)
(* each of those calls, the lazy loading of wintun.dll and of its          *)
(* procedures, which all goroutines share.                                 *)
(*                                                                         *)
(* A goroutine has one device at a time.  wintun.dll is external: what it  *)
(* exports is unknown, it may fail to load, and its calls may fail.        *)
(***************************************************************************)
EXTENDS Naturals

CONSTANTS
  Threads, NoThread,
  Libraries                 \* what a wintun.dll may export

ASSUME ThreadsAssumption == NoThread \notin Threads

VARIABLES
  exports,                  \* the procedures of the wintun.dll there is
  module,                   \* lazyDLL.module is set
  loads,                    \* how often LoadLibraryEx has given a handle
  dllLock,                  \* lazyDLL.mu
  addr,                     \* addr[p]: lazyProc.addr is set
  procLock,                 \* procLock[p]: lazyProc.mutex
  stage, pc,                \* of each goroutine: the call, its place in Find
  adapter, session,         \* of its device
  finalizer,                \* closeAdapter is set as finalizer
  panicked

dll    == <<module, loads, dllLock, addr, procLock>>
device == <<adapter, session, finalizer>>
vars   == <<exports, dll, stage, pc, device, panicked>>

(* The procedure each call needs. *)
ProcOf ==
  [open |-> "OpenAdapter", create |-> "CreateAdapter", start |-> "StartSession",
   event |-> "GetReadWaitEvent", luid |-> "GetAdapterLUID", end |-> "EndSession",
   close |-> "CloseAdapter", undo |-> "CloseAdapter", finalize |-> "CloseAdapter"]

Calls == DOMAIN ProcOf
Procs == {ProcOf[c] : c \in Calls}

ASSUME LibrariesAssumption == Libraries \subseteq SUBSET Procs

(* Mutant: OpenAdapter goes straight to Addr. *)
CarefulLater == {"create", "close", "undo"}

(* The calls that have their procedure found first and give its error to    *)
(* the caller; the others panic in lazyProc.Addr.                           *)
Careful == {"open", "create", "close", "undo"}

Init ==
  /\ exports \in Libraries
  /\ module = FALSE /\ loads = 0 /\ dllLock = NoThread
  /\ addr = [p \in Procs |-> FALSE]
  /\ procLock = [p \in Procs |-> NoThread]
  /\ stage = [t \in Threads |-> "none"] /\ pc = [t \in Threads |-> "idle"]
  /\ adapter = [t \in Threads |-> "none"]
  /\ session = [t \in Threads |-> FALSE]
  /\ finalizer = [t \in Threads |-> FALSE]
  /\ panicked = FALSE

proc(t) == ProcOf[stage[t]]

Goto(t, from, to) == pc[t] = from /\ pc' = [pc EXCEPT ![t] = to]

(* The goroutine goes on to the next call, or has none to make. *)
Enter(t, s) ==
  /\ stage' = [stage EXCEPT ![t] = s]
  /\ pc' = [pc EXCEPT ![t] = IF s \in Calls THEN "find" ELSE "idle"]

-----------------------------------------------------------------------------
(* lazyProc.Find, lazyDLL.Load *)

FindSet(t) ==
  /\ Goto(t, "find", IF addr[proc(t)] THEN "call" ELSE "lock")
  /\ UNCHANGED <<exports, dll, stage, device, panicked>>

(* The mutex is taken, and what it guards looked at again. *)
LockProc(t) ==
  /\ pc[t] = "lock" /\ procLock[proc(t)] = NoThread
  /\ IF addr[proc(t)]
     THEN Goto(t, "lock", "call") /\ UNCHANGED procLock
     ELSE Goto(t, "lock", "load") /\ procLock' = [procLock EXCEPT ![proc(t)] = t]
  /\ UNCHANGED <<exports, module, loads, dllLock, addr, stage, device, panicked>>

LoadSet(t) ==
  /\ Goto(t, "load", IF module THEN "address" ELSE "lockdll")
  /\ UNCHANGED <<exports, dll, stage, device, panicked>>

(* Mutant: the handle is not looked at again. *)
LockDllOnly(t) ==
  /\ dllLock = NoThread
  /\ Goto(t, "lockdll", "library") /\ dllLock' = t
  /\ UNCHANGED <<exports, module, loads, addr, procLock, stage, device, panicked>>

LockDll(t) ==
  /\ dllLock = NoThread
  /\ IF module THEN Goto(t, "lockdll", "address") /\ UNCHANGED dllLock
               ELSE Goto(t, "lockdll", "library") /\ dllLock' = t
  /\ UNCHANGED <<exports, module, loads, addr, procLock, stage, device, panicked>>

(* Mutant: it is tried again until it works. *)
NotFoundYet(t) ==
  /\ procLock' = [procLock EXCEPT ![proc(t)] = NoThread]
  /\ Enter(t, stage[t])
  /\ UNCHANGED <<addr, device, panicked>>

(* Find has failed, its mutexes are free again. *)
NotFound(t) ==
  /\ procLock' = [procLock EXCEPT ![proc(t)] = NoThread]
  /\ panicked' = (stage[t] \notin Careful)
  /\ CASE stage[t] = "open"               -> Enter(t, "create")
       [] stage[t] \in {"create", "undo"}  -> Enter(t, "failed")
       [] stage[t] = "close"              -> Enter(t, "closed")
       [] OTHER                           -> Enter(t, "panic")
  /\ UNCHANGED <<addr, device>>

LoadLibrary(t) ==
  /\ pc[t] = "library"
  /\ dllLock' = NoThread
  /\ \/ /\ module' = TRUE /\ loads' = loads + 1
        /\ Goto(t, "library", "address")
        /\ UNCHANGED <<procLock, addr, stage, device, panicked>>
     \/ NotFound(t) /\ UNCHANGED <<module, loads>>
  /\ UNCHANGED exports

GetProcAddress(t) ==
  /\ pc[t] = "address"
  /\ IF proc(t) \in exports
     THEN /\ addr' = [addr EXCEPT ![proc(t)] = TRUE]
          /\ procLock' = [procLock EXCEPT ![proc(t)] = NoThread]
          /\ Goto(t, "address", "call")
          /\ UNCHANGED <<stage, device, panicked>>
     ELSE NotFound(t)
  /\ UNCHANGED <<exports, module, loads, dllLock>>

-----------------------------------------------------------------------------
(* The calls *)

AtCall(t, s) == pc[t] = "call" /\ stage[t] = s

(* NewTun.  checkWintunConfig or the conversion of a name may turn it down. *)
Begin(t) ==
  /\ stage[t] \in {"none", "failed", "closed", "gone"} /\ ~finalizer[t]
  /\ \E s \in {"open", "failed"} : Enter(t, s)
  /\ adapter' = [adapter EXCEPT ![t] = "none"]
  /\ session' = [session EXCEPT ![t] = FALSE]
  /\ UNCHANGED <<exports, dll, finalizer, panicked>>

(* OpenAdapter; if there is none of that name, CreateAdapter. *)
GetAdapter(t) ==
  /\ \/ AtCall(t, "open") /\ Enter(t, "create") /\ UNCHANGED <<adapter, finalizer>>
     \/ AtCall(t, "create") /\ Enter(t, "failed") /\ UNCHANGED <<adapter, finalizer>>
     \/ /\ AtCall(t, "open") \/ AtCall(t, "create")
        /\ Enter(t, "start")
        /\ adapter' = [adapter EXCEPT ![t] = "open"]
        /\ finalizer' = [finalizer EXCEPT ![t] = TRUE]
  /\ UNCHANGED <<exports, dll, session, panicked>>

(* Mutant: the adapter is left to the finalizer. *)
StartSessionOnly(t) ==
  /\ AtCall(t, "start")
  /\ \/ Enter(t, "event") /\ session' = [session EXCEPT ![t] = TRUE]
     \/ Enter(t, "failed") /\ UNCHANGED session
  /\ UNCHANGED <<exports, dll, adapter, finalizer, panicked>>

StartSession(t) ==
  /\ AtCall(t, "start")
  /\ \/ Enter(t, "event") /\ session' = [session EXCEPT ![t] = TRUE]
     \/ Enter(t, "undo") /\ UNCHANGED session
  /\ UNCHANGED <<exports, dll, adapter, finalizer, panicked>>

(* The device is handed out. *)
ReadWaitEvent(t) ==
  /\ AtCall(t, "event")
  /\ Enter(t, "using")
  /\ UNCHANGED <<exports, dll, device, panicked>>

(* LUID, which does not look whether the device was closed. *)
AskLUID(t) ==
  /\ stage[t] \in {"using", "closed"} /\ adapter[t] # "none"
  /\ Enter(t, "luid")
  /\ UNCHANGED <<exports, dll, device, panicked>>

LUID(t) ==
  /\ AtCall(t, "luid")
  /\ Enter(t, IF session[t] THEN "using" ELSE "closed")
  /\ UNCHANGED <<exports, dll, device, panicked>>

(* Mutant: the adapter is closed and the session forgotten. *)
CloseUnended(t) ==
  /\ stage[t] = "using"
  /\ Enter(t, "close")
  /\ UNCHANGED <<exports, dll, device, panicked>>

(* The Close that wins, once the running calls have left. *)
Close(t) ==
  /\ stage[t] = "using"
  /\ Enter(t, "end")
  /\ UNCHANGED <<exports, dll, device, panicked>>

EndSession(t) ==
  /\ AtCall(t, "end")
  /\ Enter(t, "close")
  /\ session' = [session EXCEPT ![t] = FALSE]
  /\ UNCHANGED <<exports, dll, adapter, finalizer, panicked>>

AfterClose == [close |-> "closed", undo |-> "failed", finalize |-> "gone"]

(* Mutant: the finalizer stays. *)
CloseAdapterOnly(t) ==
  /\ \E s \in DOMAIN AfterClose : AtCall(t, s)
  /\ Enter(t, AfterClose[stage[t]])
  /\ adapter' = [adapter EXCEPT ![t] = "closed"]
  /\ finalizer' = [finalizer EXCEPT ![t] = finalizer[t] /\ stage[t] # "finalize"]
  /\ UNCHANGED <<exports, dll, session, panicked>>

(* Adapter.Close, which takes the finalizer away, or the finalizer itself.  *)
CloseAdapter(t) ==
  /\ \E s \in DOMAIN AfterClose : AtCall(t, s)
  /\ Enter(t, AfterClose[stage[t]])
  /\ adapter' = [adapter EXCEPT ![t] = "closed"]
  /\ finalizer' = [finalizer EXCEPT ![t] = FALSE]
  /\ UNCHANGED <<exports, dll, session, panicked>>

(* The collector finds an adapter nobody can reach: of a device that was    *)
(* dropped open, or one that Adapter.Close could not close.                 *)
Collect(t) ==
  /\ stage[t] \in {"using", "failed", "closed"} /\ finalizer[t]
  /\ Enter(t, "finalize")
  /\ UNCHANGED <<exports, dll, device, panicked>>

Advance(t) ==
  \/ FindSet(t) \/ LoadSet(t) \/ LoadLibrary(t) \/ GetProcAddress(t)
  \/ GetAdapter(t) \/ StartSession(t) \/ ReadWaitEvent(t) \/ LUID(t)
  \/ EndSession(t) \/ CloseAdapter(t)

Work == \E t \in Threads :
  \/ Begin(t) \/ AskLUID(t) \/ Close(t) \/ Collect(t)
  \/ Advance(t) \/ LockProc(t) \/ LockDll(t)

Crashed == panicked /\ UNCHANGED vars

Next == \/ ~panicked /\ Work
        \/ Crashed

Spec == Init /\ [][Next]_vars

(* Runnable goroutines run; a sync.Mutex does not starve a waiter. *)
Fairness ==
  \A t \in Threads :
    /\ WF_vars(~panicked /\ Advance(t))
    /\ SF_vars(~panicked /\ LockProc(t)) /\ SF_vars(~panicked /\ LockDll(t))

FairSpec == Spec /\ Fairness

-----------------------------------------------------------------------------
(* Properties *)

(* However many goroutines open their first device at once, wintun.dll is   *)
(* loaded once, and a procedure has an address only from that handle.       *)
LoadedOnce == loads <= 1 /\ \A p \in Procs : addr[p] => module /\ p \in exports

(* A call finds its adapter open, so that none is closed twice, by Close    *)
(* and by the finalizer, but for a LUID after Close; and an adapter is not  *)
(* left open by a NewTun that failed or a Close, but for want of            *)
(* WintunCloseAdapter.  Close and NewTun close no adapter under a session   *)
(* that runs; only the finalizer does, of a device that was dropped open.   *)
AdapterSound ==
  \A t \in Threads :
    /\ /\ pc[t] = "call" /\ stage[t] \notin {"open", "create"}
       /\ ~(stage[t] = "luid" /\ ~session[t])
       => adapter[t] = "open"
    /\ stage[t] \in {"failed", "closed"} /\ adapter[t] = "open" =>
         "CloseAdapter" \notin exports
    /\ adapter[t] = "closed" /\ session[t] => stage[t] = "gone"

(* NewTun, Close and LUID panic only with a wintun.dll that lacks one of    *)
(* the procedures: one that cannot be loaded is reported as an error.       *)
PanicNeedsMissingProc == panicked => exports # Procs

(* No goroutine is left in a call: the two mutexes are given back on every  *)
(* way out, and always taken in one order.                                  *)
CallsReturn ==
  \A t \in Threads : stage[t] \in Calls ~> stage[t] \notin Calls \/ panicked
=============================================================================
