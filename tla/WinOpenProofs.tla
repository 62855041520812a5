---------------------------- MODULE WinOpenProofs ----------------------------
(***************************************************************************)
(* Proofs about WinOpen, for any number of goroutines and whatever a       *)
(* wintun.dll exports: the library is loaded once, a missing procedure is  *)
(* what it takes to panic, and an adapter is closed once.                  *)
(***************************************************************************)
EXTENDS WinOpen, TLAPS

Stages == Calls \cup {"none", "failed", "using", "closed", "gone", "panic"}
Places == {"idle", "find", "lock", "load", "lockdll", "library", "address", "call"}

TypeOK ==
  /\ exports \subseteq Procs
  /\ module \in BOOLEAN /\ loads \in Nat /\ panicked \in BOOLEAN
  /\ addr \in [Procs -> BOOLEAN]
  /\ procLock \in [Procs -> Threads \cup {NoThread}]
  /\ stage \in [Threads -> Stages] /\ pc \in [Threads -> Places]
  /\ adapter \in [Threads -> {"none", "open", "closed"}]
  /\ session \in [Threads -> BOOLEAN]
  /\ finalizer \in [Threads -> BOOLEAN]

(* A goroutine is somewhere in Find, or ready to call, exactly when it has a *)
(* call to make.                                                            *)
InCall == \A t \in Threads : pc[t] # "idle" <=> stage[t] \in Calls

(* The library: who loads it holds its lock, and finds it not loaded; an    *)
(* address comes from it.                                                   *)
Library ==
  /\ loads = IF module THEN 1 ELSE 0
  /\ \A p \in Procs : addr[p] => module /\ p \in exports
  /\ \A t \in Threads :
       /\ pc[t] = "library" => dllLock = t /\ ~module
       /\ pc[t] = "address" => module
       /\ pc[t] = "call" => addr[proc(t)]
       /\ adapter[t] # "none" => module

(* The stages in which the device has an adapter, and it is open. *)
Holding == {"start", "event", "using", "end", "close", "undo", "finalize"}

(* The stages in which the device has no session: not yet, or no more. *)
Sessionless == {"none", "open", "create", "start", "undo", "failed", "close", "closed"}

(* The device: the finalizer is there for open adapters only, where an open *)
(* one is left behind WintunCloseAdapter is missing, and where a closed one *)
(* has a session the finalizer has closed it.                               *)
Device ==
  \A t \in Threads :
    /\ finalizer[t] => adapter[t] = "open"
    /\ stage[t] \in {"none", "open", "create"} => adapter[t] = "none"
    /\ stage[t] \in Holding => adapter[t] = "open"
    /\ stage[t] \in {"event", "using"} => session[t]
    /\ stage[t] \in Sessionless => session[t] = FALSE
    /\ adapter[t] = "closed" /\ session[t] => stage[t] = "gone"
    /\ stage[t] = "luid" => adapter[t] # "none"
    /\ stage[t] = "luid" /\ session[t] => adapter[t] = "open"
    /\ /\ stage[t] \in {"failed", "closed"} \/ (stage[t] = "luid" /\ ~session[t])
       /\ adapter[t] = "open"
       => "CloseAdapter" \notin exports

IInv == TypeOK /\ InCall /\ Library /\ Device /\ PanicNeedsMissingProc

-----------------------------------------------------------------------------
(* What the table of procedures says. *)
LEMMA CallFacts ==
  /\ Calls = {"open", "create", "start", "event", "luid", "end", "close",
              "undo", "finalize"}
  /\ \A c \in Calls : ProcOf[c] \in Procs
  /\ \A c \in {"close", "undo", "finalize"} : ProcOf[c] = "CloseAdapter"
  /\ DOMAIN AfterClose = {"close", "undo", "finalize"}
  /\ AfterClose["close"] = "closed" /\ AfterClose["undo"] = "failed"
  /\ AfterClose["finalize"] = "gone"
  /\ Careful \subseteq Calls
BY DEF Calls, Procs, ProcOf, AfterClose, Careful

LEMMA EnterKeeps ==
  ASSUME TypeOK, InCall, NEW t \in Threads, NEW s \in Stages, Enter(t, s)
  PROVE  /\ stage' \in [Threads -> Stages] /\ pc' \in [Threads -> Places]
         /\ InCall'
         /\ stage'[t] = s /\ pc'[t] \in {"idle", "find"}
         /\ \A u \in Threads \ {t} : stage'[u] = stage[u] /\ pc'[u] = pc[u]
BY CallFacts DEF Enter, TypeOK, InCall, Stages, Places

LEMMA GotoKeeps ==
  ASSUME TypeOK, InCall, NEW t \in Threads, NEW from, from # "idle",
         NEW to \in Places \ {"idle"}, Goto(t, from, to), stage' = stage
  PROVE  /\ stage' \in [Threads -> Stages] /\ pc' \in [Threads -> Places]
         /\ InCall'
         /\ stage[t] \in Calls /\ proc(t) \in Procs /\ pc'[t] = to
         /\ \A u \in Threads \ {t} : pc'[u] = pc[u]
BY CallFacts DEF Goto, TypeOK, InCall, Stages, Places, proc

LEMMA InitOK == Init => IInv
<1> SUFFICES ASSUME Init PROVE IInv
  OBVIOUS
<1> USE DEF Init
<1>1. TypeOK
  BY LibrariesAssumption DEF TypeOK, Stages, Places
<1>2. InCall
  BY CallFacts DEF InCall
<1>3. Library
  BY DEF Library
<1>4. Device /\ PanicNeedsMissingProc
  BY DEF Device, Holding, PanicNeedsMissingProc
<1>5. QED
  BY <1>1, <1>2, <1>3, <1>4 DEF IInv

-----------------------------------------------------------------------------
(* Find and Load: nothing the device is made of changes. *)
LEMMA FindStep ==
  ASSUME IInv, NEW t \in Threads,
         FindSet(t) \/ LockProc(t) \/ LoadSet(t) \/ LockDll(t)
  PROVE  IInv'
<1> USE DEF IInv
<1>1. PICK from, to :
        /\ from # "idle" /\ to \in Places \ {"idle"} /\ Goto(t, from, to)
        /\ to = "library" => ~module /\ dllLock' = t
        /\ to = "address" => module
        /\ to = "call" => addr[proc(t)]
        /\ \/ dllLock' = dllLock
           \/ \A u \in Threads : pc[u] # "library"
  <2>1. CASE FindSet(t)
    BY <2>1 DEF FindSet, dll, Places
  <2>2. CASE LockProc(t)
    BY <2>2 DEF LockProc, Places
  <2>3. CASE LoadSet(t)
    BY <2>3 DEF LoadSet, dll, Places
  <2>4. CASE LockDll(t)
    BY <2>4, ThreadsAssumption DEF LockDll, Places, Library
  <2>5. QED
    BY <2>1, <2>2, <2>3, <2>4
<1>2. /\ UNCHANGED <<exports, module, loads, addr, stage, device, panicked>>
      /\ procLock' = procLock \/ procLock' = [procLock EXCEPT ![proc(t)] = t]
  BY DEF FindSet, LockProc, LoadSet, LockDll, dll
<1>3. TypeOK' /\ InCall'
  BY <1>1, <1>2, GotoKeeps DEF TypeOK, device
<1>4. Library'
  BY <1>1, <1>2, GotoKeeps DEF Library, device, proc
<1>5. Device' /\ PanicNeedsMissingProc'
  BY <1>2 DEF Device, PanicNeedsMissingProc, device
<1>6. QED
  BY <1>3, <1>4, <1>5

(* Find fails: a panic needs a procedure that is not there, since whoever   *)
(* would panic has an adapter, and with it the library.                     *)
LEMMA FailStep ==
  ASSUME IInv, NEW t \in Threads, pc[t] \in {"library", "address"}, NotFound(t),
         pc[t] = "address" => proc(t) \notin exports,
         dllLock' = IF pc[t] = "library" THEN NoThread ELSE dllLock,
         UNCHANGED <<exports, module, loads>>
  PROVE  IInv'
<1> USE DEF IInv
<1>1. stage[t] \in Calls /\ proc(t) \in Procs
  BY CallFacts DEF InCall, proc
<1>2. PICK s \in {"create", "failed", "closed", "panic"} :
        /\ Enter(t, s)
        /\ s = "create" => stage[t] = "open"
        /\ s = "failed" => stage[t] \in {"create", "undo"}
        /\ s = "closed" => stage[t] = "close"
        /\ s = "panic" => stage[t] \notin Careful
  BY DEF NotFound, Careful
<1>3. /\ UNCHANGED <<addr, adapter, session, finalizer>>
      /\ procLock' = [procLock EXCEPT ![proc(t)] = NoThread]
      /\ panicked' = (stage[t] \notin Careful)
  BY DEF NotFound, device
<1>4. s \in Stages /\ InCall /\ TypeOK
  BY <1>2, CallFacts DEF Stages
<1>5. TypeOK' /\ InCall'
  BY <1>1, <1>2, <1>3, <1>4, EnterKeeps DEF TypeOK
<1>6. Library'
  <2>1. \A u \in Threads \ {t} : pc[u] = "library" => pc[t] # "library"
    BY ThreadsAssumption DEF Library
  <2>2. \A u \in Threads \ {t} : proc(u)' = proc(u) /\ pc'[u] = pc[u]
    BY <1>2, <1>4, EnterKeeps DEF proc
  <2>3. pc'[t] \in {"idle", "find"}
    BY <1>2, <1>4, EnterKeeps
  <2>4. QED
    BY <1>3, <2>1, <2>2, <2>3 DEF Library
<1>7. adapter[t] = "open" => proc(t) \notin exports
  BY DEF Library
<1>8. Device'
  <2>1. stage'[t] = s /\ \A u \in Threads \ {t} : stage'[u] = stage[u]
    BY <1>2, <1>4, EnterKeeps
  <2>2. stage[t] \in {"undo", "close"} => "CloseAdapter" \notin exports
    BY <1>7, CallFacts DEF Device, Holding, proc
  <2>3. /\ stage[t] \in {"open", "create", "undo", "close"} => session[t] = FALSE
        /\ ~(adapter[t] = "closed" /\ session[t])
    BY <1>1, CallFacts DEF Device, Sessionless
  <2>4. QED
    BY <1>2, <1>3, <2>1, <2>2, <2>3 DEF Device, Holding, Sessionless
<1>9. PanicNeedsMissingProc'
  <2>1. SUFFICES ASSUME stage[t] \notin Careful PROVE exports # Procs
    BY <1>3 DEF PanicNeedsMissingProc
  <2>2. adapter[t] # "none"
    BY <1>1, <2>1, CallFacts DEF Device, Holding, Careful
  <2>3. pc[t] = "address"
    BY <2>2 DEF Library
  <2>4. QED
    BY <1>1, <2>3
<1>10. QED
  BY <1>5, <1>6, <1>8, <1>9

LEMMA LoadLibraryStep ==
  ASSUME IInv, NEW t \in Threads, LoadLibrary(t)
  PROVE  IInv'
<1> USE DEF IInv
<1>1. CASE NotFound(t) /\ UNCHANGED <<module, loads>>
  BY <1>1, FailStep DEF LoadLibrary
<1>2. CASE /\ module' = TRUE /\ loads' = loads + 1
           /\ Goto(t, "library", "address")
           /\ UNCHANGED <<procLock, addr, stage, device, panicked>>
  <2>1. ~module /\ loads' = 1
    BY <1>2 DEF Goto, Library
  <2>2. \A u \in Threads \ {t} : pc[u] # "library"
    BY <1>2, ThreadsAssumption DEF Goto, Library
  <2>3. exports' = exports /\ dllLock' = NoThread
    BY DEF LoadLibrary
  <2>4. TypeOK' /\ InCall'
    BY <1>2, <2>1, <2>3, GotoKeeps DEF TypeOK, device, Places
  <2>5. pc'[t] = "address" /\ \A u \in Threads \ {t} : pc'[u] = pc[u]
    BY <1>2, GotoKeeps DEF Places
  <2>6. Library'
    BY <1>2, <2>1, <2>2, <2>3, <2>5 DEF Library, device, proc
  <2>7. QED
    BY <1>2, <2>3, <2>4, <2>6 DEF Device, PanicNeedsMissingProc, device
<1>3. QED
  BY <1>1, <1>2 DEF LoadLibrary

LEMMA GetProcAddressStep ==
  ASSUME IInv, NEW t \in Threads, GetProcAddress(t)
  PROVE  IInv'
<1> USE DEF IInv
<1>1. CASE proc(t) \notin exports
  BY <1>1, FailStep DEF GetProcAddress
<1>2. CASE proc(t) \in exports
  <2>1. /\ addr' = [addr EXCEPT ![proc(t)] = TRUE]
        /\ procLock' = [procLock EXCEPT ![proc(t)] = NoThread]
        /\ Goto(t, "address", "call")
        /\ UNCHANGED <<exports, module, loads, dllLock, stage, device, panicked>>
    BY <1>2 DEF GetProcAddress
  <2>2. module
    BY <2>1 DEF Goto, Library
  <2>3. /\ proc(t) \in Procs /\ pc'[t] = "call"
        /\ \A u \in Threads \ {t} : pc'[u] = pc[u]
    BY <2>1, GotoKeeps DEF Places
  <2>4. TypeOK' /\ InCall'
    BY <2>1, <2>3, GotoKeeps DEF TypeOK, device, Places
  <2>5. Library'
    BY <1>2, <2>1, <2>2, <2>3 DEF Library, TypeOK, device, proc
  <2>6. QED
    BY <2>1, <2>4, <2>5 DEF Device, PanicNeedsMissingProc, device
<1>3. QED
  BY <1>1, <1>2

-----------------------------------------------------------------------------
(* A device's own step: the goroutine enters another stage, and its device  *)
(* takes the values that go with it.                                        *)
LEMMA DeviceStep ==
  ASSUME IInv, NEW t \in Threads, NEW s \in Stages, Enter(t, s),
         UNCHANGED <<exports, dll, panicked>>,
         NEW a \in {"none", "open", "closed"}, NEW b \in BOOLEAN,
         NEW f \in BOOLEAN,
         adapter' = [adapter EXCEPT ![t] = a],
         session' = [session EXCEPT ![t] = b],
         finalizer' = [finalizer EXCEPT ![t] = f],
         a # "none" => module,
         f => a = "open",
         s \in {"none", "open", "create"} => a = "none",
         s \in Holding => a = "open",
         s \in {"event", "using"} => b,
         s \in Sessionless => b = FALSE,
         a = "closed" /\ b => s = "gone",
         s = "luid" => a # "none" /\ (b => a = "open"),
         (s \in {"failed", "closed"} \/ (s = "luid" /\ ~b)) /\ a = "open" =>
           "CloseAdapter" \notin exports
  PROVE  IInv'
<1> USE DEF IInv
<1>1. TypeOK /\ InCall
  OBVIOUS
<1>2. /\ stage'[t] = s /\ pc'[t] \in {"idle", "find"}
      /\ \A u \in Threads \ {t} : stage'[u] = stage[u] /\ pc'[u] = pc[u]
  BY <1>1, EnterKeeps
<1>3. /\ adapter'[t] = a /\ session'[t] = b /\ finalizer'[t] = f
      /\ \A u \in Threads \ {t} :
           adapter'[u] = adapter[u] /\ session'[u] = session[u] /\ finalizer'[u] = finalizer[u]
  BY DEF TypeOK
<1>4. TypeOK' /\ InCall'
  BY <1>1, EnterKeeps DEF TypeOK, dll
<1>5. Library'
  BY <1>2, <1>3 DEF Library, dll, proc
<1>6. Device'
  BY <1>2, <1>3 DEF Device
<1>7. QED
  BY <1>4, <1>5, <1>6 DEF PanicNeedsMissingProc

(* The procedure a goroutine is about to call is there. *)
LEMMA CallHasProc ==
  ASSUME IInv, NEW t \in Threads, pc[t] = "call"
  PROVE  stage[t] \in Calls /\ module /\ proc(t) \in exports
BY CallFacts DEF IInv, InCall, Library, proc

LEMMA NewTunStep ==
  ASSUME IInv, NEW t \in Threads,
         Begin(t) \/ GetAdapter(t) \/ StartSession(t) \/ ReadWaitEvent(t)
  PROVE  IInv'
<1> USE DEF IInv
<1>1. CASE Begin(t)
  <2>1. PICK s \in {"open", "failed"} : Enter(t, s)
    BY <1>1 DEF Begin
  <2>2. /\ adapter' = [adapter EXCEPT ![t] = "none"]
        /\ session' = [session EXCEPT ![t] = FALSE]
        /\ finalizer' = [finalizer EXCEPT ![t] = FALSE]
        /\ UNCHANGED <<exports, dll, panicked>>
    BY <1>1 DEF Begin, TypeOK
  <2>3. s \in Stages /\ s \notin Holding
    BY CallFacts DEF Stages, Holding
  <2>4. QED
    BY <2>1, <2>2, <2>3, DeviceStep
<1>2. CASE GetAdapter(t)
  <2>1. /\ pc[t] = "call" /\ stage[t] \in {"open", "create"}
        /\ UNCHANGED <<exports, dll, session, panicked>>
    BY <1>2 DEF GetAdapter, AtCall
  <2>2. session' = [session EXCEPT ![t] = session[t]] /\ session[t] \in BOOLEAN
    BY <2>1 DEF TypeOK
  <2>3. adapter[t] = "none" /\ ~finalizer[t] /\ module
    BY <2>1, CallHasProc DEF Device
  <2>4. CASE Enter(t, "start")
             /\ adapter' = [adapter EXCEPT ![t] = "open"]
             /\ finalizer' = [finalizer EXCEPT ![t] = TRUE]
    <3>1. "start" \in Stages /\ "start" \in Holding /\ session[t] = FALSE
      BY <2>1, CallFacts DEF Stages, Holding, Device, Sessionless
    <3>2. QED
      BY <2>1, <2>2, <2>3, <2>4, <3>1, DeviceStep
  <2>5. CASE (Enter(t, "create") \/ Enter(t, "failed"))
             /\ UNCHANGED <<adapter, finalizer>>
    <3>1. PICK s \in {"create", "failed"} : Enter(t, s)
      BY <2>5
    <3>2. s \in Stages /\ s \notin Holding /\ session[t] = FALSE
      BY <2>1, CallFacts DEF Stages, Holding, Device, Sessionless
    <3>3. /\ adapter' = [adapter EXCEPT ![t] = "none"]
          /\ finalizer' = [finalizer EXCEPT ![t] = FALSE]
      BY <2>3, <2>5 DEF TypeOK
    <3>4. QED
      BY <2>1, <2>2, <3>1, <3>2, <3>3, DeviceStep
  <2>6. QED
    BY <1>2, <2>4, <2>5 DEF GetAdapter
<1>3. CASE StartSession(t) \/ ReadWaitEvent(t)
  <2>1. /\ pc[t] = "call" /\ stage[t] \in {"start", "event"}
        /\ UNCHANGED <<exports, dll, adapter, finalizer, panicked>>
    BY <1>3 DEF StartSession, ReadWaitEvent, AtCall, device
  <2>2. PICK s \in {"event", "undo", "using"}, b \in BOOLEAN :
          /\ Enter(t, s) /\ session' = [session EXCEPT ![t] = b]
          /\ s # "undo" => b
          /\ s = "undo" => b = FALSE
    BY <1>3 DEF StartSession, ReadWaitEvent, AtCall, device, Device, Sessionless, TypeOK
  <2>3. s \in Stages /\ (s \in Sessionless => s = "undo")
    BY CallFacts DEF Stages, Sessionless
  <2>4. adapter[t] = "open" /\ module
    BY <2>1, CallHasProc DEF Device, Holding
  <2>5. /\ adapter' = [adapter EXCEPT ![t] = "open"]
        /\ finalizer' = [finalizer EXCEPT ![t] = finalizer[t]]
        /\ finalizer[t] \in BOOLEAN
    BY <2>1, <2>4 DEF TypeOK
  <2>6. QED
    BY <2>1, <2>2, <2>3, <2>4, <2>5, DeviceStep
<1>4. QED
  BY <1>1, <1>2, <1>3

LEMMA UseStep ==
  ASSUME IInv, NEW t \in Threads,
         AskLUID(t) \/ LUID(t) \/ Close(t) \/ EndSession(t) \/ Collect(t)
  PROVE  IInv'
<1> USE DEF IInv
<1>1. /\ UNCHANGED <<exports, dll, adapter, finalizer, panicked>>
      /\ adapter' = [adapter EXCEPT ![t] = adapter[t]]
      /\ finalizer' = [finalizer EXCEPT ![t] = finalizer[t]]
      /\ adapter[t] \in {"none", "open", "closed"}
      /\ finalizer[t] \in BOOLEAN /\ session[t] \in BOOLEAN
  BY DEF AskLUID, LUID, Close, EndSession, Collect, device, TypeOK
<1>2. adapter[t] # "none" => module
  BY DEF Library
<1>3. finalizer[t] => adapter[t] = "open"
  BY DEF Device
<1>4. CASE EndSession(t)
  <2>1. /\ stage[t] = "end" /\ Enter(t, "close")
        /\ session' = [session EXCEPT ![t] = FALSE]
    BY <1>4 DEF EndSession, AtCall
  <2>2. adapter[t] = "open" /\ "close" \in Stages
    BY <2>1, CallFacts DEF Device, Holding, Stages
  <2>3. QED
    BY <1>1, <1>2, <1>3, <2>1, <2>2, DeviceStep
<1>5. CASE AskLUID(t) \/ LUID(t) \/ Close(t) \/ Collect(t)
  <2>1. session' = [session EXCEPT ![t] = session[t]]
    BY <1>5 DEF AskLUID, LUID, Close, Collect, device, TypeOK
  <2>2. PICK s \in {"luid", "using", "closed", "end", "finalize"} :
          /\ Enter(t, s)
          /\ s = "luid" => adapter[t] # "none" /\ (session[t] => adapter[t] = "open")
          /\ s = "using" => session[t]
          /\ s = "closed" => session[t] = FALSE
          /\ ~(adapter[t] = "closed" /\ session[t])
          /\ s \in Holding => adapter[t] = "open"
          /\ (s = "closed" \/ (s = "luid" /\ ~session[t])) /\ adapter[t] = "open" =>
               "CloseAdapter" \notin exports
    <3>1. CASE AskLUID(t)
      BY <3>1 DEF AskLUID, Device, Holding, Sessionless
    <3>2. CASE LUID(t)
      BY <1>1, <3>2 DEF LUID, AtCall, Device, Holding, Sessionless
    <3>3. CASE Close(t)
      BY <3>3 DEF Close, Device, Holding, Sessionless
    <3>4. CASE Collect(t)
      BY <1>3, <3>4 DEF Collect, Holding
    <3>5. QED
      BY <1>5, <3>1, <3>2, <3>3, <3>4
  <2>3. s \in Stages /\ (s \in Sessionless => s = "closed")
    BY CallFacts DEF Stages, Sessionless
  <2>4. QED
    BY <1>1, <1>2, <1>3, <2>1, <2>2, <2>3, DeviceStep
<1>6. QED
  BY <1>4, <1>5

LEMMA CloseAdapterStep ==
  ASSUME IInv, NEW t \in Threads, CloseAdapter(t)
  PROVE  IInv'
<1> USE DEF IInv
<1>1. /\ pc[t] = "call" /\ stage[t] \in {"close", "undo", "finalize"}
      /\ Enter(t, AfterClose[stage[t]])
      /\ adapter' = [adapter EXCEPT ![t] = "closed"]
      /\ finalizer' = [finalizer EXCEPT ![t] = FALSE]
      /\ UNCHANGED <<exports, dll, session, panicked>>
  BY CallFacts DEF CloseAdapter, AtCall
<1>2. PICK s \in {"closed", "failed", "gone"} :
        s = AfterClose[stage[t]] /\ (s # "gone" => stage[t] \in {"close", "undo"})
  BY <1>1, CallFacts
<1>3. s \in Stages /\ s \notin Holding /\ (s \in Sessionless => s # "gone")
  BY DEF Stages, Holding, Sessionless
<1>4. session' = [session EXCEPT ![t] = session[t]] /\ session[t] \in BOOLEAN
  BY <1>1 DEF TypeOK
<1>5. module /\ (s # "gone" => session[t] = FALSE)
  BY <1>1, <1>2, CallHasProc DEF Device, Sessionless
<1>6. QED
  BY <1>1, <1>2, <1>3, <1>4, <1>5, DeviceStep

LEMMA InvStep == IInv /\ [Next]_vars => IInv'
<1> SUFFICES ASSUME IInv, [Next]_vars PROVE IInv'
  OBVIOUS
<1>1. CASE UNCHANGED vars
  BY <1>1 DEF vars, dll, device, IInv, TypeOK, InCall, Library, Device,
              PanicNeedsMissingProc, proc
<1>2. ASSUME NEW t \in Threads,
             \/ Begin(t) \/ AskLUID(t) \/ Close(t) \/ Collect(t)
             \/ Advance(t) \/ LockProc(t) \/ LockDll(t)
      PROVE IInv'
  BY <1>2, FindStep, LoadLibraryStep, GetProcAddressStep, NewTunStep, UseStep,
     CloseAdapterStep DEF Advance
<1>3. QED
  BY <1>1, <1>2 DEF Next, Work, Crashed

LEMMA Invariance == Spec => []IInv
BY InitOK, InvStep, PTL DEF Spec

-----------------------------------------------------------------------------
(* lazyDLL.Load, lazyProc.Find: the library is loaded once, and procedures  *)
(* come from it, however many goroutines call.                              *)
THEOREM LibraryLoadedOnce == Spec => []LoadedOnce
<1>1. IInv => LoadedOnce
  BY DEF IInv, Library, LoadedOnce
<1>2. QED
  BY Invariance, <1>1, PTL

(* lazyProc.Addr: a wintun.dll with all procedures, or none at all, never   *)
(* makes it panic.                                                          *)
THEOREM PanicsExplained == Spec => []PanicNeedsMissingProc
BY Invariance, PTL DEF IInv

(* NewTun, Close and the finalizer: no adapter is used or closed once       *)
(* closed, but by a LUID after Close; none is left open but for want of     *)
(* WintunCloseAdapter; and none is closed under its session but by the      *)
(* finalizer.                                                               *)
THEOREM AdaptersAreSound == Spec => []AdapterSound
<1>1. IInv => AdapterSound
  <2> SUFFICES ASSUME IInv, NEW t \in Threads
               PROVE  /\ /\ pc[t] = "call" /\ stage[t] \notin {"open", "create"}
                         /\ ~(stage[t] = "luid" /\ ~session[t])
                         => adapter[t] = "open"
                      /\ stage[t] \in {"failed", "closed"} /\ adapter[t] = "open" =>
                           "CloseAdapter" \notin exports
                      /\ adapter[t] = "closed" /\ session[t] => stage[t] = "gone"
    BY DEF AdapterSound
  <2>1. pc[t] = "call" => stage[t] \in Calls
    BY CallHasProc
  <2>2. QED
    BY <2>1, CallFacts DEF IInv, Device, Holding
<1>2. QED
  BY Invariance, <1>1, PTL
=============================================================================
