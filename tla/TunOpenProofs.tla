---------------------------- MODULE TunOpenProofs ----------------------------
(***************************************************************************)
(* Proofs about TunOpen, for any descriptor numbers: what becomes of the   *)
(* descriptors and of the interface on every way through an open, Close    *)
(* and Destroy.  The tables of calls are gone through once, platform by    *)
(* platform: each call takes what an open path has after the calls before  *)
(* it to what it has after this one.                                       *)
(***************************************************************************)
EXTENDS TunOpen, SequenceTheorems, FiniteSetTheorems, TLAPS

Number(b) == IF b THEN 1 ELSE 0

Final == IF Stays THEN "kept" ELSE "bound"

-----------------------------------------------------------------------------
(* What an open path has after k calls.  The numbers are places in the      *)
(* tables of TunOpen.                                                       *)

LastAt ==
  IF platform = "linux" THEN 8 + Number(config.persist) + 2 * Number(config.offloads)
  ELSE IF platform \in {"freebsd", "dragonfly"}
  THEN 8 + Number(~config.ptp) + 2 * Number(config.named)
  ELSE IF platform = "netbsd" THEN 7 + Number(~config.ptp)
  ELSE IF platform = "openbsd" THEN 5
  ELSE IF platform = "darwin" THEN 7 ELSE 12 + Number(config.persist)

(* The socket of setTunName. *)
Naming(k) ==
  platform \in {"freebsd", "dragonfly"} /\ config.named /\ k = 7 + Number(~config.ptp)

GotAt(k) ==
  IF k = (IF platform = "solaris" THEN 3 ELSE 2) THEN "data"
  ELSE IF platform = "solaris" /\ k = 2 THEN "ip"
  ELSE IF platform = "solaris" /\ k = 6 THEN "link"
  ELSE IF Naming(k) THEN "ctl" ELSE "none"

LiveAt(k) ==
  (IF platform # "solaris"
   THEN IF k < 2 THEN {} ELSE {"data"}
   ELSE IF k < 2 THEN {} ELSE IF k = 2 THEN {"ip"}
   ELSE IF k < 6 THEN {"data", "ip"} ELSE {"link", "data", "ip"})
  \cup IF Naming(k) THEN {"ctl"} ELSE {}

MadeAt == IF platform \in {"linux", "darwin", "solaris"} THEN 4 ELSE 2

SettledAt ==
  IF platform = "linux" THEN 5
  ELSE IF platform = "freebsd" THEN 4
  ELSE IF platform = "solaris" THEN 9 ELSE MadeAt

IfaceAt(k) ==
  IF k < MadeAt THEN "none"
  ELSE IF k >= SettledAt THEN Final
  ELSE IF platform = "freebsd" THEN "kept" ELSE "bound"

LinkedAt(k) == platform = "solaris" /\ k >= 9

FileAt(k) ==
  \/ platform = "netbsd" /\ k >= 5
  \/ platform \notin {"linux", "netbsd"} /\ k = LastAt

DestroyAt ==
  IF platform \in {"linux", "netbsd"} THEN 6
  ELSE IF platform = "solaris" THEN 11 ELSE 4

(* The return of createTunWithFlags forgets the removal. *)
Returned(k) == platform = "linux" /\ config.offloads /\ k >= LastAt - 1

Removal(k) == Stays /\ k >= DestroyAt /\ ~Returned(k)

(* What is deferred is put in front of what was deferred before. *)
Push(u, d) == <<u>> \o d

None == <<>>
Data == Push(CloseFd("data"), None)
Ip   == Push(AtReturn("ip"), None)
Two  == Push(CloseFd("data"), Ip)
All  == Push(CloseFd("link"), Two)

Closers == {None, Data, Ip, Two, All}

ClosersAt(k) ==
  IF k < 2 THEN None
  ELSE IF platform # "solaris" THEN Data
  ELSE IF k = 2 THEN Ip
  ELSE IF k < 6 THEN Two ELSE All

DeferredAt(k) == IF Removal(k) THEN Push(DestroyIface, ClosersAt(k)) ELSE ClosersAt(k)

(* On the way through the table. *)
Along ==
  phase = "run" => /\ at \in 0..LastAt
                   /\ failedAt = "none" /\ destroyed = "never"
                   /\ iface = IfaceAt(at) /\ linked = LinkedAt(at)
                   /\ file = FileAt(at) /\ deferred = DeferredAt(at)

-----------------------------------------------------------------------------
(* The other phases *)

ToClose(d) == {d[i].role : i \in {j \in 1..Len(d) : d[j].does = "close"}}

(* The deferred functions: Destroy is the first to run, or has run and has  *)
(* a descriptor of its own to close.                                        *)
Waiting ==
  /\ phase = "unwind" /\ destroyed = "never" =>
       \E d \in Closers : deferred = d \/ (Stays /\ deferred = Push(DestroyIface, d))
  /\ phase = "unwind" /\ destroyed # "never" =>
       \E d \in Closers : /\ deferred \in {d, Push(AtReturn("ctl"), d)}
                          /\ failedAt = "none" => d = None
  /\ phase = "destroy" =>
       \E d \in Closers : /\ deferred = IF at = 0 THEN d ELSE Push(AtReturn("ctl"), d)
                          /\ IF failedAt = "none" THEN d = None ELSE destroyed = "never"
  /\ phase \in {"open", "failed"} => deferred = None

(* The roles whose descriptors are ours. *)
Live ==
  IF phase = "run" THEN LiveAt(at)
  ELSE IF failedAt # "none"
  THEN ToClose(deferred)
  ELSE (IF file \/ (phase = "unwind" /\ destroyed = "never") THEN Held ELSE {})
         \cup (ToClose(deferred) \cap {"ip", "ctl"})

(* The descriptors f[r] of the roles in L are ours, and no other is. *)
Owned(f, o, L) ==
  /\ \A r \in L : f[r] \in Fds /\ o[f[r]] = "tun"
  /\ \A r, q \in L : f[r] = f[q] => r = q
  /\ \A n \in Fds : o[n] = "tun" => \E r \in L : f[r] = n

Accounted ==
  \/ Owned(fd, owner, Live)
  \/ phase # "run" /\ DescriptorLost /\ Owned(fd, owner, Live \cup {"data"})

(* After a failure an interface is gone, or is sure to go, or is one of     *)
(* those InterfaceLost and destroyed name.                                  *)
FailedIface ==
  phase # "run" /\ failedAt # "none" /\ ~InterfaceLost /\ destroyed # "not" =>
    \/ iface = "none"
    \/ iface = "bound" /\ "data" \in ToClose(deferred)
    \/ /\ iface = "kept" /\ "data" \in ToClose(deferred)
       /\ \/ phase = "unwind" /\ Head(deferred) = DestroyIface
          \/ phase = "destroy" /\ at < Len(DestroyCalls)

(* What was opened has its interface, until Close or Destroy takes it.      *)
OpenIface ==
  phase # "run" /\ failedAt = "none" =>
    /\ iface = "kept" => Stays
    /\ iface = "bound" => file \/ (phase = "unwind" /\ destroyed = "never")
    /\ destroyed = "done" => iface # "kept"
    /\ phase = "destroy" /\ at = Len(DestroyCalls) => iface # "kept"
    /\ destroyed = "never" /\ (phase = "unwind" \/ (phase = "open" /\ file)) =>
         /\ iface = Final
         /\ platform = "solaris" =>
              (linked <=> config.persist \/ "ip" \in ToClose(deferred))

Who == {"nobody", "tun", "other"}

DescriptorTypes ==
  fd \in [Roles -> Fds \cup {NoFd}] /\ owner \in [Fds -> Who] /\ stray \in BOOLEAN

Types ==
  /\ platform \in Platforms /\ config \in Configs
  /\ phase \in {"run", "destroy", "unwind", "open", "failed"}
  /\ at \in Nat /\ destroyed \in {"never", "done", "not"}
  /\ phase = "destroy" => at <= Len(DestroyCalls) /\ platform \in Destroyable
                          /\ destroyed # "done"
  /\ phase = "open" => failedAt = "none"
  /\ phase = "failed" => failedAt # "none" /\ ~file
  /\ DescriptorTypes
  /\ file \in BOOLEAN /\ linked \in BOOLEAN
  /\ iface \in {"none", "bound", "kept"}
  /\ file /\ failedAt # "none" => ClosedTwice /\ ~stray

IInv ==
  /\ Types /\ Along /\ Waiting /\ Accounted /\ FailedIface /\ OpenIface /\ NoStrayClose

-----------------------------------------------------------------------------
(* Deferred functions *)

Undos == [does : {"close", "Destroy"}, role : Roles \cup {"none"}, always : BOOLEAN]

LEMMA UndoFields ==
  /\ DestroyIface \in Undos /\ DestroyIface.does = "Destroy" /\ ~DestroyIface.always
  /\ \A r \in Roles :
       /\ CloseFd(r) \in Undos /\ CloseFd(r).does = "close"
       /\ CloseFd(r).role = r /\ ~CloseFd(r).always
       /\ AtReturn(r) \in Undos /\ AtReturn(r).does = "close"
       /\ AtReturn(r).role = r /\ AtReturn(r).always
BY DEF Undos, DestroyIface, CloseFd, AtReturn, Undo

LEMMA PushFields ==
  ASSUME NEW u \in Undos, NEW d \in Seq(Undos)
  PROVE  /\ Push(u, d) \in Seq(Undos) /\ Push(u, d) # <<>>
         /\ Head(Push(u, d)) = u /\ Tail(Push(u, d)) = d
         /\ ToClose(Push(u, d))
              = (IF u.does = "close" THEN {u.role} ELSE {}) \cup ToClose(d)
<1> DEFINE p == <<u>> \o d
<1>1. p \in Seq(Undos) /\ Len(p) = Len(d) + 1 /\ Len(d) \in Nat
  OBVIOUS
<1>2. p[1] = u /\ \A i \in 1..Len(d) : p[i + 1] = d[i]
  OBVIOUS
<1> HIDE DEF p
<1>3. Head(p) = u
  BY <1>1, <1>2
<1>4. Tail(p) = d
  <2>1. Tail(p) \in Seq(Undos) /\ Len(Tail(p)) = Len(d)
    BY <1>1
  <2>2. \A i \in 1..Len(d) : Tail(p)[i] = d[i]
    BY <1>1, <1>2
  <2>3. QED
    BY <2>1, <2>2, SeqEqual
<1>5. ToClose(p) = (IF u.does = "close" THEN {u.role} ELSE {}) \cup ToClose(d)
  <2>1. ASSUME NEW r \in ToClose(p)
        PROVE  r \in (IF u.does = "close" THEN {u.role} ELSE {}) \cup ToClose(d)
    <3>1. PICK i \in 1..Len(p) : p[i].does = "close" /\ p[i].role = r
      BY <2>1 DEF ToClose
    <3>2. CASE i = 1
      BY <1>2, <3>1, <3>2
    <3>3. CASE i # 1
      <4>1. i - 1 \in 1..Len(d) /\ (i - 1) + 1 = i
        BY <1>1, <3>1, <3>3
      <4>2. d[i - 1] = p[i]
        BY <1>2, <4>1
      <4>3. QED
        BY <3>1, <4>1, <4>2 DEF ToClose
    <3>4. QED
      BY <3>2, <3>3
  <2>2. ASSUME u.does = "close" PROVE u.role \in ToClose(p)
    <3>1. 1 \in 1..Len(p)
      BY <1>1
    <3>2. QED
      BY <1>2, <2>2, <3>1 DEF ToClose
  <2>3. ASSUME NEW r \in ToClose(d) PROVE r \in ToClose(p)
    <3>1. PICK i \in 1..Len(d) : d[i].does = "close" /\ d[i].role = r
      BY <2>3 DEF ToClose
    <3>2. i + 1 \in 1..Len(p) /\ p[i + 1] = d[i]
      BY <1>1, <1>2, <3>1
    <3>3. QED
      BY <3>1, <3>2 DEF ToClose
  <2>4. QED
    BY <2>1, <2>2, <2>3
<1>6. QED
  BY <1>1, <1>3, <1>4, <1>5 DEF p, Push

LEMMA PushKinds ==
  ASSUME NEW d \in Seq(Undos)
  PROVE  /\ Push(DestroyIface, d) \in Seq(Undos)
         /\ ToClose(Push(DestroyIface, d)) = ToClose(d)
         /\ \A r \in Roles :
              /\ Push(CloseFd(r), d) \in Seq(Undos) /\ Push(AtReturn(r), d) \in Seq(Undos)
              /\ ToClose(Push(CloseFd(r), d)) = {r} \cup ToClose(d)
              /\ ToClose(Push(AtReturn(r), d)) = {r} \cup ToClose(d)
<1>1. Push(DestroyIface, d) \in Seq(Undos) /\ ToClose(Push(DestroyIface, d)) = ToClose(d)
  <2>1. /\ Push(DestroyIface, d) \in Seq(Undos)
        /\ ToClose(Push(DestroyIface, d))
             = (IF DestroyIface.does = "close" THEN {DestroyIface.role} ELSE {}) \cup ToClose(d)
    BY UndoFields, PushFields, Zenon
  <2>2. DestroyIface.does # "close"
    BY UndoFields
  <2>3. QED
    BY <2>1, <2>2
<1>2. ASSUME NEW u \in Undos, u.does = "close"
      PROVE  Push(u, d) \in Seq(Undos) /\ ToClose(Push(u, d)) = {u.role} \cup ToClose(d)
  <2>1. /\ Push(u, d) \in Seq(Undos)
        /\ ToClose(Push(u, d)) = (IF u.does = "close" THEN {u.role} ELSE {}) \cup ToClose(d)
    BY PushFields, Zenon
  <2>2. QED
    BY <1>2, <2>1
<1>3. ASSUME NEW r \in Roles
      PROVE  /\ Push(CloseFd(r), d) \in Seq(Undos) /\ Push(AtReturn(r), d) \in Seq(Undos)
             /\ ToClose(Push(CloseFd(r), d)) = {r} \cup ToClose(d)
             /\ ToClose(Push(AtReturn(r), d)) = {r} \cup ToClose(d)
  <2>1. CloseFd(r) \in Undos /\ CloseFd(r).does = "close" /\ CloseFd(r).role = r
    BY UndoFields
  <2>2. AtReturn(r) \in Undos /\ AtReturn(r).does = "close" /\ AtReturn(r).role = r
    BY UndoFields
  <2>3. /\ Push(CloseFd(r), d) \in Seq(Undos)
        /\ ToClose(Push(CloseFd(r), d)) = {CloseFd(r).role} \cup ToClose(d)
    BY <1>2, <2>1, Zenon
  <2>4. /\ Push(AtReturn(r), d) \in Seq(Undos)
        /\ ToClose(Push(AtReturn(r), d)) = {AtReturn(r).role} \cup ToClose(d)
    BY <1>2, <2>2, Zenon
  <2>5. QED
    BY <2>1, <2>2, <2>3, <2>4, Zenon
<1>4. QED
  BY <1>1, <1>3, Zenon

LEMMA CloserFields ==
  /\ Closers \subseteq Seq(Undos)
  /\ ToClose(None) = {} /\ ToClose(Data) = {"data"} /\ ToClose(Ip) = {"ip"}
  /\ ToClose(Two) = {"data", "ip"} /\ ToClose(All) = {"link", "data", "ip"}
<1>1. None \in Seq(Undos) /\ ToClose(None) = {}
  BY DEF None, ToClose
<1>2. "data" \in Roles /\ "ip" \in Roles /\ "link" \in Roles
  BY DEF Roles
<1>3. Data \in Seq(Undos) /\ ToClose(Data) = {"data"} \cup {}
  BY <1>1, <1>2, PushKinds, Zenon DEF Data
<1>4. Ip \in Seq(Undos) /\ ToClose(Ip) = {"ip"} \cup {}
  BY <1>1, <1>2, PushKinds, Zenon DEF Ip
<1>5. Two \in Seq(Undos) /\ ToClose(Two) = {"data"} \cup ({"ip"} \cup {})
  BY <1>2, <1>4, PushKinds, Zenon DEF Two
<1>6. All \in Seq(Undos) /\ ToClose(All) = {"link"} \cup ({"data"} \cup ({"ip"} \cup {}))
  BY <1>2, <1>5, PushKinds, Zenon DEF All
<1>7. Closers \subseteq Seq(Undos)
  BY <1>1, <1>3, <1>4, <1>5, <1>6, Zenon DEF Closers
<1>8. QED
  BY <1>1, <1>3, <1>4, <1>5, <1>6, <1>7

LEMMA CloserRoles ==
  ASSUME NEW d \in Closers
  PROVE  ToClose(d) \subseteq {"data", "ip", "link"}
<1>1. d = None \/ d = Data \/ d = Ip \/ d = Two \/ d = All
  BY DEF Closers
<1>2. ToClose(d) \in {{}, {"data"}, {"ip"}, {"data", "ip"}, {"link", "data", "ip"}}
  BY <1>1, CloserFields, Zenon
<1>3. QED
  BY <1>2

(* The closing functions close different descriptors. *)
LEMMA CloserSplit ==
  ASSUME NEW d \in Closers, d # None
  PROVE  \E u \in Undos, e \in Closers :
           /\ d = Push(u, e) /\ u.does = "close" /\ u.role \in {"data", "ip", "link"}
           /\ u.role \notin ToClose(e) /\ (u.always <=> u.role = "ip")
<1>1. CASE d = Data
  <2>1. Data = Push(CloseFd("data"), None) /\ None \in Closers
    BY DEF Data, Closers
  <2>2. QED
    BY <1>1, <2>1, UndoFields, CloserFields DEF Roles
<1>2. CASE d = Ip
  <2>1. Ip = Push(AtReturn("ip"), None) /\ None \in Closers
    BY DEF Ip, Closers
  <2>2. QED
    BY <1>2, <2>1, UndoFields, CloserFields DEF Roles
<1>3. CASE d = Two
  <2>1. Two = Push(CloseFd("data"), Ip) /\ Ip \in Closers
    BY DEF Two, Closers
  <2>2. QED
    BY <1>3, <2>1, UndoFields, CloserFields DEF Roles
<1>4. CASE d = All
  <2>1. All = Push(CloseFd("link"), Two) /\ Two \in Closers
    BY DEF All, Closers
  <2>2. QED
    BY <1>4, <2>1, UndoFields, CloserFields DEF Roles
<1>5. QED
  BY <1>1, <1>2, <1>3, <1>4 DEF Closers

-----------------------------------------------------------------------------
(* The tables *)

(* A call that does nothing but what F names. *)
Does(c, F) ==
  /\ "sure" \notin F => ~c.sure
  /\ "gets" \notin F => c.gets = "none"
  /\ "shuts" \notin F => c.shuts = "none"
  /\ "makes" \notin F => c.makes = "same"
  /\ "links" \notin F => ~c.links
  /\ "undo" \notin F => c.undo = <<>>
  /\ "hands" \notin F => ~c.hands
  /\ "returns" \notin F => ~c.returns
  /\ "loses" \notin F => ~c.loses
  /\ "removes" \notin F => ~c.removes

UndoAt(k) ==
  IF GotAt(k) = "data" \/ (Returned(k) /\ k = LastAt - 1) THEN <<CloseFd("data")>>
  ELSE IF GotAt(k) = "ip" THEN <<AtReturn("ip")>>
  ELSE IF GotAt(k) = "link" THEN <<CloseFd("link")>>
  ELSE IF Stays /\ k = DestroyAt THEN <<DestroyIface>> ELSE <<>>

(* An interface that nobody removes, should this call fail. *)
Lost(name) ==
  <<platform, name>> \in
    {<<"freebsd", "TUNGIFNAME">>, <<"freebsd", "TUNSTRANSIENT">>,
     <<"dragonfly", "TUNGIFNAME">>, <<"solaris", "SIOCSLIFMUXID">>,
     <<"netbsd", "chardev">>, <<"netbsd", "fstat">>, <<"netbsd", "nonblock">>,
     <<"openbsd", "chardev">>, <<"linux", "NewOffloads">>}

(* Call k of the open path, c. *)
Row(c, k) ==
  /\ c.gets = GotAt(k) /\ c.undo = UndoAt(k)
  /\ c.returns <=> Returned(k) /\ k = LastAt - 1
  /\ c.shuts = IF Naming(k - 1) THEN "ctl" ELSE "none"
  /\ ~c.removes /\ (c.links <=> platform = "solaris" /\ k = 9)
  /\ IfaceAt(k) = IF c.makes # "same" THEN c.makes ELSE IfaceAt(k - 1)
  /\ FileAt(k) <=> FileAt(k - 1) \/ c.hands
  /\ ~c.sure => /\ c.call # "none"
                /\ Lost(c.call) \/ (IfaceAt(k - 1) = "kept" => Removal(k - 1))
                /\ FileAt(k - 1) => /\ platform = "netbsd"
                                    /\ c.call \in {"TUNSIFHEAD", "TUNSIFMODE"}
  /\ c.loses => /\ c.call = "chardev" /\ ~config.named /\ k = 2
                /\ platform \in {"netbsd", "openbsd"}

Table ==
  /\ Len(OpenCalls) = LastAt /\ LastAt \in Nat
  /\ \A k \in 1..LastAt : Row(OpenCalls[k], k)

(* Call c is called n, and does nothing but what F names. *)
Is(c, n, F) == Does(c, F) /\ c.call = n

LEMMA CharDevIs ==
  ASSUME NEW i
  PROVE  LET c == CharDev(config, i)
         IN /\ Is(c, "chardev", {"gets", "undo", "makes", "loses"}) /\ c.gets = "data"
            /\ c.undo = <<CloseFd("data")>> /\ c.makes = i /\ (c.loses <=> ~config.named)
<1>1. PICK l : l = ~config.named
  OBVIOUS
<1> DEFINE c == [Gets("chardev", "data") EXCEPT !.makes = i, !.loses = l]
<1>2. CharDev(config, i) = c
  BY <1>1, Zenon DEF CharDev
<1>3. /\ Is(c, "chardev", {"gets", "undo", "makes", "loses"}) /\ c.gets = "data"
      /\ c.undo = <<CloseFd("data")>> /\ c.makes = i /\ c.loses = l
  BY SMT DEF Gets, Call, Does, Is
<1> HIDE DEF c
<1>4. QED
  BY <1>1, <1>2, <1>3

LEMMA LinkIs ==
  LET c == LinkBelowIp(config)
  IN /\ Is(c, "I_LINK", {"makes", "links"}) /\ c.links
     /\ c.makes = IF config.persist THEN "kept" ELSE "bound"
<1>1. ASSUME NEW i
      PROVE  LET c == [Makes("I_LINK", i) EXCEPT !.links = TRUE]
             IN Is(c, "I_LINK", {"makes", "links"}) /\ c.links /\ c.makes = i
  BY SMT DEF Makes, Call, Does, Is
<1>2. QED
  BY <1>1, Zenon DEF LinkBelowIp

LEMMA OpenBSDTable ==
  ASSUME config \in Configs, platform = "openbsd"
  PROVE  Table
<1> DEFINE s == OpenCalls
<1>1. config.persist \in BOOLEAN /\ config.ptp \in BOOLEAN /\ config.offloads \in BOOLEAN
      /\ config.named \in BOOLEAN
  BY DEF Configs
<1>2. s = CheckName \o OpenBSD(config)
  BY DEF OpenCalls, Stays
<1>3. /\ Len(s) = 5
      /\ s[1] = Call("name")
      /\ s[2] = CharDev(config, "bound")
      /\ s[3] = Call("fstat")
      /\ s[4] = Call("nonblock")
      /\ s[5] = NewFile
  BY <1>1, <1>2 DEF OpenBSD, CheckName
<1> HIDE DEF s
<1>4. LastAt = 5 /\ LastAt \in Nat
  BY <1>1 DEF LastAt, Number
<1>5. ASSUME NEW k \in 1..LastAt PROVE Row(s[k], k)
  <2> USE DEF Stays, Final, Naming, Returned, Removal, IfaceAt, MadeAt,
              SettledAt, FileAt, DestroyAt, Number
  <2>1. CASE k = 1
    <3>1. s[k] = Call("name")
      BY <1>1, <1>3, <2>1
    <3>2. Is(s[k], "name", {})
      BY <3>1, SMT DEF Call, Does, Is
    <3>3. GotAt(k) = "none" /\ UndoAt(k) = <<>>
      BY <1>1, <1>4, <2>1 DEF GotAt, UndoAt
    <3>4. QED
      BY <1>1, <1>4, <2>1, <3>2, <3>3, SMT DEF Row, Is, Does, Lost
  <2>2. CASE k = 2
    <3>1. s[k] = CharDev(config, "bound")
      BY <1>1, <1>3, <2>2
    <3>2. /\ Is(s[k], "chardev", {"gets", "undo", "makes", "loses"}) /\ s[k].gets = "data"
          /\ s[k].undo = <<CloseFd("data")>> /\ s[k].makes = "bound"
          /\ (s[k].loses <=> ~config.named)
      BY <3>1, CharDevIs, Zenon
    <3>3. GotAt(k) = "data" /\ UndoAt(k) = <<CloseFd("data")>>
      BY <1>1, <1>4, <2>2 DEF GotAt, UndoAt
    <3>4. QED
      BY <1>1, <1>4, <2>2, <3>2, <3>3, SMT DEF Row, Is, Does, Lost
  <2>3. CASE k = 3
    <3>1. s[k] = Call("fstat")
      BY <1>1, <1>3, <2>3
    <3>2. Is(s[k], "fstat", {})
      BY <3>1, SMT DEF Call, Does, Is
    <3>3. GotAt(k) = "none" /\ UndoAt(k) = <<>>
      BY <1>1, <1>4, <2>3 DEF GotAt, UndoAt
    <3>4. QED
      BY <1>1, <1>4, <2>3, <3>2, <3>3, SMT DEF Row, Is, Does, Lost
  <2>4. CASE k = 4
    <3>1. s[k] = Call("nonblock")
      BY <1>1, <1>3, <2>4
    <3>2. Is(s[k], "nonblock", {})
      BY <3>1, SMT DEF Call, Does, Is
    <3>3. GotAt(k) = "none" /\ UndoAt(k) = <<>>
      BY <1>1, <1>4, <2>4 DEF GotAt, UndoAt
    <3>4. QED
      BY <1>1, <1>4, <2>4, <3>2, <3>3, SMT DEF Row, Is, Does, Lost
  <2>5. CASE k = 5
    <3>1. s[k] = NewFile
      BY <1>1, <1>3, <2>5
    <3>2. Is(s[k], "NewFile", {"sure", "hands"}) /\ s[k].sure /\ s[k].hands
      BY <3>1, SMT DEF NewFile, Call, Does, Is
    <3>3. GotAt(k) = "none" /\ UndoAt(k) = <<>>
      BY <1>1, <1>4, <2>5 DEF GotAt, UndoAt
    <3>4. QED
      BY <1>1, <1>4, <2>5, <3>2, <3>3, SMT DEF Row, Is, Does, Lost
  <2>6. QED
    BY <1>1, <1>4, <2>1, <2>2, <2>3, <2>4, <2>5 DEF Number
<1>6. QED
  BY <1>3, <1>4, <1>5 DEF Table, s

LEMMA DarwinTable ==
  ASSUME config \in Configs, platform = "darwin"
  PROVE  Table
<1> DEFINE s == OpenCalls
<1>1. config.persist \in BOOLEAN /\ config.ptp \in BOOLEAN /\ config.offloads \in BOOLEAN
      /\ config.named \in BOOLEAN
  BY DEF Configs
<1>2. s = CheckName \o Darwin
  BY DEF OpenCalls, Stays
<1>3. /\ Len(s) = 7
      /\ s[1] = Call("name")
      /\ s[2] = Gets("socket", "data")
      /\ s[3] = Call("CTLIOCGINFO")
      /\ s[4] = Makes("connect", "bound")
      /\ s[5] = Call("UTUN_OPT_IFNAME")
      /\ s[6] = Call("nonblock")
      /\ s[7] = NewFile
  BY <1>1, <1>2 DEF Darwin, CheckName
<1> HIDE DEF s
<1>4. LastAt = 7 /\ LastAt \in Nat
  BY <1>1 DEF LastAt, Number
<1>5. ASSUME NEW k \in 1..LastAt PROVE Row(s[k], k)
  <2> USE DEF Stays, Final, Naming, Returned, Removal, IfaceAt, MadeAt,
              SettledAt, FileAt, DestroyAt, Number
  <2>1. CASE k = 1
    <3>1. s[k] = Call("name")
      BY <1>1, <1>3, <2>1
    <3>2. Is(s[k], "name", {})
      BY <3>1, SMT DEF Call, Does, Is
    <3>3. GotAt(k) = "none" /\ UndoAt(k) = <<>>
      BY <1>1, <1>4, <2>1 DEF GotAt, UndoAt
    <3>4. QED
      BY <1>1, <1>4, <2>1, <3>2, <3>3, SMT DEF Row, Is, Does, Lost
  <2>2. CASE k = 2
    <3>1. s[k] = Gets("socket", "data")
      BY <1>1, <1>3, <2>2
    <3>2. /\ Is(s[k], "socket", {"gets", "undo"}) /\ s[k].gets = "data"
          /\ s[k].undo = <<CloseFd("data")>>
      BY <3>1, SMT DEF Gets, Call, Does, Is
    <3>3. GotAt(k) = "data" /\ UndoAt(k) = <<CloseFd("data")>>
      BY <1>1, <1>4, <2>2 DEF GotAt, UndoAt
    <3>4. QED
      BY <1>1, <1>4, <2>2, <3>2, <3>3, SMT DEF Row, Is, Does, Lost
  <2>3. CASE k = 3
    <3>1. s[k] = Call("CTLIOCGINFO")
      BY <1>1, <1>3, <2>3
    <3>2. Is(s[k], "CTLIOCGINFO", {})
      BY <3>1, SMT DEF Call, Does, Is
    <3>3. GotAt(k) = "none" /\ UndoAt(k) = <<>>
      BY <1>1, <1>4, <2>3 DEF GotAt, UndoAt
    <3>4. QED
      BY <1>1, <1>4, <2>3, <3>2, <3>3, SMT DEF Row, Is, Does, Lost
  <2>4. CASE k = 4
    <3>1. s[k] = Makes("connect", "bound")
      BY <1>1, <1>3, <2>4
    <3>2. Is(s[k], "connect", {"makes"}) /\ s[k].makes = "bound"
      BY <3>1, SMT DEF Makes, Call, Does, Is
    <3>3. GotAt(k) = "none" /\ UndoAt(k) = <<>>
      BY <1>1, <1>4, <2>4 DEF GotAt, UndoAt
    <3>4. QED
      BY <1>1, <1>4, <2>4, <3>2, <3>3, SMT DEF Row, Is, Does, Lost
  <2>5. CASE k = 5
    <3>1. s[k] = Call("UTUN_OPT_IFNAME")
      BY <1>1, <1>3, <2>5
    <3>2. Is(s[k], "UTUN_OPT_IFNAME", {})
      BY <3>1, SMT DEF Call, Does, Is
    <3>3. GotAt(k) = "none" /\ UndoAt(k) = <<>>
      BY <1>1, <1>4, <2>5 DEF GotAt, UndoAt
    <3>4. QED
      BY <1>1, <1>4, <2>5, <3>2, <3>3, SMT DEF Row, Is, Does, Lost
  <2>6. CASE k = 6
    <3>1. s[k] = Call("nonblock")
      BY <1>1, <1>3, <2>6
    <3>2. Is(s[k], "nonblock", {})
      BY <3>1, SMT DEF Call, Does, Is
    <3>3. GotAt(k) = "none" /\ UndoAt(k) = <<>>
      BY <1>1, <1>4, <2>6 DEF GotAt, UndoAt
    <3>4. QED
      BY <1>1, <1>4, <2>6, <3>2, <3>3, SMT DEF Row, Is, Does, Lost
  <2>7. CASE k = 7
    <3>1. s[k] = NewFile
      BY <1>1, <1>3, <2>7
    <3>2. Is(s[k], "NewFile", {"sure", "hands"}) /\ s[k].sure /\ s[k].hands
      BY <3>1, SMT DEF NewFile, Call, Does, Is
    <3>3. GotAt(k) = "none" /\ UndoAt(k) = <<>>
      BY <1>1, <1>4, <2>7 DEF GotAt, UndoAt
    <3>4. QED
      BY <1>1, <1>4, <2>7, <3>2, <3>3, SMT DEF Row, Is, Does, Lost
  <2>8. QED
    BY <1>1, <1>4, <2>1, <2>2, <2>3, <2>4, <2>5, <2>6, <2>7 DEF Number
<1>6. QED
  BY <1>3, <1>4, <1>5 DEF Table, s

LEMMA NetBSDTable ==
  ASSUME config \in Configs, platform = "netbsd"
  PROVE  Table
<1> DEFINE s == OpenCalls
<1>1. config.persist \in BOOLEAN /\ config.ptp \in BOOLEAN /\ config.offloads \in BOOLEAN
      /\ config.named \in BOOLEAN
  BY DEF Configs
<1>m. PICK m \in 0..1 : m = Number(~config.ptp)
  BY <1>1 DEF Number
<1>2. s = CheckName \o NetBSD(config)
  BY DEF OpenCalls, Stays
<1>3. /\ Len(s) = 7 + m
      /\ s[1] = Call("name")
      /\ s[2] = CharDev(config, "kept")
      /\ s[3] = Call("fstat")
      /\ s[4] = Call("nonblock")
      /\ s[5] = NewFile
      /\ s[6] = Defers(DestroyIface)
      /\ s[7] = Call("TUNSIFHEAD")
      /\ (~config.ptp => s[8] = Call("TUNSIFMODE"))
  BY <1>1, <1>m, <1>2 DEF NetBSD, CheckName, Modes, Only, Number
<1> HIDE DEF s
<1>4. LastAt = 7 + m /\ LastAt \in Nat
  BY <1>1, <1>m DEF LastAt, Number
<1>5. ASSUME NEW k \in 1..LastAt PROVE Row(s[k], k)
  <2> USE DEF Stays, Final, Naming, Returned, Removal, IfaceAt, MadeAt,
              SettledAt, FileAt, DestroyAt, Number
  <2>1. CASE k = 1
    <3>1. s[k] = Call("name")
      BY <1>1, <1>3, <2>1
    <3>2. Is(s[k], "name", {})
      BY <3>1, SMT DEF Call, Does, Is
    <3>3. GotAt(k) = "none" /\ UndoAt(k) = <<>>
      BY <1>1, <1>m, <1>4, <2>1 DEF GotAt, UndoAt
    <3>4. QED
      BY <1>1, <1>m, <1>4, <2>1, <3>2, <3>3, SMT DEF Row, Is, Does, Lost
  <2>2. CASE k = 2
    <3>1. s[k] = CharDev(config, "kept")
      BY <1>1, <1>3, <2>2
    <3>2. /\ Is(s[k], "chardev", {"gets", "undo", "makes", "loses"}) /\ s[k].gets = "data"
          /\ s[k].undo = <<CloseFd("data")>> /\ s[k].makes = "kept"
          /\ (s[k].loses <=> ~config.named)
      BY <3>1, CharDevIs, Zenon
    <3>3. GotAt(k) = "data" /\ UndoAt(k) = <<CloseFd("data")>>
      BY <1>1, <1>m, <1>4, <2>2 DEF GotAt, UndoAt
    <3>4. QED
      BY <1>1, <1>m, <1>4, <2>2, <3>2, <3>3, SMT DEF Row, Is, Does, Lost
  <2>3. CASE k = 3
    <3>1. s[k] = Call("fstat")
      BY <1>1, <1>3, <2>3
    <3>2. Is(s[k], "fstat", {})
      BY <3>1, SMT DEF Call, Does, Is
    <3>3. GotAt(k) = "none" /\ UndoAt(k) = <<>>
      BY <1>1, <1>m, <1>4, <2>3 DEF GotAt, UndoAt
    <3>4. QED
      BY <1>1, <1>m, <1>4, <2>3, <3>2, <3>3, SMT DEF Row, Is, Does, Lost
  <2>4. CASE k = 4
    <3>1. s[k] = Call("nonblock")
      BY <1>1, <1>3, <2>4
    <3>2. Is(s[k], "nonblock", {})
      BY <3>1, SMT DEF Call, Does, Is
    <3>3. GotAt(k) = "none" /\ UndoAt(k) = <<>>
      BY <1>1, <1>m, <1>4, <2>4 DEF GotAt, UndoAt
    <3>4. QED
      BY <1>1, <1>m, <1>4, <2>4, <3>2, <3>3, SMT DEF Row, Is, Does, Lost
  <2>5. CASE k = 5
    <3>1. s[k] = NewFile
      BY <1>1, <1>3, <2>5
    <3>2. Is(s[k], "NewFile", {"sure", "hands"}) /\ s[k].sure /\ s[k].hands
      BY <3>1, SMT DEF NewFile, Call, Does, Is
    <3>3. GotAt(k) = "none" /\ UndoAt(k) = <<>>
      BY <1>1, <1>m, <1>4, <2>5 DEF GotAt, UndoAt
    <3>4. QED
      BY <1>1, <1>m, <1>4, <2>5, <3>2, <3>3, SMT DEF Row, Is, Does, Lost
  <2>6. CASE k = 6
    <3>1. s[k] = Defers(DestroyIface)
      BY <1>1, <1>3, <2>6
    <3>2. Is(s[k], "defer", {"sure", "undo"}) /\ s[k].sure /\ s[k].undo = <<DestroyIface>>
      BY <3>1, SMT DEF Defers, Call, Does, Is
    <3>3. GotAt(k) = "none" /\ UndoAt(k) = <<DestroyIface>>
      BY <1>1, <1>m, <1>4, <2>6 DEF GotAt, UndoAt
    <3>4. QED
      BY <1>1, <1>m, <1>4, <2>6, <3>2, <3>3, SMT DEF Row, Is, Does, Lost
  <2>7. CASE k = 7
    <3>1. s[k] = Call("TUNSIFHEAD")
      BY <1>1, <1>3, <2>7
    <3>2. Is(s[k], "TUNSIFHEAD", {})
      BY <3>1, SMT DEF Call, Does, Is
    <3>3. GotAt(k) = "none" /\ UndoAt(k) = <<>>
      BY <1>1, <1>m, <1>4, <2>7 DEF GotAt, UndoAt
    <3>4. QED
      BY <1>1, <1>m, <1>4, <2>7, <3>2, <3>3, SMT DEF Row, Is, Does, Lost
  <2>8. CASE ~config.ptp /\ k = 8
    <3>1. s[k] = Call("TUNSIFMODE")
      BY <1>1, <1>3, <2>8
    <3>2. Is(s[k], "TUNSIFMODE", {})
      BY <3>1, SMT DEF Call, Does, Is
    <3>3. GotAt(k) = "none" /\ UndoAt(k) = <<>>
      BY <1>1, <1>m, <1>4, <2>8 DEF GotAt, UndoAt
    <3>4. QED
      BY <1>1, <1>m, <1>4, <2>8, <3>2, <3>3, SMT DEF Row, Is, Does, Lost
  <2>9. QED
    BY <1>1, <1>m, <1>4, <2>1, <2>2, <2>3, <2>4, <2>5, <2>6, <2>7, <2>8 DEF Number
<1>6. QED
  BY <1>3, <1>4, <1>5 DEF Table, s

LEMMA FreeBSDTable ==
  ASSUME config \in Configs, platform \in {"freebsd", "dragonfly"}
  PROVE  Table
<1> DEFINE s == OpenCalls
<1>1. config.persist \in BOOLEAN /\ config.ptp \in BOOLEAN /\ config.offloads \in BOOLEAN
      /\ config.named \in BOOLEAN
  BY DEF Configs
<1>m. PICK m \in 0..1, l \in {0, 2} :
       m = Number(~config.ptp) /\ l = 2 * Number(config.named)
  BY <1>1 DEF Number
<1>2. s = CheckName \o IF platform = "freebsd" THEN FreeBSD(config) ELSE DragonFly(config)
  BY DEF OpenCalls, Stays
<1>3. /\ Len(s) = 8 + m + l
      /\ s[1] = Call("name")
      /\ s[2] = [Gets("open", "data") EXCEPT !.makes = "kept"]
      /\ s[3] = Call("TUNGIFNAME")
      /\ (Stays => s[4] = Defers(DestroyIface))
      /\ (~Stays => s[4] = Makes("TUNSTRANSIENT", "bound"))
      /\ s[5] = Call("TUNSIFHEAD")
      /\ (~config.ptp => s[6] = Call("TUNSIFMODE"))
      /\ s[6 + m] = Call("TUNSIFPID")
      /\ (config.named => s[7 + m] = [Call("socket") EXCEPT !.gets = "ctl"])
      /\ (config.named => s[8 + m] = [Call("SIOCSIFNAME") EXCEPT !.shuts = "ctl"])
      /\ s[7 + m + l] = Call("nonblock")
      /\ s[8 + m + l] = NewFile
  <2>1. CASE platform = "freebsd" /\ l = 0
    BY <1>1, <1>m, <1>2, <2>1
      DEF FreeBSD, Stays, SetUp, SetTunName, CheckName, Modes, Only, Number
  <2>2. CASE platform = "freebsd" /\ l = 2 /\ m = 0
    BY <1>1, <1>m, <1>2, <2>2
      DEF FreeBSD, Stays, SetUp, SetTunName, CheckName, Modes, Only, Number
  <2>3. CASE platform = "freebsd" /\ l = 2 /\ m = 1
    BY <1>1, <1>m, <1>2, <2>3
      DEF FreeBSD, Stays, SetUp, SetTunName, CheckName, Modes, Only, Number
  <2>4. CASE platform = "dragonfly" /\ l = 0
    BY <1>1, <1>m, <1>2, <2>4
      DEF DragonFly, Stays, SetUp, SetTunName, CheckName, Modes, Only, Number
  <2>5. CASE platform = "dragonfly" /\ l = 2 /\ m = 0
    BY <1>1, <1>m, <1>2, <2>5
      DEF DragonFly, Stays, SetUp, SetTunName, CheckName, Modes, Only, Number
  <2>6. CASE platform = "dragonfly" /\ l = 2 /\ m = 1
    BY <1>1, <1>m, <1>2, <2>6
      DEF DragonFly, Stays, SetUp, SetTunName, CheckName, Modes, Only, Number
  <2>7. QED
    BY <1>m, <2>1, <2>2, <2>3, <2>4, <2>5, <2>6
<1> HIDE DEF s
<1>4. LastAt = 8 + m + l /\ LastAt \in Nat
  BY <1>1, <1>m DEF LastAt, Number
<1>5. ASSUME NEW k \in 1..LastAt PROVE Row(s[k], k)
  <2> USE DEF Stays, Final, Naming, Returned, Removal, IfaceAt, MadeAt,
              SettledAt, FileAt, DestroyAt, Number
  <2>1. CASE k = 1
    <3>1. s[k] = Call("name")
      BY <1>1, <1>3, <2>1
    <3>2. Is(s[k], "name", {})
      BY <3>1, SMT DEF Call, Does, Is
    <3>3. GotAt(k) = "none" /\ UndoAt(k) = <<>>
      BY <1>1, <1>m, <1>4, <2>1 DEF GotAt, UndoAt
    <3>4. QED
      BY <1>1, <1>m, <1>4, <2>1, <3>2, <3>3, SMT DEF Row, Is, Does, Lost
  <2>2. CASE k = 2
    <3>1. s[k] = [Gets("open", "data") EXCEPT !.makes = "kept"]
      BY <1>1, <1>3, <2>2
    <3>2. /\ Is(s[k], "open", {"gets", "undo", "makes"}) /\ s[k].gets = "data"
          /\ s[k].undo = <<CloseFd("data")>> /\ s[k].makes = "kept"
      BY <3>1, SMT DEF Gets, Call, Does, Is
    <3>3. GotAt(k) = "data" /\ UndoAt(k) = <<CloseFd("data")>>
      BY <1>1, <1>m, <1>4, <2>2 DEF GotAt, UndoAt
    <3>4. QED
      BY <1>1, <1>m, <1>4, <2>2, <3>2, <3>3, SMT DEF Row, Is, Does, Lost
  <2>3. CASE k = 3
    <3>1. s[k] = Call("TUNGIFNAME")
      BY <1>1, <1>3, <2>3
    <3>2. Is(s[k], "TUNGIFNAME", {})
      BY <3>1, SMT DEF Call, Does, Is
    <3>3. GotAt(k) = "none" /\ UndoAt(k) = <<>>
      BY <1>1, <1>m, <1>4, <2>3 DEF GotAt, UndoAt
    <3>4. QED
      BY <1>1, <1>m, <1>4, <2>3, <3>2, <3>3, SMT DEF Row, Is, Does, Lost
  <2>4. CASE Stays /\ k = 4
    <3>1. s[k] = Defers(DestroyIface)
      BY <1>1, <1>3, <2>4
    <3>2. Is(s[k], "defer", {"sure", "undo"}) /\ s[k].sure /\ s[k].undo = <<DestroyIface>>
      BY <3>1, SMT DEF Defers, Call, Does, Is
    <3>3. GotAt(k) = "none" /\ UndoAt(k) = <<DestroyIface>>
      BY <1>1, <1>m, <1>4, <2>4 DEF GotAt, UndoAt
    <3>4. QED
      BY <1>1, <1>m, <1>4, <2>4, <3>2, <3>3, SMT DEF Row, Is, Does, Lost
  <2>5. CASE ~Stays /\ k = 4
    <3>1. s[k] = Makes("TUNSTRANSIENT", "bound")
      BY <1>1, <1>3, <2>5
    <3>2. Is(s[k], "TUNSTRANSIENT", {"makes"}) /\ s[k].makes = "bound"
      BY <3>1, SMT DEF Makes, Call, Does, Is
    <3>3. GotAt(k) = "none" /\ UndoAt(k) = <<>>
      BY <1>1, <1>m, <1>4, <2>5 DEF GotAt, UndoAt
    <3>4. QED
      BY <1>1, <1>m, <1>4, <2>5, <3>2, <3>3, SMT DEF Row, Is, Does, Lost
  <2>6. CASE k = 5
    <3>1. s[k] = Call("TUNSIFHEAD")
      BY <1>1, <1>3, <2>6
    <3>2. Is(s[k], "TUNSIFHEAD", {})
      BY <3>1, SMT DEF Call, Does, Is
    <3>3. GotAt(k) = "none" /\ UndoAt(k) = <<>>
      BY <1>1, <1>m, <1>4, <2>6 DEF GotAt, UndoAt
    <3>4. QED
      BY <1>1, <1>m, <1>4, <2>6, <3>2, <3>3, SMT DEF Row, Is, Does, Lost
  <2>7. CASE ~config.ptp /\ k = 6
    <3>1. s[k] = Call("TUNSIFMODE")
      BY <1>1, <1>3, <2>7
    <3>2. Is(s[k], "TUNSIFMODE", {})
      BY <3>1, SMT DEF Call, Does, Is
    <3>3. GotAt(k) = "none" /\ UndoAt(k) = <<>>
      BY <1>1, <1>m, <1>4, <2>7 DEF GotAt, UndoAt
    <3>4. QED
      BY <1>1, <1>m, <1>4, <2>7, <3>2, <3>3, SMT DEF Row, Is, Does, Lost
  <2>8. CASE k = 6 + m
    <3>1. s[k] = Call("TUNSIFPID")
      BY <1>1, <1>3, <2>8
    <3>2. Is(s[k], "TUNSIFPID", {})
      BY <3>1, SMT DEF Call, Does, Is
    <3>3. GotAt(k) = "none" /\ UndoAt(k) = <<>>
      BY <1>1, <1>m, <1>4, <2>8 DEF GotAt, UndoAt
    <3>4. QED
      BY <1>1, <1>m, <1>4, <2>8, <3>2, <3>3, SMT DEF Row, Is, Does, Lost
  <2>9. CASE config.named /\ k = 7 + m
    <3>1. s[k] = [Call("socket") EXCEPT !.gets = "ctl"]
      BY <1>1, <1>3, <2>9
    <3>2. Is(s[k], "socket", {"gets"}) /\ s[k].gets = "ctl"
      BY <3>1, SMT DEF Call, Does, Is
    <3>3. GotAt(k) = "ctl" /\ UndoAt(k) = <<>>
      BY <1>1, <1>m, <1>4, <2>9 DEF GotAt, UndoAt
    <3>4. QED
      BY <1>1, <1>m, <1>4, <2>9, <3>2, <3>3, SMT DEF Row, Is, Does, Lost
  <2>10. CASE config.named /\ k = 8 + m
    <3>1. s[k] = [Call("SIOCSIFNAME") EXCEPT !.shuts = "ctl"]
      BY <1>1, <1>3, <2>10
    <3>2. Is(s[k], "SIOCSIFNAME", {"shuts"}) /\ s[k].shuts = "ctl"
      BY <3>1, SMT DEF Call, Does, Is
    <3>3. GotAt(k) = "none" /\ UndoAt(k) = <<>>
      BY <1>1, <1>m, <1>4, <2>10 DEF GotAt, UndoAt
    <3>4. QED
      BY <1>1, <1>m, <1>4, <2>10, <3>2, <3>3, SMT DEF Row, Is, Does, Lost
  <2>11. CASE k = 7 + m + l
    <3>1. s[k] = Call("nonblock")
      BY <1>1, <1>3, <2>11
    <3>2. Is(s[k], "nonblock", {})
      BY <3>1, SMT DEF Call, Does, Is
    <3>3. GotAt(k) = "none" /\ UndoAt(k) = <<>>
      BY <1>1, <1>m, <1>4, <2>11 DEF GotAt, UndoAt
    <3>4. QED
      BY <1>1, <1>m, <1>4, <2>11, <3>2, <3>3, SMT DEF Row, Is, Does, Lost
  <2>12. CASE k = 8 + m + l
    <3>1. s[k] = NewFile
      BY <1>1, <1>3, <2>12
    <3>2. Is(s[k], "NewFile", {"sure", "hands"}) /\ s[k].sure /\ s[k].hands
      BY <3>1, SMT DEF NewFile, Call, Does, Is
    <3>3. GotAt(k) = "none" /\ UndoAt(k) = <<>>
      BY <1>1, <1>m, <1>4, <2>12 DEF GotAt, UndoAt
    <3>4. QED
      BY <1>1, <1>m, <1>4, <2>12, <3>2, <3>3, SMT DEF Row, Is, Does, Lost
  <2>13. QED
    BY <1>1, <1>m, <1>4, <2>1, <2>2, <2>3, <2>4, <2>5, <2>6, <2>7, <2>8, <2>9, <2>10,
       <2>11, <2>12 DEF Number
<1>6. QED
  BY <1>3, <1>4, <1>5 DEF Table, s

LEMMA LinuxTable ==
  ASSUME config \in Configs, platform = "linux"
  PROVE  Table
<1> DEFINE s == OpenCalls
<1>1. config.persist \in BOOLEAN /\ config.ptp \in BOOLEAN /\ config.offloads \in BOOLEAN
      /\ config.named \in BOOLEAN
  BY DEF Configs
<1>m. PICK m \in 0..1, l \in {0, 2} :
       m = Number(config.persist) /\ l = 2 * Number(config.offloads)
  BY <1>1 DEF Number
<1>2. s = CheckName \o Linux(config)
  BY DEF OpenCalls, Stays
<1>3. /\ Len(s) = 8 + m + l
      /\ s[1] = Call("name")
      /\ s[2] = Gets("open", "data")
      /\ s[3] = Call("NewIfreq")
      /\ s[4] = Makes("TUNSETIFF", "bound")
      /\ s[5] = Makes("TUNSETPERSIST", (IF config.persist THEN "kept" ELSE "bound"))
      /\ (config.persist => s[6] = Defers(DestroyIface))
      /\ s[6 + m] = Call("TUNSETOWNER")
      /\ s[7 + m] = Call("TUNSETGROUP")
      /\ s[8 + m] = Call("nonblock")
      /\ (config.offloads => s[9 + m] = [Defers(CloseFd("data")) EXCEPT !.returns = TRUE])
      /\ (config.offloads => s[10 + m] = Call("NewOffloads"))
  BY <1>1, <1>m, <1>2 DEF Linux, Permissions, CheckName, Only, Number
<1> HIDE DEF s
<1>4. LastAt = 8 + m + l /\ LastAt \in Nat
  BY <1>1, <1>m DEF LastAt, Number
<1>5. ASSUME NEW k \in 1..LastAt PROVE Row(s[k], k)
  <2> USE DEF Stays, Final, Naming, Returned, Removal, IfaceAt, MadeAt,
              SettledAt, FileAt, DestroyAt, Number
  <2>1. CASE k = 1
    <3>1. s[k] = Call("name")
      BY <1>1, <1>3, <2>1
    <3>2. Is(s[k], "name", {})
      BY <3>1, SMT DEF Call, Does, Is
    <3>3. GotAt(k) = "none" /\ UndoAt(k) = <<>>
      BY <1>1, <1>m, <1>4, <2>1 DEF GotAt, UndoAt
    <3>4. QED
      BY <1>1, <1>m, <1>4, <2>1, <3>2, <3>3, SMT DEF Row, Is, Does, Lost
  <2>2. CASE k = 2
    <3>1. s[k] = Gets("open", "data")
      BY <1>1, <1>3, <2>2
    <3>2. /\ Is(s[k], "open", {"gets", "undo"}) /\ s[k].gets = "data"
          /\ s[k].undo = <<CloseFd("data")>>
      BY <3>1, SMT DEF Gets, Call, Does, Is
    <3>3. GotAt(k) = "data" /\ UndoAt(k) = <<CloseFd("data")>>
      BY <1>1, <1>m, <1>4, <2>2 DEF GotAt, UndoAt
    <3>4. QED
      BY <1>1, <1>m, <1>4, <2>2, <3>2, <3>3, SMT DEF Row, Is, Does, Lost
  <2>3. CASE k = 3
    <3>1. s[k] = Call("NewIfreq")
      BY <1>1, <1>3, <2>3
    <3>2. Is(s[k], "NewIfreq", {})
      BY <3>1, SMT DEF Call, Does, Is
    <3>3. GotAt(k) = "none" /\ UndoAt(k) = <<>>
      BY <1>1, <1>m, <1>4, <2>3 DEF GotAt, UndoAt
    <3>4. QED
      BY <1>1, <1>m, <1>4, <2>3, <3>2, <3>3, SMT DEF Row, Is, Does, Lost
  <2>4. CASE k = 4
    <3>1. s[k] = Makes("TUNSETIFF", "bound")
      BY <1>1, <1>3, <2>4
    <3>2. Is(s[k], "TUNSETIFF", {"makes"}) /\ s[k].makes = "bound"
      BY <3>1, SMT DEF Makes, Call, Does, Is
    <3>3. GotAt(k) = "none" /\ UndoAt(k) = <<>>
      BY <1>1, <1>m, <1>4, <2>4 DEF GotAt, UndoAt
    <3>4. QED
      BY <1>1, <1>m, <1>4, <2>4, <3>2, <3>3, SMT DEF Row, Is, Does, Lost
  <2>5. CASE k = 5
    <3>1. s[k] = Makes("TUNSETPERSIST", (IF config.persist THEN "kept" ELSE "bound"))
      BY <1>1, <1>3, <2>5
    <3>2. /\ Is(s[k], "TUNSETPERSIST", {"makes"})
          /\ s[k].makes = IF config.persist THEN "kept" ELSE "bound"
      <4>1. PICK i : i = IF config.persist THEN "kept" ELSE "bound"
        OBVIOUS
      <4>2. s[k] = Makes("TUNSETPERSIST", i)
        BY <3>1, <4>1
      <4>3. Is(s[k], "TUNSETPERSIST", {"makes"}) /\ s[k].makes = i
        BY <4>2, SMT DEF Makes, Call, Does, Is
      <4>4. QED
        BY <4>1, <4>3
    <3>3. GotAt(k) = "none" /\ UndoAt(k) = <<>>
      BY <1>1, <1>m, <1>4, <2>5 DEF GotAt, UndoAt
    <3>4. QED
      BY <1>1, <1>m, <1>4, <2>5, <3>2, <3>3, SMT DEF Row, Is, Does, Lost
  <2>6. CASE config.persist /\ k = 6
    <3>1. s[k] = Defers(DestroyIface)
      BY <1>1, <1>3, <2>6
    <3>2. Is(s[k], "defer", {"sure", "undo"}) /\ s[k].sure /\ s[k].undo = <<DestroyIface>>
      BY <3>1, SMT DEF Defers, Call, Does, Is
    <3>3. GotAt(k) = "none" /\ UndoAt(k) = <<DestroyIface>>
      BY <1>1, <1>m, <1>4, <2>6 DEF GotAt, UndoAt
    <3>4. QED
      BY <1>1, <1>m, <1>4, <2>6, <3>2, <3>3, SMT DEF Row, Is, Does, Lost
  <2>7. CASE k = 6 + m
    <3>1. s[k] = Call("TUNSETOWNER")
      BY <1>1, <1>3, <2>7
    <3>2. Is(s[k], "TUNSETOWNER", {})
      BY <3>1, SMT DEF Call, Does, Is
    <3>3. GotAt(k) = "none" /\ UndoAt(k) = <<>>
      BY <1>1, <1>m, <1>4, <2>7 DEF GotAt, UndoAt
    <3>4. QED
      BY <1>1, <1>m, <1>4, <2>7, <3>2, <3>3, SMT DEF Row, Is, Does, Lost
  <2>8. CASE k = 7 + m
    <3>1. s[k] = Call("TUNSETGROUP")
      BY <1>1, <1>3, <2>8
    <3>2. Is(s[k], "TUNSETGROUP", {})
      BY <3>1, SMT DEF Call, Does, Is
    <3>3. GotAt(k) = "none" /\ UndoAt(k) = <<>>
      BY <1>1, <1>m, <1>4, <2>8 DEF GotAt, UndoAt
    <3>4. QED
      BY <1>1, <1>m, <1>4, <2>8, <3>2, <3>3, SMT DEF Row, Is, Does, Lost
  <2>9. CASE k = 8 + m
    <3>1. s[k] = Call("nonblock")
      BY <1>1, <1>3, <2>9
    <3>2. Is(s[k], "nonblock", {})
      BY <3>1, SMT DEF Call, Does, Is
    <3>3. GotAt(k) = "none" /\ UndoAt(k) = <<>>
      BY <1>1, <1>m, <1>4, <2>9 DEF GotAt, UndoAt
    <3>4. QED
      BY <1>1, <1>m, <1>4, <2>9, <3>2, <3>3, SMT DEF Row, Is, Does, Lost
  <2>10. CASE config.offloads /\ k = 9 + m
    <3>1. s[k] = [Defers(CloseFd("data")) EXCEPT !.returns = TRUE]
      BY <1>1, <1>3, <2>10
    <3>2. /\ Is(s[k], "defer", {"sure", "undo", "returns"}) /\ s[k].sure
          /\ s[k].undo = <<CloseFd("data")>> /\ s[k].returns
      BY <3>1, SMT DEF Defers, Call, Does, Is
    <3>3. GotAt(k) = "none" /\ UndoAt(k) = <<CloseFd("data")>>
      BY <1>1, <1>m, <1>4, <2>10 DEF GotAt, UndoAt
    <3>4. QED
      BY <1>1, <1>m, <1>4, <2>10, <3>2, <3>3, SMT DEF Row, Is, Does, Lost
  <2>11. CASE config.offloads /\ k = 10 + m
    <3>1. s[k] = Call("NewOffloads")
      BY <1>1, <1>3, <2>11
    <3>2. Is(s[k], "NewOffloads", {})
      BY <3>1, SMT DEF Call, Does, Is
    <3>3. GotAt(k) = "none" /\ UndoAt(k) = <<>>
      BY <1>1, <1>m, <1>4, <2>11 DEF GotAt, UndoAt
    <3>4. QED
      BY <1>1, <1>m, <1>4, <2>11, <3>2, <3>3, SMT DEF Row, Is, Does, Lost
  <2>12. QED
    BY <1>1, <1>m, <1>4, <2>1, <2>2, <2>3, <2>4, <2>5, <2>6, <2>7, <2>8, <2>9, <2>10,
       <2>11 DEF Number
<1>6. QED
  BY <1>3, <1>4, <1>5 DEF Table, s

LEMMA SolarisTable ==
  ASSUME config \in Configs, platform = "solaris"
  PROVE  Table
<1> DEFINE s == OpenCalls
<1>1. config.persist \in BOOLEAN /\ config.ptp \in BOOLEAN /\ config.offloads \in BOOLEAN
      /\ config.named \in BOOLEAN
  BY DEF Configs
<1>m. PICK m \in 0..1 : m = Number(config.persist)
  BY <1>1 DEF Number
<1>2. s = CheckName \o Solaris(config)
  BY DEF OpenCalls, Stays
<1>3. /\ Len(s) = 12 + m
      /\ s[1] = Call("name")
      /\ s[2] = [Gets("openIp", "ip") EXCEPT !.undo = <<AtReturn("ip")>>]
      /\ s[3] = Gets("open", "data")
      /\ s[4] = Makes("TUNNEWPPA", "bound")
      /\ s[5] = Call("mismatch")
      /\ s[6] = Gets("openLink", "link")
      /\ s[7] = Call("I_PUSH")
      /\ s[8] = Call("IF_UNITSEL")
      /\ s[9] = LinkBelowIp(config)
      /\ s[10] = Call("SIOCSLIFMUXID")
      /\ (config.persist => s[11] = Defers(DestroyIface))
      /\ s[11 + m] = Call("nonblock")
      /\ s[12 + m] = NewFile
  BY <1>1, <1>m, <1>2 DEF Solaris, CheckName, Only, Number
<1> HIDE DEF s
<1>4. LastAt = 12 + m /\ LastAt \in Nat
  BY <1>1, <1>m DEF LastAt, Number
<1>5. ASSUME NEW k \in 1..LastAt PROVE Row(s[k], k)
  <2> USE DEF Stays, Final, Naming, Returned, Removal, IfaceAt, MadeAt,
              SettledAt, FileAt, DestroyAt, Number
  <2>1. CASE k = 1
    <3>1. s[k] = Call("name")
      BY <1>1, <1>3, <2>1
    <3>2. Is(s[k], "name", {})
      BY <3>1, SMT DEF Call, Does, Is
    <3>3. GotAt(k) = "none" /\ UndoAt(k) = <<>>
      BY <1>1, <1>m, <1>4, <2>1 DEF GotAt, UndoAt
    <3>4. QED
      BY <1>1, <1>m, <1>4, <2>1, <3>2, <3>3, SMT DEF Row, Is, Does, Lost
  <2>2. CASE k = 2
    <3>1. s[k] = [Gets("openIp", "ip") EXCEPT !.undo = <<AtReturn("ip")>>]
      BY <1>1, <1>3, <2>2
    <3>2. /\ Is(s[k], "openIp", {"gets", "undo"}) /\ s[k].gets = "ip"
          /\ s[k].undo = <<AtReturn("ip")>>
      BY <3>1, SMT DEF Gets, Call, Does, Is
    <3>3. GotAt(k) = "ip" /\ UndoAt(k) = <<AtReturn("ip")>>
      BY <1>1, <1>m, <1>4, <2>2 DEF GotAt, UndoAt
    <3>4. QED
      BY <1>1, <1>m, <1>4, <2>2, <3>2, <3>3, SMT DEF Row, Is, Does, Lost
  <2>3. CASE k = 3
    <3>1. s[k] = Gets("open", "data")
      BY <1>1, <1>3, <2>3
    <3>2. /\ Is(s[k], "open", {"gets", "undo"}) /\ s[k].gets = "data"
          /\ s[k].undo = <<CloseFd("data")>>
      BY <3>1, SMT DEF Gets, Call, Does, Is
    <3>3. GotAt(k) = "data" /\ UndoAt(k) = <<CloseFd("data")>>
      BY <1>1, <1>m, <1>4, <2>3 DEF GotAt, UndoAt
    <3>4. QED
      BY <1>1, <1>m, <1>4, <2>3, <3>2, <3>3, SMT DEF Row, Is, Does, Lost
  <2>4. CASE k = 4
    <3>1. s[k] = Makes("TUNNEWPPA", "bound")
      BY <1>1, <1>3, <2>4
    <3>2. Is(s[k], "TUNNEWPPA", {"makes"}) /\ s[k].makes = "bound"
      BY <3>1, SMT DEF Makes, Call, Does, Is
    <3>3. GotAt(k) = "none" /\ UndoAt(k) = <<>>
      BY <1>1, <1>m, <1>4, <2>4 DEF GotAt, UndoAt
    <3>4. QED
      BY <1>1, <1>m, <1>4, <2>4, <3>2, <3>3, SMT DEF Row, Is, Does, Lost
  <2>5. CASE k = 5
    <3>1. s[k] = Call("mismatch")
      BY <1>1, <1>3, <2>5
    <3>2. Is(s[k], "mismatch", {})
      BY <3>1, SMT DEF Call, Does, Is
    <3>3. GotAt(k) = "none" /\ UndoAt(k) = <<>>
      BY <1>1, <1>m, <1>4, <2>5 DEF GotAt, UndoAt
    <3>4. QED
      BY <1>1, <1>m, <1>4, <2>5, <3>2, <3>3, SMT DEF Row, Is, Does, Lost
  <2>6. CASE k = 6
    <3>1. s[k] = Gets("openLink", "link")
      BY <1>1, <1>3, <2>6
    <3>2. /\ Is(s[k], "openLink", {"gets", "undo"}) /\ s[k].gets = "link"
          /\ s[k].undo = <<CloseFd("link")>>
      BY <3>1, SMT DEF Gets, Call, Does, Is
    <3>3. GotAt(k) = "link" /\ UndoAt(k) = <<CloseFd("link")>>
      BY <1>1, <1>m, <1>4, <2>6 DEF GotAt, UndoAt
    <3>4. QED
      BY <1>1, <1>m, <1>4, <2>6, <3>2, <3>3, SMT DEF Row, Is, Does, Lost
  <2>7. CASE k = 7
    <3>1. s[k] = Call("I_PUSH")
      BY <1>1, <1>3, <2>7
    <3>2. Is(s[k], "I_PUSH", {})
      BY <3>1, SMT DEF Call, Does, Is
    <3>3. GotAt(k) = "none" /\ UndoAt(k) = <<>>
      BY <1>1, <1>m, <1>4, <2>7 DEF GotAt, UndoAt
    <3>4. QED
      BY <1>1, <1>m, <1>4, <2>7, <3>2, <3>3, SMT DEF Row, Is, Does, Lost
  <2>8. CASE k = 8
    <3>1. s[k] = Call("IF_UNITSEL")
      BY <1>1, <1>3, <2>8
    <3>2. Is(s[k], "IF_UNITSEL", {})
      BY <3>1, SMT DEF Call, Does, Is
    <3>3. GotAt(k) = "none" /\ UndoAt(k) = <<>>
      BY <1>1, <1>m, <1>4, <2>8 DEF GotAt, UndoAt
    <3>4. QED
      BY <1>1, <1>m, <1>4, <2>8, <3>2, <3>3, SMT DEF Row, Is, Does, Lost
  <2>9. CASE k = 9
    <3>1. s[k] = LinkBelowIp(config)
      BY <1>1, <1>3, <2>9
    <3>2. /\ Is(s[k], "I_LINK", {"makes", "links"}) /\ s[k].links
          /\ s[k].makes = IF config.persist THEN "kept" ELSE "bound"
      BY <3>1, LinkIs, Zenon
    <3>3. GotAt(k) = "none" /\ UndoAt(k) = <<>>
      BY <1>1, <1>m, <1>4, <2>9 DEF GotAt, UndoAt
    <3>4. QED
      BY <1>1, <1>m, <1>4, <2>9, <3>2, <3>3, SMT DEF Row, Is, Does, Lost
  <2>10. CASE k = 10
    <3>1. s[k] = Call("SIOCSLIFMUXID")
      BY <1>1, <1>3, <2>10
    <3>2. Is(s[k], "SIOCSLIFMUXID", {})
      BY <3>1, SMT DEF Call, Does, Is
    <3>3. GotAt(k) = "none" /\ UndoAt(k) = <<>>
      BY <1>1, <1>m, <1>4, <2>10 DEF GotAt, UndoAt
    <3>4. QED
      BY <1>1, <1>m, <1>4, <2>10, <3>2, <3>3, SMT DEF Row, Is, Does, Lost
  <2>11. CASE config.persist /\ k = 11
    <3>1. s[k] = Defers(DestroyIface)
      BY <1>1, <1>3, <2>11
    <3>2. Is(s[k], "defer", {"sure", "undo"}) /\ s[k].sure /\ s[k].undo = <<DestroyIface>>
      BY <3>1, SMT DEF Defers, Call, Does, Is
    <3>3. GotAt(k) = "none" /\ UndoAt(k) = <<DestroyIface>>
      BY <1>1, <1>m, <1>4, <2>11 DEF GotAt, UndoAt
    <3>4. QED
      BY <1>1, <1>m, <1>4, <2>11, <3>2, <3>3, SMT DEF Row, Is, Does, Lost
  <2>12. CASE k = 11 + m
    <3>1. s[k] = Call("nonblock")
      BY <1>1, <1>3, <2>12
    <3>2. Is(s[k], "nonblock", {})
      BY <3>1, SMT DEF Call, Does, Is
    <3>3. GotAt(k) = "none" /\ UndoAt(k) = <<>>
      BY <1>1, <1>m, <1>4, <2>12 DEF GotAt, UndoAt
    <3>4. QED
      BY <1>1, <1>m, <1>4, <2>12, <3>2, <3>3, SMT DEF Row, Is, Does, Lost
  <2>13. CASE k = 12 + m
    <3>1. s[k] = NewFile
      BY <1>1, <1>3, <2>13
    <3>2. Is(s[k], "NewFile", {"sure", "hands"}) /\ s[k].sure /\ s[k].hands
      BY <3>1, SMT DEF NewFile, Call, Does, Is
    <3>3. GotAt(k) = "none" /\ UndoAt(k) = <<>>
      BY <1>1, <1>m, <1>4, <2>13 DEF GotAt, UndoAt
    <3>4. QED
      BY <1>1, <1>m, <1>4, <2>13, <3>2, <3>3, SMT DEF Row, Is, Does, Lost
  <2>14. QED
    BY <1>1, <1>m, <1>4, <2>1, <2>2, <2>3, <2>4, <2>5, <2>6, <2>7, <2>8, <2>9, <2>10,
       <2>11, <2>12, <2>13 DEF Number
<1>6. QED
  BY <1>3, <1>4, <1>5 DEF Table, s

LEMMA Tables == ASSUME platform \in Platforms, config \in Configs PROVE Table
BY OpenBSDTable, DarwinTable, NetBSDTable, FreeBSDTable, LinuxTable, SolarisTable
  DEF Platforms

LEMMA Places ==
  ASSUME platform \in Platforms, config \in Configs
  PROVE  /\ LastAt \in Nat /\ LastAt >= 5 /\ (platform = "linux" => LastAt >= 8)
         /\ platform \in {"freebsd", "dragonfly"} => LastAt >= 8
         /\ platform = "netbsd" => LastAt >= 7
         /\ platform = "solaris" => LastAt >= 12
         /\ Stays => DestroyAt <= LastAt
<1>1. config.persist \in BOOLEAN /\ config.ptp \in BOOLEAN /\ config.offloads \in BOOLEAN
      /\ config.named \in BOOLEAN
  BY DEF Configs
<1>2. \A b \in BOOLEAN : Number(b) \in 0..1
  BY DEF Number
<1>3. QED
  BY <1>1, <1>2 DEF LastAt, Platforms, Stays, DestroyAt, Number

(* The socket of setTunName is open after one call only. *)
LEMMA NamingPlace ==
  ASSUME platform \in Platforms, config \in Configs, NEW k \in 0..LastAt, Naming(k)
  PROVE  platform \in {"freebsd", "dragonfly"} /\ k >= 7 /\ k < LastAt /\ ~Naming(k - 1)
<1>1. PICK m \in 0..1 : m = Number(~config.ptp)
  BY DEF Configs, Number
<1>2. LastAt = 10 + m /\ k = 7 + m
  BY <1>1 DEF Naming, LastAt, Number
<1>3. ~Naming(k - 1)
  BY <1>1, <1>2 DEF Naming
<1>4. QED
  BY <1>2, <1>3 DEF Naming

LEMMA LiveStep ==
  ASSUME platform \in Platforms, config \in Configs, NEW k \in 1..LastAt
  PROVE  /\ GotAt(k) = "none" /\ ~Naming(k - 1) => LiveAt(k) = LiveAt(k - 1)
         /\ GotAt(k) # "none" => /\ GotAt(k) \in Roles /\ GotAt(k) \notin LiveAt(k - 1)
                                 /\ LiveAt(k) = LiveAt(k - 1) \cup {GotAt(k)}
                                 /\ ~Naming(k - 1)
         /\ Naming(k - 1) => /\ "ctl" \in LiveAt(k - 1)
                             /\ LiveAt(k) = LiveAt(k - 1) \ {"ctl"}
<1>1. LastAt \in Nat
  BY Places
<1>2. CASE Naming(k) \/ Naming(k - 1)
  <2>1. platform \in {"freebsd", "dragonfly"} /\ k >= 7 /\ ~(Naming(k) /\ Naming(k - 1))
    BY <1>1, <1>2, NamingPlace
  <2>2. QED
    BY <1>2, <2>1 DEF GotAt, LiveAt, Roles
<1>3. CASE ~Naming(k) /\ ~Naming(k - 1)
  BY <1>1, <1>3 DEF GotAt, LiveAt, Roles, Platforms
<1>4. QED
  BY <1>2, <1>3

LEMMA PlaceOf ==
  ASSUME platform \in Platforms, config \in Configs, NEW k \in 0..LastAt
  PROVE  /\ ClosersAt(k) \in Closers /\ DeferredAt(k) \in Seq(Undos)
         /\ \/ DeferredAt(k) = ClosersAt(k) /\ ~Removal(k)
            \/ Stays /\ DeferredAt(k) = Push(DestroyIface, ClosersAt(k))
         /\ ToClose(DeferredAt(k)) = LiveAt(k) \ {"ctl"}
         /\ "ctl" \in LiveAt(k) <=> Naming(k)
         /\ IfaceAt(k) \in {"none", "bound", "kept"}
         /\ IfaceAt(k) # "none" => "data" \in LiveAt(k)
         /\ LinkedAt(k) \in BOOLEAN /\ FileAt(k) \in BOOLEAN
<1>1. LastAt \in Nat
  BY Places
<1>2. ClosersAt(k) \in Closers
  BY DEF ClosersAt, Closers
<1>3. ClosersAt(k) \in Seq(Undos)
  BY <1>2, CloserFields
<1>4. ToClose(ClosersAt(k)) = LiveAt(k) \ {"ctl"}
  BY <1>1, CloserFields DEF ClosersAt, LiveAt
<1>5. ToClose(DeferredAt(k)) = ToClose(ClosersAt(k)) /\ DeferredAt(k) \in Seq(Undos)
  BY <1>3, PushKinds, Zenon DEF DeferredAt
<1>6. "ctl" \in LiveAt(k) <=> Naming(k)
  BY <1>1 DEF LiveAt
<1>7. /\ IfaceAt(k) \in {"none", "bound", "kept"}
      /\ IfaceAt(k) # "none" => "data" \in LiveAt(k)
  BY <1>1 DEF IfaceAt, LiveAt, MadeAt, Final
<1>8. Stays \/ ~Removal(k)
  BY DEF Removal
<1>9. QED
  BY <1>2, <1>4, <1>5, <1>6, <1>7, <1>8 DEF DeferredAt, LinkedAt, FileAt

LEMMA DeferStep ==
  ASSUME platform \in Platforms, config \in Configs, NEW k \in 1..LastAt
  PROVE  UndoAt(k) \o (IF Returned(k) /\ k = LastAt - 1 THEN <<>> ELSE DeferredAt(k - 1))
           = DeferredAt(k)
<1>1. LastAt \in Nat
  BY Places
<1>2. DeferredAt(k - 1) \in Seq(Undos)
  BY <1>1, PlaceOf
<1> DEFINE back == Returned(k) /\ k = LastAt - 1
<1>3. CASE back
  <2>1. UndoAt(k) = <<CloseFd("data")>>
    BY <1>3, Zenon DEF UndoAt
  <2>2. ~Removal(k) /\ ClosersAt(k) = Data
    BY <1>1, <1>3, Places DEF Returned, Removal, ClosersAt
  <2>3. QED
    BY <1>3, <2>1, <2>2, Zenon DEF DeferredAt, Data, Push, None
<1>4. CASE ~back /\ GotAt(k) \in {"data", "ip", "link"}
  <2>1. ~Removal(k) /\ ~Removal(k - 1)
    BY <1>1, <1>4, Places DEF Removal, GotAt, DestroyAt, Stays, Naming
  <2>2. CASE GotAt(k) = "data"
    <3>1. UndoAt(k) = <<CloseFd("data")>>
      BY <2>2, Zenon DEF UndoAt
    <3>2. \/ ClosersAt(k) = Data /\ ClosersAt(k - 1) = None
          \/ ClosersAt(k) = Two /\ ClosersAt(k - 1) = Ip
      BY <1>1, <2>2 DEF GotAt, ClosersAt
    <3>3. QED
      BY <1>4, <2>1, <3>1, <3>2, Zenon DEF DeferredAt, Data, Two, Push
  <2>3. CASE GotAt(k) = "ip"
    <3>1. UndoAt(k) = <<AtReturn("ip")>>
      BY <1>4, <2>3 DEF UndoAt
    <3>2. ClosersAt(k) = Ip /\ ClosersAt(k - 1) = None
      BY <1>1, <2>3 DEF GotAt, ClosersAt
    <3>3. QED
      BY <1>4, <2>1, <3>1, <3>2, Zenon DEF DeferredAt, Ip, Push
  <2>4. CASE GotAt(k) = "link"
    <3>1. UndoAt(k) = <<CloseFd("link")>>
      BY <1>4, <2>4 DEF UndoAt
    <3>2. ClosersAt(k) = All /\ ClosersAt(k - 1) = Two
      BY <1>1, <2>4 DEF GotAt, ClosersAt
    <3>3. QED
      BY <1>4, <2>1, <3>1, <3>2, Zenon DEF DeferredAt, All, Push
  <2>5. QED
    BY <1>4, <2>2, <2>3, <2>4
<1>5. CASE ~back /\ GotAt(k) \notin {"data", "ip", "link"}
  <2>1. ClosersAt(k) = ClosersAt(k - 1)
    BY <1>1, <1>5 DEF GotAt, ClosersAt
  <2>2. CASE Stays /\ k = DestroyAt
    <3>1. UndoAt(k) = <<DestroyIface>>
      BY <1>5, <2>2 DEF UndoAt
    <3>2. Removal(k) /\ ~Removal(k - 1)
      BY <1>1, <2>2, Places DEF Removal, Returned, DestroyAt, LastAt, Number, Stays
    <3>3. QED
      BY <1>5, <2>1, <3>1, <3>2, Zenon DEF DeferredAt, Push
  <2>3. CASE ~(Stays /\ k = DestroyAt)
    <3>1. UndoAt(k) = <<>>
      BY <1>5, <2>3 DEF UndoAt
    <3>2. DestroyAt \in Nat /\ (Returned(k) <=> Returned(k - 1))
      BY <1>1, <1>5 DEF Returned, DestroyAt
    <3>3. Removal(k) <=> Removal(k - 1)
      BY <1>1, <2>3, <3>2 DEF Removal
    <3>4. DeferredAt(k) = DeferredAt(k - 1)
      BY <2>1, <3>3, Zenon DEF DeferredAt
    <3>5. <<>> \o DeferredAt(k - 1) = DeferredAt(k - 1)
      BY <1>2
    <3>6. QED
      BY <1>5, <3>1, <3>4, <3>5, Zenon
  <2>4. QED
    BY <2>2, <2>3
<1>6. QED
  BY <1>3, <1>4, <1>5

(* Before the first call and after the last. *)
LEMMA Ends ==
  ASSUME platform \in Platforms, config \in Configs
  PROVE  /\ IfaceAt(0) = "none" /\ ~LinkedAt(0) /\ ~FileAt(0) /\ DeferredAt(0) = None
         /\ LiveAt(0) = {}
         /\ IfaceAt(LastAt) = Final /\ (LinkedAt(LastAt) <=> platform = "solaris")
         /\ LiveAt(LastAt) = Held \cup IF platform = "solaris" THEN {"ip"} ELSE {}
         /\ ~Naming(LastAt)
<1>1. LastAt \in Nat /\ 0 \in 0..LastAt /\ LastAt \in 0..LastAt
  BY Places
<1>2. ~Naming(0) /\ ~Naming(LastAt)
  BY <1>1, NamingPlace
<1>3. IfaceAt(0) = "none" /\ ~LinkedAt(0) /\ LiveAt(0) = {}
  BY <1>2 DEF IfaceAt, MadeAt, LinkedAt, LiveAt
<1>4. ~FileAt(0)
  BY Places DEF FileAt
<1>5. DeferredAt(0) = None
  BY DEF DeferredAt, Removal, DestroyAt, ClosersAt
<1>6. IfaceAt(LastAt) = Final
  BY Places DEF IfaceAt, MadeAt, SettledAt
<1>7. LinkedAt(LastAt) <=> platform = "solaris"
  BY Places DEF LinkedAt
<1>8. LiveAt(LastAt) = Held \cup IF platform = "solaris" THEN {"ip"} ELSE {}
  BY <1>2, Places DEF LiveAt, Held
<1>9. QED
  BY <1>2, <1>3, <1>4, <1>5, <1>6, <1>7, <1>8

(* The calls of Destroy: the first gets its own descriptor, the last removes *)
(* the interface.                                                            *)
DestroyRow(c, k) ==
  /\ c.gets = IF k = 1 THEN "ctl" ELSE "none"
  /\ c.undo = IF k = 1 THEN <<AtReturn("ctl")>> ELSE <<>>
  /\ c.shuts = "none" /\ c.makes = "same"
  /\ ~c.links /\ ~c.hands /\ ~c.returns /\ ~c.sure
  /\ c.removes <=> k = Len(DestroyCalls)
  /\ c.loses => c.removes /\ platform = "linux"

LEMMA DestroyTable ==
  ASSUME platform \in Destroyable
  PROVE  /\ Len(DestroyCalls) \in 2..4
         /\ \A k \in 1..Len(DestroyCalls) : DestroyRow(DestroyCalls[k], k)
<1> DEFINE s == DestroyCalls
<1>1. CASE platform = "linux"
  <2>1. /\ Len(s) = 4 /\ s[1] = Opens("socket")
        /\ s[2] = Call("bind") /\ s[3] = Call("sendto")
        /\ s[4] = [Removes("recvfrom") EXCEPT !.loses = TRUE]
    BY <1>1 DEF DestroyCalls, LinuxDestroy
  <2> HIDE DEF s
  <2>2. DestroyRow(s[1], 1)
    <3>1. /\ Is(s[1], "socket", {"gets", "undo"})
          /\ s[1].gets = "ctl" /\ s[1].undo = <<AtReturn("ctl")>>
      BY <2>1, SMT DEF Opens, Gets, Call, Does, Is
    <3>2. QED
      BY <2>1, <3>1 DEF DestroyRow, Is, Does, s
  <2>3. DestroyRow(s[2], 2) /\ DestroyRow(s[3], 3)
    BY <2>1, SMT DEF Call, DestroyRow, s
  <2>4. DestroyRow(s[4], 4)
    BY <1>1, <2>1, SMT DEF Removes, Call, DestroyRow, s
  <2>5. 1..Len(s) = {1, 2, 3, 4}
    BY <2>1
  <2>6. \A k \in 1..Len(s) : DestroyRow(s[k], k)
    BY <2>2, <2>3, <2>4, <2>5, Zenon
  <2>7. QED
    BY <2>1, <2>6 DEF s
<1>2. CASE platform = "solaris"
  <2>1. /\ Len(s) = 3 /\ s[1] = Opens("openIp") /\ s[2] = Call("SIOCGLIFMUXID")
        /\ s[3] = Removes("I_PUNLINK")
    BY <1>2 DEF DestroyCalls, SolarisDestroy
  <2> HIDE DEF s
  <2>2. DestroyRow(s[1], 1)
    BY <2>1, SMT DEF Opens, Gets, Call, DestroyRow, s
  <2>3. DestroyRow(s[2], 2)
    BY <2>1, SMT DEF Call, DestroyRow, s
  <2>4. DestroyRow(s[3], 3)
    BY <2>1, SMT DEF Removes, Call, DestroyRow, s
  <2>5. QED
    BY <2>1, <2>2, <2>3, <2>4 DEF s
<1>3. CASE platform \notin {"linux", "solaris"}
  <2>1. Len(s) = 2 /\ s[1] = Opens("socket") /\ s[2] = Removes("SIOCIFDESTROY")
    BY <1>3 DEF DestroyCalls, BSDDestroy
  <2> HIDE DEF s
  <2>2. DestroyRow(s[1], 1)
    BY <2>1, SMT DEF Opens, Gets, Call, DestroyRow, s
  <2>3. DestroyRow(s[2], 2)
    BY <2>1, SMT DEF Removes, Call, DestroyRow, s
  <2>4. QED
    BY <2>1, <2>2, <2>3 DEF s
<1>4. QED
  BY <1>1, <1>2, <1>3

-----------------------------------------------------------------------------
(* Descriptors *)

LEMMA TakeOwned ==
  ASSUME NEW f \in [Roles -> Fds \cup {NoFd}], NEW o \in [Fds -> Who],
         NEW L, L \subseteq Roles, Owned(f, o, L),
         NEW r \in Roles, r \notin L, NEW n \in Fds, o[n] = "nobody"
  PROVE  Owned([f EXCEPT ![r] = n], [o EXCEPT ![n] = "tun"], L \cup {r})
<1> DEFINE g == [f EXCEPT ![r] = n]
           p == [o EXCEPT ![n] = "tun"]
<1>1. g[r] = n /\ \A q \in L : g[q] = f[q] /\ f[q] # n
  BY DEF Owned
<1>2. p[n] = "tun" /\ \A m \in Fds : m # n => p[m] = o[m]
  OBVIOUS
<1> HIDE DEF g, p
<1>3. Owned(g, p, L \cup {r})
  BY <1>1, <1>2 DEF Owned
<1>4. QED
  BY <1>3 DEF g, p

LEMMA CloseOwned ==
  ASSUME NEW f \in [Roles -> Fds \cup {NoFd}], NEW o \in [Fds -> Who],
         NEW L, L \subseteq Roles, Owned(f, o, L), NEW rs, rs \subseteq L
  PROVE  /\ ~\E r \in rs : o[f[r]] # "tun"
         /\ LET p == [n \in Fds |-> IF \E r \in rs : f[r] = n THEN "nobody" ELSE o[n]]
            IN Owned(f, p, L \ rs)
BY DEF Owned

LEMMA TakeStep ==
  ASSUME DescriptorTypes, NEW L, L \subseteq Roles, Owned(fd, owner, L),
         NEW r \in Roles, r \notin L, TakeFd(r)
  PROVE  DescriptorTypes' /\ Owned(fd', owner', L \cup {r}) /\ stray' = stray
<1>1. PICK n \in Fds : /\ owner[n] = "nobody" /\ owner' = [owner EXCEPT ![n] = "tun"]
                       /\ fd' = [fd EXCEPT ![r] = n] /\ stray' = stray
  BY DEF TakeFd
<1>2. Owned(fd', owner', L \cup {r})
  BY <1>1, TakeOwned DEF DescriptorTypes
<1>3. QED
  BY <1>1, <1>2 DEF DescriptorTypes, Who

LEMMA CloseStep ==
  ASSUME DescriptorTypes, NEW L, L \subseteq Roles, Owned(fd, owner, L),
         NEW rs, rs \subseteq L, CloseNumbers(rs)
  PROVE  DescriptorTypes' /\ Owned(fd', owner', L \ rs) /\ stray' = stray
<1>1. /\ ~\E r \in rs : owner[fd[r]] # "tun"
      /\ LET p == [n \in Fds |-> IF \E r \in rs : fd[r] = n THEN "nobody" ELSE owner[n]]
         IN Owned(fd, p, L \ rs)
  BY CloseOwned DEF DescriptorTypes
<1>2. QED
  BY <1>1 DEF CloseNumbers, DescriptorTypes, Who

(* The file of a device that was not handed out: its descriptors may be     *)
(* somebody else's by then.                                                 *)
LEMMA CloseNone ==
  ASSUME DescriptorTypes, Owned(fd, owner, {}), NEW rs, CloseNumbers(rs)
  PROVE  DescriptorTypes' /\ Owned(fd', owner', {})
BY DEF CloseNumbers, DescriptorTypes, Owned, Who

(* The alternatives of an action that are told apart by CASE. *)

LEMMA DescriptorsOf ==
  ASSUME NEW c, Descriptors(c), c.gets = "none" \/ c.shuts = "none"
  PROVE  /\ c.gets # "none" => TakeFd(c.gets)
         /\ c.gets = "none" /\ c.shuts # "none" => CloseNumbers({c.shuts})
         /\ c.gets = "none" /\ c.shuts = "none" => UNCHANGED fds
<1>1. ASSUME c.gets # "none", ~(c.shuts # "none") PROVE TakeFd(c.gets)
  BY <1>1 DEF Descriptors
<1>2. ASSUME ~(c.gets # "none"), c.shuts # "none" PROVE CloseNumbers({c.shuts})
  BY <1>2 DEF Descriptors
<1>3. ASSUME ~(c.gets # "none"), ~(c.shuts # "none") PROVE UNCHANGED fds
  BY <1>3 DEF Descriptors
<1>4. QED
  BY <1>1, <1>2, <1>3

LEMMA InterfaceOf ==
  ASSUME NEW c, Interface(c), ~c.removes \/ c.makes = "same"
  PROVE  /\ iface' = IF c.removes THEN Remains
                     ELSE IF c.makes # "same" THEN c.makes ELSE iface
         /\ linked' = ((linked /\ ~c.removes) \/ c.links)
<1>1. ASSUME c.removes, ~(c.makes # "same") PROVE iface' = Remains
  BY <1>1 DEF Interface
<1>2. ASSUME ~c.removes, c.makes # "same" PROVE iface' = c.makes
  BY <1>2 DEF Interface
<1>3. ASSUME ~c.removes, ~(c.makes # "same") PROVE iface' = iface
  BY <1>3 DEF Interface
<1>4. QED
  BY <1>1, <1>2, <1>3 DEF Interface

LEMMA DeferredOf ==
  ASSUME RunDeferred
  PROVE  LET u == Head(deferred)
         IN /\ phase = "unwind" /\ deferred # <<>> /\ deferred' = Tail(deferred)
            /\ UNCHANGED <<platform, config, failedAt, destroyed, file>>
            /\ failedAt = "none" /\ ~u.always => UNCHANGED <<phase, at, fds, ifaces>>
            /\ u.does = "Destroy" /\ failedAt # "none" =>
                 EnterDestroy /\ UNCHANGED <<fds, ifaces>>
            /\ u.does = "close" /\ (failedAt # "none" \/ u.always) =>
                 CloseNumbers({u.role}) /\ Unbind({u.role}) /\ UNCHANGED <<phase, at>>
<1> DEFINE u == Head(deferred)
<1>1. ASSUME failedAt = "none", ~u.always PROVE UNCHANGED <<phase, at, fds, ifaces>>
  BY <1>1 DEF RunDeferred
<1>2. ASSUME u.does = "Destroy", ~(failedAt = "none")
      PROVE  EnterDestroy /\ UNCHANGED <<fds, ifaces>>
  BY <1>2 DEF RunDeferred
<1>3. ASSUME u.does = "close", ~(failedAt = "none") \/ u.always
      PROVE  CloseNumbers({u.role}) /\ Unbind({u.role}) /\ UNCHANGED <<phase, at>>
  BY <1>3 DEF RunDeferred
<1>4. QED
  BY <1>1, <1>2, <1>3 DEF RunDeferred

-----------------------------------------------------------------------------
(* The calls of an open path *)

LEMMA SameTables ==
  ASSUME UNCHANGED <<platform, config>>, NEW k
  PROVE  /\ LastAt' = LastAt /\ LiveAt(k)' = LiveAt(k) /\ IfaceAt(k)' = IfaceAt(k)
         /\ LinkedAt(k)' = LinkedAt(k) /\ FileAt(k)' = FileAt(k)
         /\ DeferredAt(k)' = DeferredAt(k)
<1>1. LastAt' = LastAt
  BY DEF LastAt
<1>2. Naming(k)' = Naming(k) /\ Final' = Final /\ Stays' = Stays
  BY DEF Naming, Final, Stays
<1>3. LiveAt(k)' = LiveAt(k)
  BY <1>2 DEF LiveAt
<1>4. IfaceAt(k)' = IfaceAt(k)
  BY <1>2 DEF IfaceAt, MadeAt, SettledAt
<1>5. LinkedAt(k)' = LinkedAt(k) /\ FileAt(k)' = FileAt(k)
  BY <1>1 DEF LinkedAt, FileAt
<1>6. Removal(k)' = Removal(k)
  BY <1>1, <1>2 DEF Removal, DestroyAt, Returned
<1>7. DeferredAt(k)' = DeferredAt(k)
  BY <1>6 DEF DeferredAt, ClosersAt
<1>8. QED
  BY <1>1, <1>3, <1>4, <1>5, <1>7

LEMMA SameDevice ==
  ASSUME UNCHANGED <<platform, config>>
  PROVE  /\ Stays' = Stays /\ Final' = Final /\ Held' = Held
         /\ DestroyCalls' = DestroyCalls
         /\ failedAt' = failedAt => /\ InterfaceLost' = InterfaceLost
                                    /\ DescriptorLost' = DescriptorLost
                                    /\ ClosedTwice' = ClosedTwice
<1>1. Stays' = Stays /\ Final' = Final /\ Held' = Held
  BY DEF Stays, Final, Held
<1>2. DestroyCalls' = DestroyCalls
  BY DEF DestroyCalls
<1>3. QED
  BY <1>1, <1>2 DEF InterfaceLost, DescriptorLost, ClosedTwice

LEMMA LiveRoles == ASSUME NEW k PROVE LiveAt(k) \subseteq Roles
BY DEF LiveAt, Roles

(* What the invariant says before call k. *)
LEMMA BeforeCall ==
  ASSUME IInv, phase = "run", NEW k, k = at + 1, at < Len(Calls)
  PROVE  /\ platform \in Platforms /\ config \in Configs /\ LastAt \in Nat
         /\ k \in 1..LastAt /\ at = k - 1 /\ k - 1 \in 0..LastAt
         /\ Calls = OpenCalls /\ Row(OpenCalls[k], k)
         /\ failedAt = "none" /\ destroyed = "never"
         /\ iface = IfaceAt(k - 1) /\ linked = LinkedAt(k - 1)
         /\ file = FileAt(k - 1) /\ deferred = DeferredAt(k - 1)
         /\ Owned(fd, owner, LiveAt(k - 1)) /\ DescriptorTypes /\ ~stray
<1>1. platform \in Platforms /\ config \in Configs /\ Calls = OpenCalls
  BY DEF IInv, Types, Calls
<1>2. Table
  BY <1>1, Tables
<1>3. at \in 0..LastAt /\ LastAt \in Nat /\ at < LastAt
  BY <1>1, <1>2 DEF IInv, Along, Table
<1>4. k \in 1..LastAt /\ at = k - 1
  BY <1>3
<1>5. Owned(fd, owner, LiveAt(k - 1))
  BY <1>4 DEF IInv, Accounted, Live
<1>6. ~stray
  BY DEF IInv, Along, NoStrayClose, ClosedTwice
<1>7. DescriptorTypes
  BY DEF IInv, Types
<1>8. /\ failedAt = "none" /\ destroyed = "never"
      /\ iface = IfaceAt(k - 1) /\ linked = LinkedAt(k - 1)
      /\ file = FileAt(k - 1) /\ deferred = DeferredAt(k - 1)
  BY <1>4 DEF IInv, Along
<1>9. QED
  BY <1>1, <1>2, <1>3, <1>4, <1>5, <1>6, <1>7, <1>8 DEF Table

LEMMA SucceedRun == ASSUME IInv, phase = "run", Succeed PROVE IInv'
<1>1. PICK k : k = at + 1
  OBVIOUS
<1> DEFINE c == OpenCalls[k]
<1>2. at < Len(Calls)
  BY DEF Succeed
<1>3. /\ Descriptors(c) /\ Interface(c)
      /\ deferred' = c.undo \o IF c.returns THEN <<>> ELSE deferred
      /\ file' = (file \/ c.hands) /\ at' = k
      /\ UNCHANGED <<platform, config, phase, failedAt, destroyed>>
  BY <1>1, <1>2, BeforeCall DEF Succeed
<1>4. Row(c, k)
  BY <1>1, <1>2, BeforeCall
<1> HIDE DEF c
<1>5. k \in 1..LastAt /\ LastAt \in Nat /\ platform \in Platforms /\ config \in Configs
  BY <1>1, <1>2, BeforeCall
<1>6. Along'
  <2>1. iface' = IfaceAt(k) /\ linked' = LinkedAt(k)
    <3>1. ~c.removes /\ linked = LinkedAt(k - 1) /\ iface = IfaceAt(k - 1)
      BY <1>1, <1>2, <1>4, BeforeCall DEF Row
    <3>2. /\ iface' = IF c.makes # "same" THEN c.makes ELSE iface
          /\ linked' = (linked \/ c.links)
      BY <1>3, <3>1, InterfaceOf
    <3>3. LinkedAt(k) <=> LinkedAt(k - 1) \/ c.links
      BY <1>4, <1>5 DEF Row, LinkedAt
    <3>4. LinkedAt(k) \in BOOLEAN
      BY DEF LinkedAt
    <3>5. linked' = LinkedAt(k)
      BY <3>1, <3>2, <3>3, <3>4
    <3>6. QED
      BY <1>4, <3>1, <3>2, <3>5 DEF Row
  <2>2. deferred' = DeferredAt(k)
    <3>1. deferred = DeferredAt(k - 1) /\ c.undo = UndoAt(k)
      BY <1>1, <1>2, <1>4, BeforeCall DEF Row
    <3>2. c.returns <=> Returned(k) /\ k = LastAt - 1
      BY <1>4 DEF Row
    <3>3. UndoAt(k) \o (IF Returned(k) /\ k = LastAt - 1 THEN <<>> ELSE DeferredAt(k - 1))
            = DeferredAt(k)
      BY <1>5, DeferStep
    <3>4. CASE c.returns
      BY <1>3, <3>1, <3>2, <3>3, <3>4, Zenon
    <3>5. CASE ~c.returns
      BY <1>3, <3>1, <3>2, <3>3, <3>5, Zenon
    <3>6. QED
      BY <3>4, <3>5
  <2>3. file' = FileAt(k)
    <3>1. file = FileAt(k - 1) /\ (FileAt(k) <=> FileAt(k - 1) \/ c.hands)
      BY <1>1, <1>2, <1>4, BeforeCall DEF Row
    <3>2. FileAt(k) \in BOOLEAN
      BY DEF FileAt
    <3>3. QED
      BY <1>3, <3>1, <3>2
  <2>4. failedAt = "none" /\ destroyed = "never" /\ k \in 0..LastAt
    BY <1>1, <1>2, <1>5, BeforeCall
  <2>5. QED
    BY <1>3, <2>1, <2>2, <2>3, <2>4, SameTables DEF Along
<1>7. Owned(fd', owner', LiveAt(k)) /\ DescriptorTypes' /\ ~stray'
  <2>1. /\ Owned(fd, owner, LiveAt(k - 1)) /\ DescriptorTypes /\ ~stray
        /\ c.gets = GotAt(k) /\ c.shuts = (IF Naming(k - 1) THEN "ctl" ELSE "none")
    BY <1>1, <1>2, <1>4, BeforeCall DEF Row
  <2>2. GotAt(k) = "none" \/ ~Naming(k - 1)
    BY <1>5, LiveStep
  <2>3. CASE GotAt(k) # "none"
    <3>1. /\ GotAt(k) \in Roles /\ GotAt(k) \notin LiveAt(k - 1)
          /\ LiveAt(k) = LiveAt(k - 1) \cup {GotAt(k)}
      BY <1>5, <2>3, LiveStep
    <3>2. TakeFd(GotAt(k))
      BY <1>3, <2>1, <2>2, <2>3, DescriptorsOf
    <3>3. QED
      BY <2>1, <3>1, <3>2, LiveRoles, TakeStep
  <2>4. CASE Naming(k - 1)
    <3>1. {"ctl"} \subseteq LiveAt(k - 1) /\ LiveAt(k) = LiveAt(k - 1) \ {"ctl"}
      BY <1>5, <2>4, LiveStep
    <3>2. CloseNumbers({"ctl"})
      BY <1>3, <2>1, <2>2, <2>4, DescriptorsOf
    <3>3. QED
      BY <2>1, <3>1, <3>2, LiveRoles, CloseStep
  <2>5. CASE GotAt(k) = "none" /\ ~Naming(k - 1)
    <3>1. UNCHANGED fds
      BY <1>3, <2>1, <2>5, DescriptorsOf
    <3>2. LiveAt(k) = LiveAt(k - 1)
      BY <1>5, <2>5, LiveStep
    <3>3. QED
      BY <2>1, <3>1, <3>2 DEF fds, DescriptorTypes
  <2>6. QED
    BY <2>3, <2>4, <2>5
<1>8. Live' = LiveAt(k)
  BY <1>3, SameTables DEF Live
<1>9. Types'
  <2>1. /\ iface' \in {"none", "bound", "kept"} /\ linked' \in BOOLEAN /\ file' \in BOOLEAN
    <3>1. k \in 0..LastAt
      BY <1>5
    <3>2. iface' = IfaceAt(k) /\ linked' = LinkedAt(k) /\ file' = FileAt(k)
      BY <1>3, <1>6, SameTables DEF Along
    <3>3. QED
      BY <1>5, <3>1, <3>2, PlaceOf
  <2>2. QED
    BY <1>3, <1>5, <1>6, <1>7, <2>1 DEF Types, IInv, Along
<1>10. QED
  BY <1>3, <1>6, <1>7, <1>8, <1>9
    DEF IInv, Waiting, Accounted, FailedIface, OpenIface, NoStrayClose

(* A call of the open path fails, and leaves nothing. *)
LEMMA FailRun ==
  ASSUME IInv, phase = "run", Fail,
         IF OpenCalls[at + 1].shuts # "none"
         THEN CloseNumbers({OpenCalls[at + 1].shuts}) ELSE UNCHANGED fds,
         UNCHANGED ifaces
  PROVE  IInv'
<1>1. PICK k : k = at + 1
  OBVIOUS
<1> DEFINE c == OpenCalls[k]
<1>2. at < Len(Calls)
  BY DEF Fail
<1>3. /\ ~c.sure /\ failedAt' = c.call /\ phase' = "unwind"
      /\ IF c.shuts # "none" THEN CloseNumbers({c.shuts}) ELSE UNCHANGED fds
      /\ UNCHANGED <<platform, config, at, file, deferred, destroyed, iface, linked>>
  BY <1>1, <1>2, BeforeCall DEF Fail, ifaces
<1>4. Row(c, k)
  BY <1>1, <1>2, BeforeCall
<1> HIDE DEF c
<1>5. /\ k \in 1..LastAt /\ k - 1 \in 0..LastAt /\ LastAt \in Nat
      /\ platform \in Platforms /\ config \in Configs
      /\ destroyed = "never" /\ iface = IfaceAt(k - 1) /\ file = FileAt(k - 1)
      /\ deferred = DeferredAt(k - 1)
  BY <1>1, <1>2, BeforeCall
<1>6. failedAt' # "none" /\ Stays' = Stays
  BY <1>3, <1>4, SameDevice DEF Row
<1>7. /\ ClosersAt(k - 1) \in Closers
      /\ \/ deferred = ClosersAt(k - 1) /\ ~Removal(k - 1)
         \/ Stays /\ deferred = Push(DestroyIface, ClosersAt(k - 1))
      /\ ToClose(deferred) = LiveAt(k - 1) \ {"ctl"}
      /\ "ctl" \in LiveAt(k - 1) <=> Naming(k - 1)
      /\ iface \in {"none", "bound", "kept"}
      /\ iface # "none" => "data" \in LiveAt(k - 1)
  BY <1>5, PlaceOf
<1>8. Live' = ToClose(deferred)
  BY <1>3, <1>6 DEF Live
<1>9. Owned(fd', owner', LiveAt(k - 1) \ {"ctl"}) /\ DescriptorTypes' /\ ~stray'
  <2>1. /\ Owned(fd, owner, LiveAt(k - 1)) /\ DescriptorTypes /\ ~stray
        /\ c.shuts = (IF Naming(k - 1) THEN "ctl" ELSE "none")
    BY <1>1, <1>2, <1>4, BeforeCall DEF Row
  <2>2. CASE Naming(k - 1)
    <3>1. CloseNumbers({"ctl"}) /\ {"ctl"} \subseteq LiveAt(k - 1)
      BY <1>3, <1>7, <2>1, <2>2
    <3>2. QED
      BY <2>1, <3>1, LiveRoles, CloseStep
  <2>3. CASE ~Naming(k - 1)
    <3>1. UNCHANGED fds /\ LiveAt(k - 1) \ {"ctl"} = LiveAt(k - 1)
      BY <1>3, <1>7, <2>1, <2>3
    <3>2. QED
      BY <2>1, <3>1 DEF fds, DescriptorTypes
  <2>4. QED
    BY <2>2, <2>3
<1>10. Accounted'
  BY <1>7, <1>8, <1>9 DEF Accounted
<1>11. Waiting'
  BY <1>3, <1>5, <1>6, <1>7 DEF Waiting
<1>12. FailedIface'
  <2>1. InterfaceLost' <=> Lost(c.call)
    BY <1>3 DEF InterfaceLost, Lost
  <2>2. iface # "none" => "data" \in ToClose(deferred)
    BY <1>7
  <2>3. CASE iface = "kept" /\ ~Lost(c.call)
    <3>1. Removal(k - 1)
      BY <1>3, <1>4, <1>5, <2>3 DEF Row
    <3>2. ClosersAt(k - 1) \in Seq(Undos) /\ deferred = Push(DestroyIface, ClosersAt(k - 1))
      BY <1>7, <3>1, CloserFields
    <3>3. Head(deferred) = DestroyIface
      BY <3>2, UndoFields, PushFields, Zenon
    <3>4. QED
      BY <1>3, <2>2, <2>3, <3>3 DEF FailedIface
  <2>4. CASE iface # "kept"
    BY <1>3, <1>7, <2>2, <2>4 DEF FailedIface
  <2>5. QED
    BY <2>1, <2>3, <2>4 DEF FailedIface
<1>13. Types'
  <2>1. file => ClosedTwice'
    BY <1>3, <1>4, <1>5 DEF Row, ClosedTwice
  <2>2. QED
    BY <1>3, <1>6, <1>9, <2>1 DEF Types, IInv
<1>14. QED
  BY <1>3, <1>6, <1>9, <1>10, <1>11, <1>12, <1>13 DEF IInv, Along, OpenIface, NoStrayClose

(* /dev/tunN opens, and is reported not to have. *)
LEMMA LoseRun ==
  ASSUME IInv, phase = "run", Fail,
         OpenCalls[at + 1].loses, Descriptors(OpenCalls[at + 1]),
         Interface(OpenCalls[at + 1])
  PROVE  IInv'
<1>1. PICK k : k = at + 1
  OBVIOUS
<1> DEFINE c == OpenCalls[k]
<1>2. at < Len(Calls)
  BY DEF Fail
<1>3. /\ ~c.sure /\ failedAt' = c.call /\ phase' = "unwind"
      /\ c.loses /\ Descriptors(c) /\ Interface(c)
      /\ UNCHANGED <<platform, config, at, file, deferred, destroyed>>
  BY <1>1, <1>2, BeforeCall DEF Fail
<1>4. Row(c, k)
  BY <1>1, <1>2, BeforeCall
<1> HIDE DEF c
<1>5. /\ k = 2 /\ platform \in {"netbsd", "openbsd"} /\ ~config.named /\ c.call = "chardev"
  BY <1>3, <1>4 DEF Row
<1>6. /\ LastAt \in Nat /\ LastAt >= 5 /\ config \in Configs /\ platform \in Platforms
      /\ destroyed = "never" /\ iface = IfaceAt(1) /\ file = FileAt(1)
      /\ linked = LinkedAt(1) /\ deferred = DeferredAt(1)
      /\ Owned(fd, owner, LiveAt(1)) /\ DescriptorTypes /\ ~stray
  BY <1>1, <1>2, <1>5, BeforeCall, Places
<1>7. ~Naming(1) /\ LiveAt(1) = {} /\ deferred = None /\ GotAt(2) = "data"
  BY <1>5, <1>6 DEF Naming, LiveAt, GotAt, DeferredAt, Removal, DestroyAt, ClosersAt
<1>8. c.gets = "data" /\ c.shuts = "none" /\ ~c.removes
  BY <1>4, <1>5, <1>7 DEF Row
<1>9. ~file /\ linked' \in BOOLEAN /\ iface' \in {"none", "bound", "kept"}
  <2>1. ~FileAt(1) /\ linked \in BOOLEAN
    BY <1>5, <1>6 DEF FileAt, IInv, Types
  <2>2. /\ iface' = (IF c.makes # "same" THEN c.makes ELSE iface)
        /\ linked' = ((linked /\ ~c.removes) \/ c.links)
    BY <1>3, <1>8, InterfaceOf
  <2>3. iface' = IfaceAt(2)
    BY <1>4, <1>5, <1>6, <2>2 DEF Row
  <2>4. 2 \in 0..LastAt
    BY <1>6
  <2>5. QED
    BY <1>6, <2>1, <2>2, <2>3, <2>4, PlaceOf
<1>10. TakeFd("data")
  BY <1>3, <1>8, DescriptorsOf
<1>11. Owned(fd', owner', {} \cup {"data"}) /\ DescriptorTypes' /\ ~stray'
  BY <1>6, <1>7, <1>10, TakeStep DEF Roles
<1>12. Live' = {}
  BY <1>3, <1>5, <1>7, CloserFields DEF Live
<1>13. DescriptorLost' /\ InterfaceLost'
  BY <1>3, <1>5 DEF DescriptorLost, InterfaceLost
<1>14. Waiting'
  BY <1>3, <1>6, <1>7 DEF Waiting, Closers
<1>15. Accounted'
  BY <1>3, <1>11, <1>12, <1>13 DEF Accounted
<1>16. Types'
  BY <1>3, <1>9, <1>11 DEF IInv, Types
<1>17. QED
  BY <1>3, <1>5, <1>11, <1>13, <1>14, <1>15, <1>16
    DEF IInv, Along, FailedIface, OpenIface, NoStrayClose

(* The last call of the open path returns. *)
LEMMA ReturnRun == ASSUME IInv, phase = "run", Return PROVE IInv'
<1>1. /\ phase' = "unwind"
      /\ UNCHANGED <<platform, config, at, failedAt, fd, owner, stray, file, deferred,
                     iface, linked, destroyed>>
  BY DEF Return, fds, ifaces
<1>2. platform \in Platforms /\ config \in Configs /\ Calls = OpenCalls
  BY DEF IInv, Types, Calls
<1>3. at = LastAt /\ LastAt \in Nat /\ LastAt \in 0..LastAt
  BY <1>2, Tables DEF Return, Table
<1>4. /\ failedAt = "none" /\ destroyed = "never"
      /\ iface = IfaceAt(LastAt) /\ linked = LinkedAt(LastAt)
      /\ deferred = DeferredAt(LastAt)
  BY <1>3 DEF IInv, Along
<1>5. /\ IfaceAt(LastAt) = Final /\ (LinkedAt(LastAt) <=> platform = "solaris")
      /\ LiveAt(LastAt) = Held \cup (IF platform = "solaris" THEN {"ip"} ELSE {})
      /\ ~Naming(LastAt)
  BY <1>2, Ends
<1>6. /\ ClosersAt(LastAt) \in Closers
      /\ \/ deferred = ClosersAt(LastAt)
         \/ Stays /\ deferred = Push(DestroyIface, ClosersAt(LastAt))
      /\ ToClose(deferred) = LiveAt(LastAt) \ {"ctl"}
      /\ "ctl" \notin LiveAt(LastAt)
  BY <1>2, <1>3, <1>4, <1>5, PlaceOf
<1>7. Stays' = Stays /\ Final' = Final /\ Held' = Held /\ ClosedTwice' = ClosedTwice
  BY <1>1, SameDevice
<1>8. Waiting'
  BY <1>1, <1>4, <1>6, <1>7 DEF Waiting
<1>9. Live' = LiveAt(LastAt)
  <2>1. Live' = Held \cup (ToClose(deferred) \cap {"ip", "ctl"})
    BY <1>1, <1>4, <1>7 DEF Live
  <2>2. Held \cap {"ip", "ctl"} = {}
    BY DEF Held
  <2>3. QED
    BY <1>5, <1>6, <2>1, <2>2
<1>10. Accounted'
  BY <1>1, <1>3, <1>9 DEF IInv, Accounted, Live
<1>11. OpenIface'
  <2>1. platform = "solaris" => linked /\ "ip" \in ToClose(deferred)
    BY <1>4, <1>5, <1>6
  <2>2. Final = "kept" => Stays
    BY DEF Final
  <2>3. QED
    BY <1>1, <1>4, <1>5, <1>7, <2>1, <2>2 DEF OpenIface
<1>12. Types'
  BY <1>1, <1>4, <1>7 DEF IInv, Types, DescriptorTypes
<1>13. NoStrayClose'
  BY <1>1, <1>7 DEF IInv, NoStrayClose
<1>14. QED
  BY <1>1, <1>4, <1>8, <1>10, <1>11, <1>12, <1>13 DEF IInv, Along, FailedIface

-----------------------------------------------------------------------------
(* The way out: deferred functions, the file, Close and Destroy *)

(* What is deferred when none of it is the removal of the interface. *)
LEMMA WaitingFields ==
  ASSUME NEW d \in Closers, NEW e, e = Push(AtReturn("ctl"), d)
  PROVE  /\ e \in Seq(Undos) /\ e # <<>> /\ Head(e) = AtReturn("ctl") /\ Tail(e) = d
         /\ ToClose(e) = {"ctl"} \cup ToClose(d) /\ "ctl" \notin ToClose(d)
<1>1. d \in Seq(Undos) /\ "ctl" \in Roles
  BY CloserFields DEF Roles
<1>2. AtReturn("ctl") \in Undos
  BY <1>1, UndoFields
<1>3. e \in Seq(Undos) /\ e # <<>> /\ Head(e) = AtReturn("ctl") /\ Tail(e) = d
  BY <1>1, <1>2, PushFields, Zenon
<1>4. ToClose(e) = {"ctl"} \cup ToClose(d)
  BY <1>1, PushKinds, Zenon
<1>5. "ctl" \notin ToClose(d)
  BY CloserRoles
<1>6. QED
  BY <1>3, <1>4, <1>5

LEMMA RemovalFields ==
  ASSUME NEW d \in Closers, NEW e, e = Push(DestroyIface, d)
  PROVE  /\ e \in Seq(Undos) /\ e # <<>> /\ Head(e) = DestroyIface /\ Tail(e) = d
         /\ ToClose(e) = ToClose(d)
<1>1. d \in Seq(Undos) /\ DestroyIface \in Undos
  BY CloserFields, UndoFields
<1>2. e \in Seq(Undos) /\ e # <<>> /\ Head(e) = DestroyIface /\ Tail(e) = d
  BY <1>1, PushFields, Zenon
<1>3. ToClose(e) = ToClose(d)
  BY <1>1, PushKinds, Zenon
<1>4. QED
  BY <1>2, <1>3

LEMMA CloserTail ==
  ASSUME NEW d \in Closers, d # <<>>
  PROVE  /\ Tail(d) \in Closers /\ Head(d).does = "close"
         /\ Head(d).role \in {"data", "ip", "link"}
         /\ ToClose(Tail(d)) = ToClose(d) \ {Head(d).role} /\ Head(d).role \in ToClose(d)
         /\ Head(d).always <=> Head(d).role = "ip"
<1>1. PICK u \in Undos, e \in Closers :
        /\ d = Push(u, e) /\ u.does = "close" /\ u.role \in {"data", "ip", "link"}
        /\ u.role \notin ToClose(e) /\ (u.always <=> u.role = "ip")
  BY CloserSplit DEF None
<1>2. e \in Seq(Undos)
  BY <1>1, CloserFields
<1>3. /\ Head(d) = u /\ Tail(d) = e
      /\ ToClose(d) = (IF u.does = "close" THEN {u.role} ELSE {}) \cup ToClose(e)
  BY <1>1, <1>2, PushFields, Zenon
<1>4. QED
  BY <1>1, <1>3

(* What is closed, and what runs first, while deferred functions remain. *)
LEMMA NextDeferred ==
  ASSUME IInv, phase = "unwind", deferred # <<>>
  PROVE  LET u == Head(deferred)
         IN \/ /\ u = DestroyIface /\ Stays /\ destroyed = "never"
               /\ Tail(deferred) \in Closers /\ ToClose(Tail(deferred)) = ToClose(deferred)
            \/ /\ u.does = "close" /\ u.role \in Roles /\ u.role \in ToClose(deferred)
               /\ ToClose(Tail(deferred)) = ToClose(deferred) \ {u.role}
               /\ Tail(deferred) \in Closers
               /\ u.always <=> u.role \in {"ip", "ctl"}
               /\ destroyed = "never" => u.role # "ctl"
               /\ destroyed # "never" /\ failedAt = "none" =>
                    u.role = "ctl" /\ Tail(deferred) = None
<1> DEFINE u == Head(deferred)
<1>1. CASE destroyed = "never"
  <2>1. PICK d \in Closers : deferred = d \/ (Stays /\ deferred = Push(DestroyIface, d))
    BY <1>1 DEF IInv, Waiting
  <2>2. CASE deferred = d
    BY <1>1, <2>2, CloserTail DEF Roles
  <2>3. CASE Stays /\ deferred = Push(DestroyIface, d)
    BY <1>1, <2>3, RemovalFields
  <2>4. QED
    BY <2>1, <2>2, <2>3
<1>2. CASE destroyed # "never"
  <2>1. PICK d \in Closers : /\ deferred \in {d, Push(AtReturn("ctl"), d)}
                             /\ failedAt = "none" => d = None
    BY <1>2 DEF IInv, Waiting
  <2>2. CASE deferred = d
    <3>1. failedAt # "none"
      BY <2>1, <2>2 DEF None
    <3>2. QED
      BY <1>2, <2>2, <3>1, CloserTail DEF Roles
  <2>3. CASE deferred = Push(AtReturn("ctl"), d)
    <3>1. /\ Head(deferred) = AtReturn("ctl") /\ Tail(deferred) = d
          /\ ToClose(deferred) = {"ctl"} \cup ToClose(d) /\ "ctl" \notin ToClose(d)
      BY <2>3, WaitingFields, Zenon
    <3>2. /\ AtReturn("ctl").does = "close" /\ AtReturn("ctl").role = "ctl"
          /\ AtReturn("ctl").always
      BY UndoFields DEF Roles
    <3>3. QED
      BY <1>2, <2>1, <3>1, <3>2 DEF Roles
  <2>4. QED
    BY <2>1, <2>2, <2>3
<1>3. QED
  BY <1>1, <1>2

LEMMA RunDeferredKeeps == ASSUME IInv, RunDeferred PROVE IInv'
<1> DEFINE u == Head(deferred)
<1>1. /\ phase = "unwind" /\ deferred # <<>> /\ deferred' = Tail(deferred)
      /\ UNCHANGED <<platform, config, failedAt, destroyed, file>>
  BY DeferredOf
<1>2. /\ Stays' = Stays /\ Final' = Final /\ Held' = Held /\ DestroyCalls' = DestroyCalls
      /\ InterfaceLost' = InterfaceLost /\ DescriptorLost' = DescriptorLost
      /\ ClosedTwice' = ClosedTwice
  BY <1>1, SameDevice
<1>3. CASE u = DestroyIface /\ Stays /\ destroyed = "never"
  <2>1. /\ Tail(deferred) \in Closers /\ ToClose(Tail(deferred)) = ToClose(deferred)
        /\ u.does = "Destroy" /\ ~u.always
    BY <1>1, <1>3, UndoFields, NextDeferred
  <2>2. UNCHANGED fds /\ UNCHANGED ifaces
    BY <2>1, DeferredOf
  <2>3. CASE failedAt = "none"
    <3>1. UNCHANGED <<phase, at>>
      BY <2>1, <2>3, DeferredOf
    <3>2. Live' = Live
      BY <1>1, <1>2, <2>1, <2>3, <3>1 DEF Live
    <3>3. Types' /\ Accounted' /\ NoStrayClose'
      BY <1>1, <1>2, <2>2, <3>1, <3>2
        DEF IInv, Types, DescriptorTypes, Accounted, NoStrayClose, fds, ifaces
    <3>4. Waiting' /\ OpenIface'
      BY <1>1, <1>2, <1>3, <2>1, <2>2, <2>3, <3>1 DEF IInv, Waiting, OpenIface, ifaces
    <3>5. QED
      BY <1>1, <2>3, <3>1, <3>3, <3>4 DEF IInv, Along, FailedIface
  <2>4. CASE failedAt # "none"
    <3>1. phase' = "destroy" /\ at' = 0
      BY <2>1, <2>4, DeferredOf DEF EnterDestroy
    <3>2. Live' = Live
      BY <1>1, <2>1, <2>4, <3>1 DEF Live
    <3>3. platform \in Destroyable /\ Len(DestroyCalls) \in 2..4
      BY <1>3, DestroyTable DEF Stays, Destroyable
    <3>4. Types' /\ Accounted' /\ NoStrayClose'
      BY <1>1, <1>2, <1>3, <2>2, <3>1, <3>2, <3>3
        DEF IInv, Types, DescriptorTypes, Accounted, NoStrayClose, fds, ifaces
    <3>5. Waiting'
      BY <1>1, <1>3, <2>1, <2>4, <3>1 DEF Waiting
    <3>6. FailedIface'
      BY <1>1, <1>2, <2>1, <2>2, <2>4, <3>1, <3>3 DEF IInv, FailedIface, ifaces
    <3>7. QED
      BY <1>1, <2>4, <3>1, <3>4, <3>5, <3>6 DEF IInv, Along, OpenIface
  <2>5. QED
    BY <2>3, <2>4
<1>4. CASE u.does = "close" /\ u.role \in Roles
  <2>1. /\ u.role \in ToClose(deferred)
        /\ ToClose(Tail(deferred)) = ToClose(deferred) \ {u.role}
        /\ Tail(deferred) \in Closers
        /\ u.always <=> u.role \in {"ip", "ctl"}
        /\ destroyed = "never" => u.role # "ctl"
        /\ destroyed # "never" /\ failedAt = "none" =>
             u.role = "ctl" /\ Tail(deferred) = None
        /\ u # DestroyIface
    BY <1>1, <1>4, UndoFields, NextDeferred
  <2>2. phase' = phase => Waiting'
    BY <1>1, <2>1 DEF Waiting
  <2>3. CASE failedAt = "none" /\ ~u.always
    <3>1. UNCHANGED <<phase, at, fds, ifaces>> /\ destroyed = "never"
      BY <2>1, <2>3, DeferredOf
    <3>2. Live' = Live
      BY <1>1, <1>2, <2>1, <2>3, <3>1 DEF Live
    <3>3. Types' /\ Accounted' /\ NoStrayClose'
      BY <1>1, <1>2, <3>1, <3>2
        DEF IInv, Types, DescriptorTypes, Accounted, NoStrayClose, fds, ifaces
    <3>4. OpenIface'
      BY <1>1, <1>2, <2>1, <2>3, <3>1 DEF IInv, OpenIface, ifaces
    <3>5. QED
      BY <1>1, <2>2, <2>3, <3>1, <3>3, <3>4 DEF IInv, Along, FailedIface
  <2>4. CASE failedAt # "none" \/ u.always
    <3>1. CloseNumbers({u.role}) /\ Unbind({u.role}) /\ UNCHANGED <<phase, at>>
      BY <1>4, <2>4, DeferredOf
    <3>2. u.role \in Live /\ Live' = Live \ {u.role} /\ Live \subseteq Roles
      <4>1. ToClose(deferred) \subseteq Roles
        BY <1>4, <2>1, CloserRoles DEF Roles
      <4>2. Held \subseteq {"data", "link"}
        BY DEF Held
      <4>3. QED
        BY <1>1, <1>2, <2>1, <2>4, <3>1, <4>1, <4>2 DEF Live, Roles
    <3>3. Accounted' /\ DescriptorTypes' /\ stray' = stray
      <4>1. DescriptorTypes /\ phase # "run"
        BY <1>1 DEF IInv, Types
      <4>2. CASE Owned(fd, owner, Live)
        <5>1. PICK L : L = Live
          OBVIOUS
        <5>2. DescriptorTypes' /\ Owned(fd', owner', L \ {u.role}) /\ stray' = stray
          BY <3>1, <3>2, <4>1, <4>2, <5>1, CloseStep
        <5>3. QED
          BY <3>2, <5>1, <5>2 DEF Accounted
      <4>3. CASE DescriptorLost /\ Owned(fd, owner, Live \cup {"data"})
        <5>1. PICK L : L = Live \cup {"data"}
          OBVIOUS
        <5>2. L \subseteq Roles /\ u.role \in L
          BY <3>2, <5>1 DEF Roles
        <5>3. DescriptorTypes' /\ Owned(fd', owner', L \ {u.role}) /\ stray' = stray
          BY <3>1, <4>1, <4>3, <5>1, <5>2, CloseStep
        <5>4. CASE u.role = "data"
          <6>1. L \ {u.role} = Live'
            BY <3>2, <5>1, <5>4
          <6>2. QED
            BY <5>3, <6>1 DEF Accounted
        <5>5. CASE u.role # "data"
          <6>1. L \ {u.role} = Live' \cup {"data"}
            BY <3>2, <5>1, <5>5
          <6>2. QED
            BY <1>1, <1>2, <3>1, <4>3, <5>3, <6>1 DEF Accounted
        <5>6. QED
          BY <5>4, <5>5
      <4>4. QED
        BY <4>1, <4>2, <4>3 DEF IInv, Accounted
    <3>4. /\ iface' = (IF u.role = "data" /\ iface = "bound" THEN "none" ELSE iface)
          /\ linked' = (linked /\ ~(u.role = "ip" /\ ~config.persist))
      BY <3>1 DEF Unbind
    <3>5. Types' /\ NoStrayClose'
      BY <1>1, <1>2, <3>1, <3>3, <3>4 DEF IInv, Types, NoStrayClose
    <3>6. FailedIface'
      <4>1. u.role # "data" => "data" \in ToClose(Tail(deferred)) \/ "data" \notin ToClose(deferred)
        BY <2>1
      <4>2. QED
        BY <1>1, <1>2, <2>1, <3>1, <3>4, <4>1 DEF IInv, FailedIface
    <3>7. OpenIface'
      BY <1>1, <1>2, <2>1, <2>4, <3>1, <3>4 DEF IInv, OpenIface
    <3>8. QED
      BY <1>1, <2>2, <3>1, <3>5, <3>3, <3>6, <3>7 DEF IInv, Along
  <2>5. QED
    BY <2>3, <2>4
<1>5. QED
  BY <1>1, <1>3, <1>4, NextDeferred

LEMMA DeliverKeeps == ASSUME IInv, Deliver PROVE IInv'
<1>1. /\ phase = "unwind" /\ deferred = None /\ deferred' = None
      /\ UNCHANGED <<platform, config, at, failedAt, destroyed>>
  BY DEF Deliver, None
<1>2. /\ Stays' = Stays /\ Final' = Final /\ Held' = Held
      /\ InterfaceLost' = InterfaceLost /\ DescriptorLost' = DescriptorLost
      /\ ClosedTwice' = ClosedTwice
  BY <1>1, SameDevice
<1>3. ToClose(deferred) = {} /\ ToClose(deferred') = {}
  BY <1>1, CloserFields
<1>4. CASE failedAt = "none"
  <2>1. phase' = "open" /\ file' = (file \/ destroyed = "never") /\ UNCHANGED <<fds, ifaces>>
    BY <1>4 DEF Deliver
  <2>2. Live' = Live
    BY <1>1, <1>2, <1>3, <1>4, <2>1 DEF Live
  <2>3. Types' /\ Accounted' /\ NoStrayClose'
    BY <1>1, <1>2, <1>4, <2>1, <2>2
      DEF IInv, Types, DescriptorTypes, Accounted, NoStrayClose, fds, ifaces
  <2>4. OpenIface'
    BY <1>1, <1>2, <1>3, <1>4, <2>1 DEF IInv, OpenIface, ifaces
  <2>5. QED
    BY <1>1, <1>4, <2>1, <2>3, <2>4 DEF IInv, Along, Waiting, FailedIface
<1>5. CASE failedAt # "none"
  <2>1. /\ phase' = "failed" /\ file' = FALSE
        /\ IF file THEN CloseNumbers(Held) /\ Unbind(Held) ELSE UNCHANGED <<fds, ifaces>>
    BY <1>5 DEF Deliver
  <2>2. Live = {} /\ Live' = {}
    BY <1>1, <1>3, <1>5, <2>1 DEF Live
  <2>3. DescriptorTypes' /\ Accounted' /\ NoStrayClose'
    <3>1. CASE file
      <4>1. ClosedTwice /\ DescriptorTypes
        BY <1>5, <3>1 DEF IInv, Types
      <4>2. ~DescriptorLost
        BY <4>1 DEF ClosedTwice, DescriptorLost
      <4>3. Owned(fd, owner, {}) /\ CloseNumbers(Held)
        BY <1>1, <2>1, <2>2, <3>1, <4>2 DEF IInv, Accounted
      <4>4. Owned(fd', owner', {}) /\ DescriptorTypes'
        BY <4>1, <4>3, CloseNone
      <4>5. QED
        BY <1>2, <2>2, <4>1, <4>4 DEF Accounted, NoStrayClose
    <3>2. CASE ~file
      <4>1. UNCHANGED fds
        BY <2>1, <3>2
      <4>2. QED
        BY <1>1, <1>2, <2>1, <2>2, <4>1
          DEF IInv, Types, DescriptorTypes, Accounted, NoStrayClose, fds
    <3>3. QED
      BY <3>1, <3>2 DEF IInv, Types
  <2>4. /\ iface = "none" => iface' = "none"
        /\ iface' \in {"none", "bound", "kept"} /\ linked' \in BOOLEAN
    BY <2>1 DEF IInv, Types, Unbind, ifaces
  <2>5. Types'
    BY <1>1, <1>2, <1>5, <2>1, <2>3, <2>4 DEF IInv, Types
  <2>6. FailedIface'
    <3>1. ~(phase = "unwind" /\ Head(deferred) = DestroyIface /\ "data" \in ToClose(deferred))
      BY <1>3
    <3>2. QED
      BY <1>1, <1>2, <1>3, <1>5, <2>4, <3>1 DEF IInv, FailedIface
  <2>7. QED
    BY <1>1, <1>5, <2>1, <2>3, <2>5, <2>6 DEF IInv, Along, Waiting, OpenIface
<1>6. QED
  BY <1>4, <1>5

LEMMA CloseKeeps == ASSUME IInv, Close PROVE IInv'
<1>1. /\ phase = "open" /\ file /\ file' = FALSE /\ CloseNumbers(Held) /\ Unbind(Held)
      /\ UNCHANGED <<platform, config, phase, at, failedAt, destroyed, deferred>>
  BY DEF Close
<1>2. /\ Stays' = Stays /\ Held' = Held /\ ClosedTwice' = ClosedTwice
  BY <1>1, SameDevice
<1>3. failedAt = "none" /\ deferred = None
  BY <1>1 DEF IInv, Types, Waiting
<1>4. ToClose(deferred) = {}
  BY <1>3, CloserFields
<1>5. Live = Held /\ Live' = {} /\ Held \subseteq Roles /\ "data" \in Held
  <2>1. ToClose(deferred)' = {}
    BY <1>1, <1>4
  <2>2. Held \subseteq Roles /\ "data" \in Held
    BY DEF Held, Roles
  <2>3. QED
    BY <1>1, <1>3, <1>4, <2>1, <2>2 DEF Live
<1>6. Owned(fd', owner', {}) /\ DescriptorTypes' /\ stray' = stray
  <2>1. PICK L : L = Held
    OBVIOUS
  <2>2. Owned(fd, owner, L) /\ DescriptorTypes
    BY <1>3, <1>5, <2>1 DEF IInv, Accounted, DescriptorLost, Types
  <2>3. DescriptorTypes' /\ Owned(fd', owner', L \ L) /\ stray' = stray
    BY <1>1, <1>5, <2>1, <2>2, CloseStep
  <2>4. L \ L = {}
    OBVIOUS
  <2>5. QED
    BY <2>3, <2>4
<1>7. /\ iface' = (IF iface = "bound" THEN "none" ELSE iface) /\ linked' \in BOOLEAN
  BY <1>1, <1>5 DEF Unbind
<1>8. Types' /\ NoStrayClose'
  BY <1>1, <1>2, <1>3, <1>6, <1>7 DEF IInv, Types, NoStrayClose
<1>9. OpenIface'
  BY <1>1, <1>2, <1>3, <1>7 DEF IInv, Types, OpenIface
<1>10. QED
  BY <1>1, <1>3, <1>5, <1>6, <1>8, <1>9 DEF IInv, Along, Waiting, Accounted, FailedIface

LEMMA DestroyKeeps == ASSUME IInv, Destroy PROVE IInv'
<1>1. /\ phase = "open" /\ platform \in Destroyable /\ destroyed # "done"
      /\ phase' = "destroy" /\ at' = 0
      /\ UNCHANGED <<platform, config, failedAt, destroyed, fd, owner, stray, file, deferred,
                     iface, linked>>
  BY DEF Destroy, EnterDestroy, fds, ifaces
<1>2. /\ Stays' = Stays /\ Held' = Held /\ ClosedTwice' = ClosedTwice
      /\ DescriptorLost' = DescriptorLost /\ DestroyCalls' = DestroyCalls
  BY <1>1, SameDevice
<1>3. failedAt = "none" /\ deferred = None /\ Len(DestroyCalls) \in 2..4
  BY <1>1, DestroyTable DEF IInv, Types, Waiting
<1>4. Live' = Live
  BY <1>1, <1>2, <1>3 DEF Live
<1>5. Types' /\ NoStrayClose' /\ Accounted'
  BY <1>1, <1>2, <1>3, <1>4 DEF IInv, Types, DescriptorTypes, NoStrayClose, Accounted
<1>6. Waiting'
  BY <1>1, <1>3 DEF Waiting, Closers
<1>7. OpenIface'
  BY <1>1, <1>2, <1>3 DEF IInv, OpenIface
<1>8. QED
  BY <1>1, <1>3, <1>5, <1>6, <1>7 DEF IInv, Along, FailedIface

LEMMA OtherKeeps == ASSUME IInv, Other PROVE IInv'
<1>1. PICK n \in Fds : \/ owner[n] = "nobody" /\ owner' = [owner EXCEPT ![n] = "other"]
                       \/ owner[n] = "other" /\ owner' = [owner EXCEPT ![n] = "nobody"]
  BY DEF Other
<1>2. UNCHANGED <<platform, config, phase, at, failedAt, destroyed, fd, file,
                  deferred, iface, linked, stray>>
  BY DEF Other, ifaces
<1>3. /\ Stays' = Stays /\ Held' = Held /\ ClosedTwice' = ClosedTwice /\ Final' = Final
      /\ DescriptorLost' = DescriptorLost /\ DestroyCalls' = DestroyCalls
      /\ InterfaceLost' = InterfaceLost
  BY <1>2, SameDevice
<1>4. DescriptorTypes' /\ \A m \in Fds : owner'[m] = "tun" <=> owner[m] = "tun"
  BY <1>1, <1>2 DEF IInv, Types, DescriptorTypes, Who
<1>5. ASSUME NEW L, Owned(fd, owner, L) PROVE Owned(fd', owner', L)
  BY <1>2, <1>4, <1>5 DEF Owned
<1>6. Live' = Live
  <2>1. \A k : LiveAt(k)' = LiveAt(k)
    BY <1>2, SameTables
  <2>2. QED
    BY <1>2, <1>3, <2>1 DEF Live
<1>7. Accounted'
  BY <1>2, <1>3, <1>5, <1>6 DEF IInv, Accounted
<1>8. Along'
  BY <1>2, SameTables DEF IInv, Along
<1>9. QED
  BY <1>2, <1>3, <1>4, <1>7, <1>8
    DEF IInv, Types, Waiting, FailedIface, OpenIface, NoStrayClose

LEMMA DestroyCallKeeps ==
  ASSUME IInv, phase = "destroy", Succeed \/ Fail \/ Return
  PROVE  IInv'
<1>1. /\ platform \in Destroyable /\ Len(DestroyCalls) \in 2..4 /\ at \in Nat
      /\ at <= Len(DestroyCalls) /\ Calls = DestroyCalls
      /\ \A k \in 1..Len(DestroyCalls) : DestroyRow(DestroyCalls[k], k)
  BY DestroyTable DEF IInv, Types, Calls
<1>2. UNCHANGED <<platform, config, failedAt>>
  BY <1>1 DEF Succeed, Fail, Return
<1>3. /\ Stays' = Stays /\ Held' = Held /\ ClosedTwice' = ClosedTwice
      /\ DescriptorLost' = DescriptorLost /\ DestroyCalls' = DestroyCalls
      /\ InterfaceLost' = InterfaceLost
  BY <1>2, SameDevice
<1>4. PICK d \in Closers : /\ deferred = IF at = 0 THEN d ELSE Push(AtReturn("ctl"), d)
                           /\ failedAt = "none" => d = None
  BY DEF IInv, Waiting
<1>5. failedAt # "none" => destroyed = "never"
  BY DEF IInv, Waiting
<1>6. /\ Remains \in {"none", "bound"}
      /\ Remains = "bound" => platform = "solaris" /\ (file \/ failedAt # "none")
  BY DEF Remains
<1>7. CASE Return
  <2>1. /\ at = Len(DestroyCalls) /\ phase' = "unwind" /\ destroyed' = "done"
        /\ UNCHANGED <<at, fd, owner, stray, file, deferred, iface, linked>>
    BY <1>1, <1>7 DEF Return, fds, ifaces
  <2>2. Live' = Live
    BY <1>2, <1>3, <2>1 DEF Live
  <2>3. Types' /\ NoStrayClose' /\ Accounted'
    BY <1>2, <1>3, <2>1, <2>2 DEF IInv, Types, DescriptorTypes, NoStrayClose, Accounted
  <2>4. Waiting'
    BY <1>2, <1>4, <2>1 DEF Waiting
  <2>5. FailedIface'
    BY <1>1, <1>2, <1>3, <1>5, <2>1 DEF IInv, Types, FailedIface
  <2>6. OpenIface'
    BY <1>1, <1>2, <1>3, <2>1 DEF IInv, Types, OpenIface
  <2>7. QED
    BY <2>1, <2>3, <2>4, <2>5, <2>6 DEF IInv, Along
<1>8. CASE Succeed
  <2>1. PICK k \in 1..Len(DestroyCalls) : k = at + 1
    BY <1>1, <1>8 DEF Succeed
  <2> DEFINE c == DestroyCalls[k]
  <2>2. /\ Possible(c) /\ Descriptors(c) /\ Interface(c)
        /\ deferred' = c.undo \o (IF c.returns THEN <<>> ELSE deferred)
        /\ file' = (file \/ c.hands) /\ at' = k
        /\ UNCHANGED <<phase, destroyed>>
    BY <1>1, <1>8, <2>1 DEF Succeed
  <2>3. DestroyRow(c, k)
    BY <1>1, <2>1
  <2> HIDE DEF c
  <2>4. file' = file /\ file \in BOOLEAN
    BY <2>2, <2>3 DEF DestroyRow, IInv, Types
  <2>5. /\ c.removes <=> k = Len(DestroyCalls)
        /\ iface' = IF c.removes THEN Remains ELSE iface
        /\ linked' \in BOOLEAN
    BY <2>2, <2>3, InterfaceOf DEF DestroyRow, IInv, Types
  <2>6. /\ deferred' = Push(AtReturn("ctl"), d)
        /\ Accounted' /\ DescriptorTypes' /\ stray' = stray
    <3>1. "ctl" \notin ToClose(d) /\ ToClose(Push(AtReturn("ctl"), d)) = {"ctl"} \cup ToClose(d)
      BY WaitingFields, Zenon
    <3>2. CASE k = 1
      <4>1. /\ deferred = d /\ c.undo = <<AtReturn("ctl")>> /\ ~c.returns
            /\ c.gets = "ctl" /\ c.shuts = "none"
        BY <1>1, <1>4, <2>1, <2>3, <3>2 DEF DestroyRow
      <4>2. deferred' = Push(AtReturn("ctl"), d)
        BY <2>2, <4>1, Zenon DEF Push
      <4>3. TakeFd("ctl")
        BY <2>2, <4>1, DescriptorsOf
      <4>4. Live' = Live \cup {"ctl"} /\ "ctl" \notin Live /\ Live \subseteq Roles
        <5>1. ToClose(d) \subseteq {"data", "ip", "link"}
          BY CloserRoles
        <5>2. Held \subseteq {"data", "link"}
          BY DEF Held
        <5>3. ToClose(deferred) = ToClose(d) /\ ToClose(deferred') = {"ctl"} \cup ToClose(d)
          BY <3>1, <4>1, <4>2
        <5>4. CASE failedAt # "none"
          BY <1>2, <2>2, <5>1, <5>3, <5>4 DEF Live, Roles
        <5>5. CASE failedAt = "none"
          <6>1. PICK L : L = IF file THEN Held ELSE {}
            OBVIOUS
          <6>2. L \subseteq {"data", "link"}
            BY <5>2, <6>1
          <6>3. Live = L \cup (ToClose(d) \cap {"ip", "ctl"})
            BY <5>3, <5>5, <6>1 DEF Live
          <6>4. Live' = L \cup (({"ctl"} \cup ToClose(d)) \cap {"ip", "ctl"})
            BY <1>2, <1>3, <2>2, <2>4, <5>3, <5>5, <6>1 DEF Live
          <6>5. QED
            BY <5>1, <6>2, <6>3, <6>4 DEF Roles
        <5>6. QED
          BY <5>4, <5>5
      <4>5. CASE Owned(fd, owner, Live)
        <5>1. PICK L : L = Live
          OBVIOUS
        <5>2. DescriptorTypes' /\ Owned(fd', owner', L \cup {"ctl"}) /\ stray' = stray
          BY <4>3, <4>4, <4>5, <5>1, TakeStep DEF IInv, Types, Roles
        <5>3. QED
          BY <4>2, <4>4, <5>1, <5>2 DEF Accounted
      <4>6. CASE DescriptorLost /\ Owned(fd, owner, Live \cup {"data"})
        <5>1. PICK L : L = Live \cup {"data"}
          OBVIOUS
        <5>2. L \subseteq Roles /\ "ctl" \notin L
          BY <4>4, <5>1 DEF Roles
        <5>3. DescriptorTypes' /\ Owned(fd', owner', L \cup {"ctl"}) /\ stray' = stray
          BY <4>3, <4>6, <5>1, <5>2, TakeStep DEF IInv, Types, Roles
        <5>4. L \cup {"ctl"} = Live' \cup {"data"}
          BY <4>4, <5>1
        <5>5. QED
          BY <1>3, <2>2, <4>2, <4>6, <5>3, <5>4 DEF Accounted
      <4>7. QED
        BY <4>5, <4>6 DEF IInv, Accounted
    <3>3. CASE k # 1
      <4>1. /\ deferred = Push(AtReturn("ctl"), d) /\ c.undo = <<>> /\ ~c.returns
            /\ c.gets = "none" /\ c.shuts = "none"
        BY <1>1, <1>4, <2>1, <2>3, <3>3 DEF DestroyRow
      <4>2. deferred \in Seq(Undos)
        BY <4>1, WaitingFields
      <4>3. deferred' = deferred
        BY <2>2, <4>1, <4>2
      <4>4. UNCHANGED fds
        BY <2>2, <4>1, DescriptorsOf
      <4>5. Live' = Live
        <5>1. CASE failedAt # "none"
          BY <1>2, <2>2, <4>3, <5>1 DEF Live
        <5>2. CASE failedAt = "none"
          <6>1. PICK L : L = IF file THEN Held ELSE {}
            OBVIOUS
          <6>2. Live = L \cup (ToClose(deferred) \cap {"ip", "ctl"})
            BY <5>2, <6>1 DEF Live
          <6>3. ToClose(deferred') = ToClose(deferred)
            BY <4>3
          <6>4. Live' = L \cup (ToClose(deferred) \cap {"ip", "ctl"})
            BY <1>2, <1>3, <2>2, <2>4, <5>2, <6>1, <6>3 DEF Live
          <6>5. QED
            BY <6>2, <6>4
        <5>3. QED
          BY <5>1, <5>2
      <4>6. QED
        BY <1>3, <2>2, <4>1, <4>3, <4>4, <4>5 DEF IInv, Types, DescriptorTypes, Accounted, fds
    <3>4. QED
      BY <3>2, <3>3
  <2>7. Types' /\ NoStrayClose'
    <3>1. k \in Nat /\ k <= Len(DestroyCalls)
      BY <1>1, <2>1
    <3>2. iface' \in {"none", "bound", "kept"}
      BY <1>6, <2>5 DEF IInv, Types
    <3>3. NoStrayClose'
      BY <1>3, <2>6 DEF IInv, NoStrayClose
    <3>4. QED
      <4>1. platform' \in Platforms /\ config' \in Configs /\ platform' \in Destroyable
        BY <1>1, <1>2 DEF IInv, Types
      <4>2. /\ phase' = "destroy" /\ at' \in Nat /\ at' <= Len(DestroyCalls')
            /\ destroyed' \in {"never", "done", "not"} /\ destroyed' # "done"
        BY <1>3, <2>2, <3>1 DEF IInv, Types
      <4>3. file' /\ failedAt' # "none" => ClosedTwice' /\ ~stray'
        BY <1>2, <1>3, <2>4, <2>6 DEF IInv, Types
      <4>4. DescriptorTypes' /\ file' \in BOOLEAN /\ linked' \in BOOLEAN
        BY <2>4, <2>5, <2>6
      <4>5. QED
        BY <3>2, <3>3, <4>1, <4>2, <4>3, <4>4 DEF Types
  <2>8. Waiting'
    <3>1. phase' = "destroy" /\ at' # 0
      BY <2>1, <2>2
    <3>2. QED
      BY <1>2, <1>4, <1>5, <2>2, <2>6, <3>1 DEF Waiting
  <2>9. ToClose(deferred) \subseteq ToClose(deferred')
    <3>1. ToClose(Push(AtReturn("ctl"), d)) = {"ctl"} \cup ToClose(d)
      BY WaitingFields, Zenon
    <3>2. QED
      BY <1>4, <2>6, <3>1
  <2>10. FailedIface'
    <3>1. SUFFICES ASSUME failedAt # "none", ~InterfaceLost, destroyed # "not"
                   PROVE  \/ iface' = "none"
                          \/ iface' = "bound" /\ "data" \in ToClose(deferred')
                          \/ /\ iface' = "kept" /\ "data" \in ToClose(deferred')
                             /\ k < Len(DestroyCalls)
      BY <1>2, <1>3, <2>2 DEF FailedIface
    <3>2. iface # "none" => "data" \in ToClose(deferred)
      BY <3>1 DEF IInv, FailedIface
    <3>3. CASE c.removes
      BY <1>6, <2>2, <2>5, <2>9, <3>2, <3>3 DEF Possible
    <3>4. CASE ~c.removes
      BY <2>5, <2>9, <3>2, <3>4 DEF IInv, Types
    <3>5. QED
      BY <3>3, <3>4
  <2>11. OpenIface'
    BY <1>2, <1>3, <1>6, <2>2, <2>4, <2>5 DEF IInv, Types, OpenIface
  <2>12. QED
    BY <2>2, <2>6, <2>7, <2>8, <2>10, <2>11 DEF IInv, Along
<1>9. CASE Fail
  <2>1. PICK k \in 1..Len(DestroyCalls) : k = at + 1
    BY <1>1, <1>9 DEF Fail
  <2> DEFINE c == DestroyCalls[k]
  <2>2. /\ phase' = "unwind" /\ destroyed' = "not" /\ UNCHANGED <<at, file, deferred>>
        /\ \/ /\ IF c.shuts # "none" THEN CloseNumbers({c.shuts}) ELSE UNCHANGED fds
              /\ UNCHANGED ifaces
           \/ c.loses /\ Descriptors(c) /\ Interface(c)
    BY <1>1, <1>9, <2>1 DEF Fail
  <2>3. DestroyRow(c, k)
    BY <1>1, <2>1
  <2> HIDE DEF c
  <2>4. /\ UNCHANGED fds /\ iface' \in {iface, Remains} /\ linked' \in BOOLEAN
    <3>1. CASE c.loses /\ Descriptors(c) /\ Interface(c)
      <4>1. c.shuts = "none" /\ c.removes /\ c.makes = "same" /\ k = Len(DestroyCalls)
        BY <2>3, <3>1 DEF DestroyRow
      <4>2. c.gets = "none"
        BY <1>1, <2>3, <4>1 DEF DestroyRow
      <4>3. UNCHANGED fds
        BY <3>1, <4>1, <4>2, DescriptorsOf
      <4>4. iface' = Remains /\ linked' = ((linked /\ ~c.removes) \/ c.links)
        BY <3>1, <4>1, InterfaceOf
      <4>5. QED
        BY <4>3, <4>4
    <3>2. CASE UNCHANGED fds /\ UNCHANGED ifaces
      BY <3>2 DEF ifaces, IInv, Types
    <3>3. QED
      BY <2>2, <2>3, <3>1, <3>2 DEF DestroyRow
  <2>5. Live' = Live
    BY <1>2, <1>3, <2>2 DEF Live
  <2>6. Types' /\ NoStrayClose' /\ Accounted'
    BY <1>2, <1>3, <1>6, <2>2, <2>4, <2>5
      DEF IInv, Types, DescriptorTypes, NoStrayClose, Accounted, fds
  <2>7. Waiting'
    BY <1>2, <1>4, <2>2 DEF Waiting
  <2>8. FailedIface' /\ OpenIface'
    BY <1>2, <1>3, <1>6, <2>2, <2>4 DEF IInv, FailedIface, OpenIface
  <2>9. QED
    BY <2>2, <2>6, <2>7, <2>8 DEF IInv, Along
<1>10. QED
  BY <1>7, <1>8, <1>9

-----------------------------------------------------------------------------
(* The invariant *)

LEMMA InitHolds == ASSUME Init PROVE IInv
<1>1. /\ platform \in Platforms /\ config \in Configs /\ phase = "run" /\ at = 0
      /\ failedAt = "none" /\ destroyed = "never" /\ iface = "none" /\ ~linked /\ ~file
      /\ deferred = None
  BY DEF Init, None
<1>2. /\ IfaceAt(0) = "none" /\ ~LinkedAt(0) /\ ~FileAt(0) /\ DeferredAt(0) = None
      /\ LiveAt(0) = {} /\ LastAt \in Nat
  BY <1>1, Ends, Places
<1>3. Along
  <2>1. linked = LinkedAt(0) /\ file = FileAt(0)
    BY <1>1, <1>2 DEF Init, LinkedAt, FileAt
  <2>2. QED
    BY <1>1, <1>2, <2>1 DEF Along
<1>4. Accounted
  BY <1>1, <1>2 DEF Init, Accounted, Live, Owned
<1>5. DescriptorTypes /\ NoStrayClose
  BY DEF Init, DescriptorTypes, Who, NoStrayClose
<1>6. Types
  <2>1. file \in BOOLEAN /\ linked \in BOOLEAN /\ at \in Nat
    BY DEF Init
  <2>2. QED
    BY <1>1, <1>5, <2>1 DEF Types
<1>7. QED
  BY <1>1, <1>3, <1>4, <1>5, <1>6 DEF IInv, Waiting, FailedIface, OpenIface

LEMMA StutterKeeps == ASSUME IInv, UNCHANGED vars PROVE IInv'
<1>1. UNCHANGED <<platform, config, phase, at, failedAt, destroyed, fd, owner, stray, file,
                  deferred, iface, linked>>
  BY DEF vars, fds, ifaces
<1>2. /\ Stays' = Stays /\ Held' = Held /\ ClosedTwice' = ClosedTwice /\ Final' = Final
      /\ DescriptorLost' = DescriptorLost /\ DestroyCalls' = DestroyCalls
      /\ InterfaceLost' = InterfaceLost
  BY <1>1, SameDevice
<1>3. Live' = Live
  <2>1. \A k : LiveAt(k)' = LiveAt(k)
    BY <1>1, SameTables
  <2>2. QED
    BY <1>1, <1>2, <2>1 DEF Live
<1>4. Along'
  BY <1>1, SameTables DEF IInv, Along
<1>5. QED
  BY <1>1, <1>2, <1>3, <1>4
    DEF IInv, Types, DescriptorTypes, Waiting, Accounted, FailedIface, OpenIface, NoStrayClose

LEMMA Step == ASSUME IInv, [Next]_vars PROVE IInv'
<1>1. CASE Succeed
  <2>1. phase = "run" \/ phase = "destroy"
    BY <1>1 DEF Succeed
  <2>2. QED
    BY <1>1, <2>1, SucceedRun, DestroyCallKeeps
<1>2. CASE Fail
  <2>1. CASE phase = "run"
    <3>1. at < Len(Calls) /\ Calls = OpenCalls
      BY <1>2, <2>1 DEF Fail, Calls
    <3>2. \/ /\ IF OpenCalls[at + 1].shuts # "none"
                THEN CloseNumbers({OpenCalls[at + 1].shuts}) ELSE UNCHANGED fds
             /\ UNCHANGED ifaces
          \/ /\ OpenCalls[at + 1].loses /\ Descriptors(OpenCalls[at + 1])
             /\ Interface(OpenCalls[at + 1])
      BY <1>2, <3>1 DEF Fail
    <3>3. QED
      BY <1>2, <2>1, <3>2, FailRun, LoseRun
  <2>2. CASE phase = "destroy"
    BY <1>2, <2>2, DestroyCallKeeps
  <2>3. QED
    BY <1>2, <2>1, <2>2 DEF Fail
<1>3. CASE Return
  <2>1. phase = "run" \/ phase = "destroy"
    BY <1>3 DEF Return
  <2>2. QED
    BY <1>3, <2>1, ReturnRun, DestroyCallKeeps
<1>4. QED
  BY <1>1, <1>2, <1>3, RunDeferredKeeps, DeliverKeeps, CloseKeeps, DestroyKeeps, OtherKeeps,
     StutterKeeps DEF Next

LEMMA Inductive == Spec => []IInv
<1>1. Init => IInv
  BY InitHolds
<1>2. IInv /\ [Next]_vars => IInv'
  BY Step
<1>3. QED
  BY <1>1, <1>2, PTL DEF Spec

-----------------------------------------------------------------------------
(* Theorems *)

(* No way out of an open, no Close and no Destroy closes a number that is   *)
(* not its own, but for the file of NetBSD, which openTunDevice closes      *)
(* after the deferred function has.                                         *)
THEOREM NeverStray == Spec => []NoStrayClose
<1>1. IInv => NoStrayClose
  BY DEF IInv
<1>2. QED
  BY <1>1, Inductive, PTL

(* A failed open and a closed device have given back every descriptor they  *)
(* got, but for the one that NetBSD and OpenBSD open and report as an       *)
(* error.                                                                   *)
THEOREM GivesBack == Spec => []DescriptorsReturned
<1>1. IInv => DescriptorsReturned
  <2>1. SUFFICES ASSUME IInv, Failed \/ Closed
                 PROVE  Ours = {} \/ (DescriptorLost /\ Cardinality(Ours) = 1)
    BY DEF DescriptorsReturned
  <2>2. Live = {} /\ phase # "run"
    <3>1. deferred = None /\ ToClose(None) = {}
      BY <2>1, CloserFields DEF IInv, Waiting, Failed, Closed
    <3>2. QED
      BY <2>1, <3>1 DEF IInv, Types, Failed, Closed, Live
  <2>3. CASE Owned(fd, owner, {})
    BY <2>3 DEF Owned, Ours
  <2>4. CASE DescriptorLost /\ Owned(fd, owner, {"data"})
    <3>1. Ours = {fd["data"]}
      BY <2>4 DEF Owned, Ours
    <3>2. Cardinality(Ours) = 1
      BY <3>1, FS_Singleton
    <3>3. QED
      BY <2>4, <3>2
  <2>5. QED
    BY <2>1, <2>2, <2>3, <2>4 DEF IInv, Accounted
<1>2. QED
  BY <1>1, Inductive, PTL

(* A failed open leaves no interface behind, and no more does a device that *)
(* was closed and destroyed, or was never to stay; the failures that do     *)
(* leave one are those that InterfaceLost names, and a Destroy that fails.  *)
THEOREM LeavesNoInterface == Spec => []NoInterfaceLeft
<1>1. IInv => NoInterfaceLeft
  <2>1. SUFFICES ASSUME IInv PROVE NoInterfaceLeft
    OBVIOUS
  <2>2. ASSUME Failed, ~InterfaceLost, destroyed # "not" PROVE iface = "none"
    <3>1. ToClose(deferred) = {} /\ failedAt # "none"
      BY <2>1, <2>2, CloserFields DEF IInv, Types, Waiting, Failed
    <3>2. QED
      BY <2>1, <2>2, <3>1 DEF IInv, FailedIface, Failed
  <2>3. ASSUME Closed, destroyed = "done" \/ ~Stays PROVE iface = "none"
    <3>1. failedAt = "none" /\ iface \in {"none", "bound", "kept"}
      BY <2>1, <2>3 DEF IInv, Types, Closed
    <3>2. QED
      BY <2>1, <2>3, <3>1 DEF IInv, OpenIface, Closed
  <2>4. QED
    BY <2>2, <2>3 DEF NoInterfaceLeft
<1>2. QED
  BY <1>1, Inductive, PTL

(* An open that succeeds has the descriptors of the device and no other,    *)
(* and the interface that was asked for.                                    *)
THEOREM DeliversTheDevice == Spec => []Delivered
<1>1. IInv => Delivered
  <2>1. SUFFICES ASSUME IInv, Opened
                 PROVE  /\ Ours = {fd[r] : r \in Held} /\ iface = Final
                        /\ platform = "solaris" => (linked <=> config.persist)
    BY DEF Delivered, Final
  <2>2. ToClose(deferred) = {} /\ failedAt = "none"
    BY <2>1, CloserFields DEF IInv, Types, Waiting, Opened
  <2>3. iface = Final /\ (platform = "solaris" => (linked <=> config.persist))
    BY <2>1, <2>2 DEF IInv, OpenIface, Opened
  <2>4. Live = Held /\ ~DescriptorLost
    BY <2>1, <2>2 DEF Live, Opened, DescriptorLost
  <2>5. Owned(fd, owner, Held)
    BY <2>1, <2>4 DEF IInv, Accounted
  <2>6. Ours = {fd[r] : r \in Held}
    BY <2>5 DEF Owned, Ours
  <2>7. QED
    BY <2>3, <2>6
<1>2. QED
  BY <1>1, Inductive, PTL
=============================================================================
