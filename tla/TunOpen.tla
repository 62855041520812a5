------------------------------- MODULE TunOpen -------------------------------
(***************************************************************************)
(* The open paths: what NewTun does on each platform, call by call, how it *)
(* undoes it when one of the calls fails, and how Close and Destroy give   *)
(* back what an open has got.                                              *)
(*                                                                         *)
(* An open path is a sequence of calls, given for each platform by the     *)
(* operator with its name, and so is Destroy.  A call may get a            *)
(* descriptor, make or remove the interface, or defer what undoes it.      *)
(* Deferred functions run last first; then openTunDevice closes the file   *)
(* it was handed.  Meanwhile other goroutines open and close files of      *)
(* their own, and a number that was closed may be theirs the next moment.  *)
(*                                                                         *)
(* The kernels are external: of an interface we keep whether it goes with  *)
(* its descriptor ("bound") or stays until it is destroyed ("kept").       *)
(***************************************************************************)
EXTENDS Naturals, Sequences, FiniteSets

CONSTANTS
  Fds,                      \* bound: the descriptor numbers of the process
  NoFd

ASSUME FdsAssumption == NoFd \notin Fds

VARIABLES
  platform, config,
  phase,                    \* "run", "destroy", "unwind", "open" or "failed"
  at,                       \* the calls made
  failedAt,                 \* the call of the open path that failed, or "none"
  destroyed,                \* how Destroy went: "never", "done" or "not"
  fd,                       \* fd[r]: the variable that holds a descriptor
  file,                     \* an os.File holds the descriptors
  deferred,                 \* last first
  owner,                    \* owner[n]: whose descriptor n is
  iface, linked,            \* the interface, and its link below IP (Solaris)
  stray                     \* a close hit a descriptor that was not ours

fds    == <<fd, owner, stray>>
ifaces == <<iface, linked>>
vars   == <<platform, config, phase, at, failedAt, destroyed, fds, file,
            deferred, ifaces>>

Roles     == {"ip", "data", "link", "ctl"}
Platforms == {"linux", "freebsd", "dragonfly", "netbsd", "openbsd", "darwin", "solaris"}
Configs   == [persist : BOOLEAN, ptp : BOOLEAN, offloads : BOOLEAN, named : BOOLEAN]

-----------------------------------------------------------------------------
(* Calls *)

Undo(d, r)   == [does |-> d, role |-> r, always |-> FALSE]
CloseFd(r)   == Undo("close", r)
AtReturn(r)  == [CloseFd(r) EXCEPT !.always = TRUE]
DestroyIface == Undo("Destroy", "none")

(* A call that may fail and leaves nothing behind. *)
Call(n) ==
  [call |-> n, sure |-> FALSE, gets |-> "none", shuts |-> "none", makes |-> "same",
   removes |-> FALSE, links |-> FALSE, undo |-> <<>>, hands |-> FALSE,
   returns |-> FALSE, loses |-> FALSE]

(* Mutant: the descriptor is not closed on the way out. *)
GetsOnly(n, r) == [Call(n) EXCEPT !.gets = r]

Gets(n, r) == [Call(n) EXCEPT !.gets = r, !.undo = <<CloseFd(r)>>]

Makes(n, i) == [Call(n) EXCEPT !.makes = i]

(* The last call of Destroy.  Linux reads the kernel's answer last, and may *)
(* not get it although the interface is gone.                               *)
Removes(n) == [Call(n) EXCEPT !.removes = TRUE]

(* Mutant: a deferred function is left out. *)
DefersNothing(u) == [Call("defer") EXCEPT !.sure = TRUE]

Defers(u) == [Call("defer") EXCEPT !.sure = TRUE, !.undo = <<u>>]

NewFile == [Call("NewFile") EXCEPT !.sure = TRUE, !.hands = TRUE]

Only(b, seq) == IF b THEN seq ELSE <<>>

(* /dev/tunN of NetBSD and OpenBSD: opened, or made and then opened.  When  *)
(* no name was asked for, the first N that opens is answered with an error, *)
(* and the descriptor is lost.                                              *)
CharDev(c, i) ==
  [Gets("chardev", "data") EXCEPT !.makes = i, !.loses = ~c.named]

(* The name that was asked for: too long, taken, or not a number. *)
CheckName == <<Call("name")>>

Permissions == <<Call("TUNSETOWNER"), Call("TUNSETGROUP")>>

Modes(c) == <<Call("TUNSIFHEAD")>> \o Only(~c.ptp, <<Call("TUNSIFMODE")>>)

(* setTunName has a socket of its own, and closes it when it returns. *)
SetTunName(c) ==
  Only(c.named, <<[Call("socket") EXCEPT !.gets = "ctl"],
                  [Call("SIOCSIFNAME") EXCEPT !.shuts = "ctl"]>>)

(* What FreeBSD and DragonFly set once the interface is there. *)
SetUp(c) ==
  Modes(c) \o <<Call("TUNSIFPID")>> \o SetTunName(c) \o <<Call("nonblock"), NewFile>>

-----------------------------------------------------------------------------
(* Platforms *)

(* createTunWithFlags has returned when openOffloadedTun goes on. *)
Linux(c) ==
  <<Gets("open", "data"), Call("NewIfreq"), Makes("TUNSETIFF", "bound"),
    Makes("TUNSETPERSIST", IF c.persist THEN "kept" ELSE "bound")>>
  \o Only(c.persist, <<Defers(DestroyIface)>>)
  \o Permissions \o <<Call("nonblock")>>
  \o Only(c.offloads,
          <<[Defers(CloseFd("data")) EXCEPT !.returns = TRUE], Call("NewOffloads")>>)

FreeBSD(c) ==
  <<[Gets("open", "data") EXCEPT !.makes = "kept"], Call("TUNGIFNAME")>>
  \o (IF c.persist THEN <<Defers(DestroyIface)>> ELSE <<Makes("TUNSTRANSIENT", "bound")>>)
  \o SetUp(c)

DragonFly(c) ==
  <<[Gets("open", "data") EXCEPT !.makes = "kept"], Call("TUNGIFNAME"),
    Defers(DestroyIface)>>
  \o SetUp(c)

NetBSD(c) ==
  <<CharDev(c, "kept"), Call("fstat"), Call("nonblock"),
    NewFile, Defers(DestroyIface)>>
  \o Modes(c)

(* Mutant: the file is made before the descriptor is set up. *)
OpenBSDEarly(c) == <<CharDev(c, "bound"), Call("fstat"), NewFile, Call("nonblock")>>

OpenBSD(c) == <<CharDev(c, "bound"), Call("fstat"), Call("nonblock"), NewFile>>

Darwin ==
  <<Gets("socket", "data"), Call("CTLIOCGINFO"), Makes("connect", "bound"),
    Call("UTUN_OPT_IFNAME"), Call("nonblock"), NewFile>>

(* Mutant: I_LINK whatever was asked for. *)
SolarisLink(c) == [Makes("I_LINK", "bound") EXCEPT !.links = TRUE]

(* I_PLINK or I_LINK; the second lasts until the descriptor of IP is closed. *)
LinkBelowIp(c) ==
  [Makes("I_LINK", IF c.persist THEN "kept" ELSE "bound") EXCEPT !.links = TRUE]

Solaris(c) ==
  <<[Gets("openIp", "ip") EXCEPT !.undo = <<AtReturn("ip")>>],
    Gets("open", "data"), Makes("TUNNEWPPA", "bound"), Call("mismatch"),
    Gets("openLink", "link"), Call("I_PUSH"), Call("IF_UNITSEL"),
    LinkBelowIp(c), Call("SIOCSLIFMUXID")>>
  \o Only(c.persist, <<Defers(DestroyIface)>>)
  \o <<Call("nonblock"), NewFile>>

OpenCalls ==
  CheckName \o
  CASE platform = "linux"     -> Linux(config)
    [] platform = "freebsd"   -> FreeBSD(config)
    [] platform = "dragonfly" -> DragonFly(config)
    [] platform = "netbsd"    -> NetBSD(config)
    [] platform = "openbsd"   -> OpenBSD(config)
    [] platform = "darwin"    -> Darwin
    [] platform = "solaris"   -> Solaris(config)

(* Destroy has a socket, or a file of IP, that it closes when it returns. *)
Opens(n) == [Gets(n, "ctl") EXCEPT !.undo = <<AtReturn("ctl")>>]

LinuxDestroy ==
  <<Opens("socket"), Call("bind"), Call("sendto"), [Removes("recvfrom") EXCEPT !.loses = TRUE]>>

BSDDestroy == <<Opens("socket"), Removes("SIOCIFDESTROY")>>

SolarisDestroy == <<Opens("openIp"), Call("SIOCGLIFMUXID"), Removes("I_PUNLINK")>>

Destroyable == {"linux", "freebsd", "dragonfly", "netbsd", "solaris"}

DestroyCalls ==
  CASE platform = "linux"   -> LinuxDestroy
    [] platform = "solaris" -> SolarisDestroy
    [] OTHER                -> BSDDestroy

Calls == IF phase = "destroy" THEN DestroyCalls ELSE OpenCalls

-----------------------------------------------------------------------------
Init ==
  /\ platform \in Platforms /\ config \in Configs
  /\ phase = "run" /\ at = 0 /\ failedAt = "none" /\ destroyed = "never"
  /\ fd = [r \in Roles |-> NoFd]
  /\ file = FALSE /\ linked = FALSE /\ stray = FALSE
  /\ deferred = <<>>
  /\ owner = [n \in Fds |-> "nobody"]
  /\ iface = "none"

TakeFd(r) ==
  \E n \in Fds : /\ owner[n] = "nobody"
                 /\ owner' = [owner EXCEPT ![n] = "tun"]
                 /\ fd' = [fd EXCEPT ![r] = n]
                 /\ UNCHANGED stray

(* close(2) takes a number, whoever has it. *)
CloseNumbers(rs) ==
  /\ owner' = [n \in Fds |-> IF \E r \in rs : fd[r] = n THEN "nobody" ELSE owner[n]]
  /\ stray' = (stray \/ \E r \in rs : owner[fd[r]] # "tun")
  /\ UNCHANGED fd

(* What the kernel makes of the closing of these descriptors. *)
Unbind(rs) ==
  /\ iface' = IF "data" \in rs /\ iface = "bound" THEN "none" ELSE iface
  /\ linked' = (linked /\ ~("ip" \in rs /\ ~config.persist))

Descriptors(c) ==
  CASE c.gets # "none"  -> TakeFd(c.gets)
    [] c.shuts # "none" -> CloseNumbers({c.shuts})
    [] OTHER            -> UNCHANGED fds

(* On Solaris an interface that was destroyed still has its PPA, while the *)
(* descriptor of the device is there.                                      *)
Remains == IF platform = "solaris" /\ (file \/ failedAt # "none") THEN "bound" ELSE "none"

Interface(c) ==
  /\ iface' = CASE c.removes        -> Remains
                [] c.makes # "same" -> c.makes
                [] OTHER            -> iface
  /\ linked' = ((linked /\ ~c.removes) \/ c.links)

(* There is nothing to remove where there is no interface. *)
Possible(c) ==
  c.removes => iface # "none" /\ (platform = "solaris" => linked)

Succeed ==
  /\ phase \in {"run", "destroy"} /\ at < Len(Calls)
  /\ at' = at + 1
  /\ LET c == Calls[at + 1]
     IN /\ Possible(c)
        /\ Descriptors(c)
        /\ Interface(c)
        /\ deferred' = c.undo \o IF c.returns THEN <<>> ELSE deferred
        /\ file' = (file \/ c.hands)
  /\ UNCHANGED <<platform, config, phase, failedAt, destroyed>>

(* setTunName closes its socket on this way too.  Some calls do their work *)
(* and are reported to have failed all the same.                           *)
Fail ==
  /\ phase \in {"run", "destroy"} /\ at < Len(Calls)
  /\ LET c == Calls[at + 1]
     IN /\ ~c.sure
        /\ IF phase = "run"
           THEN failedAt' = c.call /\ UNCHANGED destroyed
           ELSE destroyed' = "not" /\ UNCHANGED failedAt
        /\ \/ /\ IF c.shuts # "none" THEN CloseNumbers({c.shuts}) ELSE UNCHANGED fds
              /\ UNCHANGED ifaces
           \/ c.loses /\ Possible(c) /\ Descriptors(c) /\ Interface(c)
  /\ phase' = "unwind"
  /\ UNCHANGED <<platform, config, at, file, deferred>>

Return ==
  /\ phase \in {"run", "destroy"} /\ at = Len(Calls)
  /\ phase' = "unwind"
  /\ destroyed' = IF phase = "destroy" THEN "done" ELSE destroyed
  /\ UNCHANGED <<platform, config, at, failedAt, fds, file, deferred, ifaces>>

EnterDestroy == phase' = "destroy" /\ at' = 0

RunDeferred ==
  /\ phase = "unwind" /\ deferred # <<>>
  /\ deferred' = Tail(deferred)
  /\ LET u == Head(deferred)
     IN CASE failedAt = "none" /\ ~u.always -> UNCHANGED <<phase, at, fds, ifaces>>
          [] u.does = "Destroy" /\ failedAt # "none" ->
                EnterDestroy /\ UNCHANGED <<fds, ifaces>>
          [] u.does = "close" /\ (failedAt # "none" \/ u.always) ->
                CloseNumbers({u.role}) /\ Unbind({u.role}) /\ UNCHANGED <<phase, at>>
  /\ UNCHANGED <<platform, config, failedAt, destroyed, file>>

(* What an os.File of the device holds. *)
Held == IF platform = "solaris" THEN {"data", "link"} ELSE {"data"}

(* openTunDevice closes the file of a device it does not hand out. *)
Deliver ==
  /\ phase = "unwind" /\ deferred = <<>>
  /\ IF failedAt = "none"
     THEN /\ phase' = "open"
          /\ file' = (file \/ destroyed = "never")
          /\ UNCHANGED <<fds, ifaces>>
     ELSE /\ phase' = "failed"
          /\ file' = FALSE
          /\ IF file THEN CloseNumbers(Held) /\ Unbind(Held)
                     ELSE UNCHANGED <<fds, ifaces>>
  /\ UNCHANGED <<platform, config, at, failedAt, destroyed, deferred>>

Close ==
  /\ phase = "open" /\ file
  /\ file' = FALSE
  /\ CloseNumbers(Held) /\ Unbind(Held)
  /\ UNCHANGED <<platform, config, phase, at, failedAt, destroyed, deferred>>

(* Before Close or after it. *)
Destroy ==
  /\ phase = "open" /\ platform \in Destroyable
  /\ destroyed # "done"
  /\ EnterDestroy
  /\ UNCHANGED <<platform, config, failedAt, destroyed, fds, file, deferred, ifaces>>

(* Another goroutine opens a file, or closes one of its own. *)
Other ==
  /\ \E n \in Fds : \/ owner[n] = "nobody" /\ owner' = [owner EXCEPT ![n] = "other"]
                    \/ owner[n] = "other" /\ owner' = [owner EXCEPT ![n] = "nobody"]
  /\ UNCHANGED <<platform, config, phase, at, failedAt, destroyed, fd, file,
                 deferred, ifaces, stray>>

Next ==
  \/ Succeed \/ Fail \/ Return \/ RunDeferred \/ Deliver
  \/ Close \/ Destroy \/ Other

Spec == Init /\ [][Next]_vars

-----------------------------------------------------------------------------
(* Properties *)

Failed == phase = "failed"
Opened == phase = "open" /\ file /\ destroyed = "never"
Closed == phase = "open" /\ ~file

Ours == {n \in Fds : owner[n] = "tun"}

(* No way out of an open, no Close and no Destroy closes a number twice, by *)
(* then perhaps another goroutine's file, but one: that of NetBSD once it   *)
(* has made the os.File, which openTunDevice closes after the deferred      *)
(* function has.                                                            *)
ClosedTwice == platform = "netbsd" /\ failedAt \in {"TUNSIFHEAD", "TUNSIFMODE"}

NoStrayClose == stray => ClosedTwice

(* A failed open, and a device that was closed, with Destroy before or      *)
(* after, has given back every descriptor it got, but for the one that      *)
(* NetBSD and OpenBSD have opened and report as an error.                   *)
DescriptorLost == failedAt = "chardev" /\ ~config.named

DescriptorsReturned ==
  Failed \/ Closed => Ours = {} \/ (DescriptorLost /\ Cardinality(Ours) = 1)

(* A failed open leaves no interface behind, but where it fails before its  *)
(* removal is deferred or after that has been forgotten, or where Destroy,  *)
(* whose error nobody looks at, fails in its turn.  A device that was       *)
(* closed leaves none if it was destroyed as well, in whatever order, or    *)
(* was never to stay.                                                       *)
InterfaceLost ==
  <<platform, failedAt>> \in
    {<<"freebsd", "TUNGIFNAME">>, <<"freebsd", "TUNSTRANSIENT">>,
     <<"dragonfly", "TUNGIFNAME">>, <<"solaris", "SIOCSLIFMUXID">>,
     <<"netbsd", "chardev">>, <<"netbsd", "fstat">>, <<"netbsd", "nonblock">>,
     <<"openbsd", "chardev">>, <<"linux", "NewOffloads">>}

Stays ==
  \/ platform \in {"linux", "freebsd", "solaris"} /\ config.persist
  \/ platform \in {"dragonfly", "netbsd"}

NoInterfaceLeft ==
  /\ Failed /\ ~InterfaceLost /\ destroyed # "not" => iface = "none"
  /\ Closed /\ (destroyed = "done" \/ ~Stays) => iface = "none"

(* An open that succeeds leaves the descriptors of the device and no other, *)
(* and an interface that outlives them exactly if that was asked for, where *)
(* it can be; on Solaris it is then linked below IP.                        *)
Delivered ==
  Opened =>
    /\ Ours = {fd[r] : r \in Held}
    /\ iface = IF Stays THEN "kept" ELSE "bound"
    /\ platform = "solaris" => (linked <=> config.persist)
=============================================================================
