# subpass in TLA+

subpass gives Go programs a layer-3 tunnel interface (TUN) on Linux, five BSDs
counting macOS, Solaris and Windows. `NewTun` opens one and returns an
`io.ReadWriteCloser` that moves one IP packet per call; `Copy` pumps packets
between a stream and a tun. The repository also holds the STREAMS driver that
provides `/dev/tun` on Solaris.

This directory holds TLA+ models of those programs, TLC runs that check them
on small instances, and theorems that TLAPS proves for every instance.
`PROJECT.json` lists the runs, the source lines each definition stands for, the
hazards and the theorems.

## Inventory

| component | source | state | operations | interacts with |
|---|---|---|---|---|
| Tun device, Linux and BSDs | `tun_linux.go`, `offload_linux.go`, `rw_bsd.go`, `tun_*bsd.go`, `tun_dragonfly.go`, `tun_darwin.go` | closed flag, read and write mutex, `os.File` | Read, Write, Close | goroutines that share it; the runtime's `os.File`; the kernel |
| Tun device, Windows | `tun_windows.go`, `wintun/session.go` | closed flag, WaitGroup, event, session, adapter | Read, Write, Close | goroutines; rings in memory shared with the driver |
| Tun device, Solaris | `tun_solaris.go` | as on Linux, two files, a buffer of unread bytes | Read (readPacket), Write, Close | goroutines; the driver |
| Open paths | `tun.go`, `create*`/`open*`/`Destroy` of each platform, `mknod.go` | descriptors, the interface, deferred functions | NewTun, Close, Destroy | the kernel; every other opener of files in the process |
| Copy | `io_copy.go`, `errors.go` | buffer, offset, count, errors | Copy | any reader and any writer, tun devices among them |
| Driver, control plane | `driver/tuntap/tun.c`, `if_tun.h` | list of streams, table of PPAs, list of protocol streams per PPA, DLPI state per stream | open, close, ioctls, DLPI requests | its clients (subpass, IP, snoop); STREAMS perimeters |
| Driver, data plane | `driver/tuntap/tun.c` | write queues, service procedures, stream heads | put and service procedures, routing, flushes | the control plane, whose lists it walks |
| wintun bindings | `wintun/*.go` | the library handle, procedures, adapters with finalizers | Find and Load, the calls into wintun.dll | goroutines that open and close devices at once; the collector |
| vhost-net device | `_vhost_linux.go` | | | no build takes the file |
| driver entry points, build | `tun.c`, `configure*`, `Makefile.in`, ... | | | |

What is hard, and what makes each part correct:

* **Devices.** Any number of goroutines read, write and close. The closed flag
  is looked at before the mutex is taken and not after. A parked reader must
  not hold up writers and must be woken by Close. One Close wins; no call may
  use a descriptor, a session or ring memory that has been given back.
* **Windows.** Calls are counted before they are refused, so `Add` races with
  `Wait`. One event, which resets itself, wakes readers both for packets and
  for Close. Packets are borrowed from memory the driver fills again.
* **Solaris.** The data file is a stream of bytes: a read may end inside a
  packet. What is left over is kept in a slice of the buffer that the next read
  goes into, and that read may fail. Close has two files to close.
* **Open paths.** Up to a dozen calls, each of which may fail. Deferred
  functions, a file that `openTunDevice` closes and kernel rules about what
  goes with a descriptor must together give back everything once; Destroy, which
  has a descriptor of its own, runs among them or later, before Close or after.
* **Lazy loading.** wintun.dll and its procedures are looked up by whoever needs
  them first, under two mutexes; a missing one is an error for some calls and a
  panic for others. A finalizer and Close both close the adapter.
* **Copy.** Short reads, short writes, short buffers, and errors that come with
  bytes. No byte may be lost or repeated, or no later packet is recognised.
* **Driver.** Linked lists in kernel memory under interleaved requests, some of
  which `qwriter` puts off. The control stream may close at any time and takes
  the interface with it; the lists must be exact or the kernel follows a bad
  pointer. Frames wait in queues while streams move between interfaces.

## Modules

| module | models | state and actions |
|---|---|---|
| `TunHandle` | the promise of a handle, abstractly | open, closing, closed; calls are admitted, refused, transfer a packet or fail |
| `UnixTun` | the Linux and BSD device | `closed`, `mutex`, the `os.File` as `fileClosing` and `fdOpen`; one action per atomic step of Read, Write and Close |
| `WinTun` | the Windows device | `closed`, the WaitGroup as the set `running`, `event`, session and ring; the driver fills slots and may vanish |
| `TunPorts` | the promise of the driver, abstractly | which stream controls an interface, which are on it, DLPI states |
| `TunDriver` | the driver's control plane | `struct tunstr` and `struct tunppa` as functions of streams and blocks of memory; one action per handler, the linked lists included |
| `TunRoute` | the driver's data plane, on top of `TunDriver` | write queues, service procedures, stream heads; `tun_frame`, `tunwput`, `tunwsrv`, `tun_dlpi` |
| `TunOpen` | the open paths of seven platforms, Close and Destroy | the calls of a path, and of Destroy, as a table, one operator per platform; actions that carry it out, fail, unwind |
| `ByteStream` | a stream of packets as bytes, `tcpip.TotalLen` | operators only |
| `PacketCopy` | `Copy` | buffer, offset, errors; the reader and the writer may do all their contracts allow, a reader that fails once and then goes on included; a send ring that may be full |
| `SolarisTun` | the Solaris device | `UnixTun`'s variables and steps, and `buff`, the bounds of `unread`, the second file |
| `WinOpen` | NewTun, LUID and Close of Windows, `dll.go`, the finalizer | per goroutine the call it is in and its place in `Find`; the mutexes; adapter, session and finalizer of its device |
| `ByteStreamProofs` | | lemmas: where packets start and end, what `TotalLen` finds at the head of bytes, streams cut and joined |
| `UnixTunProofs`, `WinTunProofs`, `TunRouteProofs` (of `TunDriver` too), `TunOpenProofs`, `WinOpenProofs`, `PacketCopyProofs`, `SolarisTunProofs` | | theorems |

`MC*` modules add the symmetry and the small data of the runs. Operators
whose comment starts with `Mutant:` are bugs of the kind the code could have had;
nothing uses them, and each makes a property of some run fail when it is put in
the place of the definition that follows it.

`UnixTun`, `WinTun` and `SolarisTun` implement `TunHandle`; `SolarisTun` takes from
`UnixTun` what the two devices share; `TunDriver` implements `TunPorts`;
`TunRoute` implements `TunDriver`, whose actions it calls.

### How the models follow the code

*Atomicity.* In `UnixTun` and `WinTun` each atomic operation, mutex operation
and call into the kernel, the runtime or wintun.dll is a step. `WaitGroup.Wait`
and `Done` take two, since the runtime panics when the count moves between
them. A driver routine is one step: the flags at `tun.c:131` make open, close
and what `qwriter` runs exclusive, and give every stream its put and service
procedures one at a time. Routines of different streams do run side by side,
but share only lists that no one of them changes and stream heads, for which
`canputnext` is a hint; the model takes hint and `putnext` together. `Find` and
`Load` are a step per atomic load, lock and call; `Adapter.Close` takes the finalizer
away and closes in one, nothing else being able to reach the adapter between.
In `TunOpen` a call is a step, as is a deferred function.

*External parts.* `os.File` (it wakes parked calls and gives the descriptor back
after the last of them), `sync.WaitGroup` (when it panics), wintun.dll (a ring
of slots, an event reset by the wait it satisfies), the kernels (when an
interface goes with its descriptor), STREAMS (`qwriter` serves a request once;
`putq` schedules the service procedure and `putbq` does not). Each is modelled
from how the code leans on it.

*Memory.* A PPA that was freed reads as zero until its block is allocated again,
as does a stream. Real memory may read as anything; since the lists are proved
never to lead there for orderly clients, this matters only to the runs with
disorderly ones, which it makes milder than reality.

*Errors.* Requests the driver turns down change nothing; only those put off
(`Refused`) are steps, since being answered is a property.

## Runs

| run | instance | what it shows |
|---|---|---|
| `UnixTun` | 3 goroutines, 1 packet, fair | no system call outlives the descriptor (`FdOwned`); mutexes exclude and are given back (`OneAtATime`); `RefinesHandle`; Close lets everybody out (`CloseDrains`); a parked reader never blocks a writer (`WriterReturns`) |
| `WinTun` | 2 readers, a writer, 1 slot, fair | nobody is inside an ended session (`SessionAlive`); ring memory holds still while it is copied (`CopyIsStable`); `RefinesHandle`; Close returns, unless late calls keep coming, the program panics, or the event woke one reader and the other sleeps on (`CloseReturns`); a reader that sleeps alone is never missed (`SoleReaderIsWoken`) |
| `WinTun_valid` | 2 readers, 1 other, 2 slots | **violated**: a Read succeeds with a malformed packet |
| `TunDriver_safety` | 3 streams, 2 PPAs, orderly clients | lists are exact and walks end (`ListsExact`, `NotBroken`), no pointer to a PPA or its control stream dangles (`PpasSound`), opens take the least minor number (`LeastMinor`); `RefinesPorts` |
| `TunDriver_modes` | 2 streams, 1 PPA, 2 modes, `allocb` may fail, fair | an interface has its control stream until it is freed, and is freed with it, but for one that `allocb` failed (`LeftBehindOnce`); every request put off is answered (`RequestsAnswered`) |
| `TunDriver_sap` | 2 streams | **violated**: an unbound stream keeps its sap |
| `TunDriver_freed` | 2 streams, disorderly clients | **violated**: a list holds a freed stream |
| `TunRoute` | 2 control streams and 1 stream assigned by ioctl or attach, 1 block, 2 frames, fair | no frame crosses from one interface to the next (`StaysOnInterface`); `tunwsrv` ends though nobody reads (`ServiceEnds`); a request is answered unless it was in a queue when that was flushed (`RequestsReturn`) |
| `TunOpen` | 7 platforms, all configurations, 4 numbers | no number is closed twice, descriptors and interfaces are given back by failed opens and by Close and Destroy, and a success delivers what was asked for, each with its exceptions named |
| `PacketCopy` | streams of up to 3 packets, a small buffer and a ring of 1, fair | no byte lost or repeated (`Lossless`); packets recognised (`InSync`); nil means that the reader came to its end and all was written, with one kind of error named that may be lost (`NilMeansComplete`); Copy ends, unless the ring stays full or a packet exceeds the buffer (`Terminates`) |
| `SolarisTun` | 2 goroutines, 4 streams of up to 3 packets, a buffer of 5 bytes, fair | what was read and not handed out is kept, with one exception (`KeepsTheRest`); `RefinesHandle`; whoever reads gets every packet, unless the stream is clogged (`AllServed`) |
| `WinOpen` | 2 goroutines, libraries that lack up to 2 procedures, fair | one load, and addresses from it (`LoadedOnce`); adapters open when used, closed once, and by Close and NewTun under no session (`AdapterSound`); no panic with a complete or an absent library (`PanicNeedsMissingProc`); no call waits for ever (`CallsReturn`) |

`TunDriver_freed` switches the deadlock check off: a walk that runs astray stops
the kernel, and the model with it. `WinTun` stutters after a panic and
`PacketCopy` and `WinOpen` after a return or a panic.

### Bounds

`Threads`: a race in a device is between a reader, a writer and a closer, or
two of one kind and one of another; more goroutines are left to the theorems,
which hold for any number. Two readers and a writer are enough for
Windows, where a slot has to pass from one reader to the other; `Readers` and
`Writers` say who does what, any of them may close. On Solaris the mutexes are
those of `UnixTun`, and what is new is between one reader and one closer. In
`WinOpen` two goroutines make every race for the two mutexes, and a device is
one goroutine's. `MaxPackets`, `Slots`: one packet tells an empty queue from
another; two slots, in `WinTun_valid`, let packets overtake. `Libraries`: one
missing procedure is met in every call, two in a call and in the one that cleans
up after it. `Streams`, `Blocks`, `MaxPpa`: in `TunDriver_safety` three streams let
a list lose its head or its tail, and two PPAs are enough for one to be mistaken
for the other; where there is one block, the next PPA is made of the memory of
the last, which is what a pointer that dangles would point to. `Frames`,
`HiWater`: one frame fills a stream head and another waits. `Fds`: one more than
any device needs. `Header`, `Size`, `RingSize` and the streams of `MCPacketCopy`
stand in the order of their real values: packets shorter than the buffer, as
long, and longer, and a ring that holds fewer packets than the stream has. Those
of `MCSolarisTun` are the few that differ: packets of which one read takes one and
a half, a rest longer than what lay before it, bytes that are no packet, a
packet longer than the buffer.

`TunDriver_safety` and `TunRoute` take clients to be *orderly*: a client
assigns a stream to a PPA only while it is unassigned. `tun.c` does not check this;
`TunDriver_freed` shows what follows. The clients in `tun_solaris.go`, and IP,
are orderly. `TunRoute` also gives each stream a client of one kind that waits
for answers, as those are, and a stream is in each of its lives assigned by ioctl
or by attach (`setters`). In it a stream assigned by TUNSETPPA never detaches;
one that did, with a frame waiting, and was assigned again by TUNSETPPA could
take that frame along, an ioctl not waiting in the queue as an attach does.

### Fairness

* `UnixTun`, `WinTun`: weak fairness for what a goroutine does next, since the Go
  scheduler runs what is runnable; a read that waits for a packet is not
  enabled, and packets need not arrive. Strong fairness for taking a mutex:
  `sync.Mutex` hands itself to a waiter that has starved for a millisecond.
  Whether a system call gives an error is left open.
* `TunDriver`: `qwriter` runs what it has put off. In `TunRoute` that takes an
  instant at which no routine of the driver runs, so strong fairness, and
  `RequestsReturn` supposes such instants keep coming; a scheduled service
  procedure runs (weak fairness). Clients need do nothing.
* `PacketCopy`: the reader answers when it is given room, and the writer when its
  ring is not full or has nothing to do with the answer, the bytes being short;
  nothing makes the driver of Windows empty the ring. A reader
  that gives no byte and no error, and a writer that takes none, change nothing
  and are left out; Copy spins on one that does so for ever.
* `SolarisTun`: as `UnixTun`. That reads succeed, that the driver delivers and that
  callers bring room is not fairness but the premise of `AllServed`.
* `WinOpen`: as `WinTun`: runnable goroutines run, and a mutex does not starve its
  waiter. Nothing makes anybody close a device, or the collector run.

## What the checks found

1. `WinTun_valid`: `Read` (`tun_windows.go:107`) releases the ring slot and then
   validates it. When the driver has meanwhile filled the slot, the wrong packet
   is looked at.
2. `TunDriver_sap`: closing a control stream (`tun.c:321`) resets the state of its
   members and not their `sap`. Attached again, such a stream gets frames before
   it binds.
3. `TunDriver_freed`: TUNSETPPA (`tun.c:456`) does not look whether the stream is
   on a list. Linked twice, it stays on one when it is freed.

Exceptions stated in the properties of passing runs, each of which the run needs:

* `CloseReturns`: late calls, the panic and the overslept event.
* `NoStrayClose`: NetBSD's second close of a number (`tun_netbsd.go:50`).
  `DescriptorsReturned`: the descriptor `mknod.go:36` reports as an error.
  `NoInterfaceLeft`: the interfaces that stay when an open fails before their
  removal is deferred, and those whose removal fails without anybody looking.
  `Delivered`: Solaris hands out a non-persistent interface whose link below IP was
  dissolved when `ipFd` was closed (`tun_solaris.go:78`).
* `RequestsReturn`: requests thrown away by the flush at `tun.c:319`, or by an M_FLUSH.
  `lost` records whose those were, at the flush: nothing else may lose one.
* `LeftBehindOnce`: TUNNEWPPA puts the PPA in the table, with the queue of its stream
  (`tun.c:422`), before it looks for memory for a message. Without memory
  (`tun.c:425`) it gives up and leaves the PPA there, and the stream does not know of
  it: closing the stream frees the stream only, and `tun_frame` sends what protocol
  streams write to the queue of a stream that is gone. No orderly client can
  remove that PPA.
* `NilMeansComplete`: an error that comes with bytes, where the bytes are a part of a
  packet and the writer is a Tun: `continue` (`io_copy.go:36`) goes on to the next read
  and the error is forgotten. A reader that fails again is caught by that read; one
  that does not, as `io.Reader` allows, has its error lost, and Copy goes on to the
  end. `failed` records an error that was given and not forgotten in this way.
* `KeepsTheRest`: `readPacket` moves the rest to the front (`tun_solaris.go:259`) and
  lets `unread` point to it only after the read (line 264). If that read fails
  and the rest was longer than what lay before it, `unread` is a rest that was
  partly written over, and the stream is out of step from then on.
* `AllServed`: bytes that are no packet stay in `unread`, and every Read gives their
  error (`tun_solaris.go:266`); a packet longer than the buffer fills it, and every
  Read reads into no room.
* `SolarisTun`'s `RefinesHandle`: a Read let through before Close may answer with a
  packet from `unread` after both files were closed (`kept` in `TunHandle`).
* `Terminates`: `(0, nil)` of a full send ring (`tun_windows.go:164`) makes Copy try
  again at once, for as long as the ring is full; a packet longer than the buffer
  makes it read into no room for ever.
* `AdapterSound`: `LUID` (`tun_windows.go:54`) does not look whether the device was
  closed and hands a closed adapter to wintun.dll; without `WintunCloseAdapter` in
  the library an adapter stays open; the finalizer of a device that was dropped
  without Close closes the adapter and leaves its session running.

## Proofs

All are proved for every value of the constants under the modules' named
assumptions, which TLC evaluates in the runs. They say that `NULL`, `NoFd` and
`NoThread` are nobody, and that sizes (`Header`, `Size`, `RingSize`, `HiWater`) are
positive numbers.

**UnixTun.** `IInv` = types, every goroutine at a place of its own method, the
mutex discipline, at most one goroutine between the swap and the release of the
file, and the descriptor open until that one is done. `FdOwned` alone is not
inductive: that the file is closed once needs `OneCloser`, and this needs the
places. From it `TypeCorrect`, `FdIsOwned`, `MutualExclusion` and `Refinement`
(each step is one of `TunHandle` or a stutter).

**WinTun.** The same plan, with `Counted`: `running` is the set of goroutines
between `Add` and `Done`. `SessionStaysAlive` holds although calls may start
after `Wait` has returned: they find `closed` set, and what proves it is that
one can only be past the check if it was counted when Close waited. `NoSlotShared`
needs in addition that the ring holds a slot once (`SlotInv`). `CopiesAreStable`
follows from it: the driver writes a slot only when it is nobody's. `PanicConfined`
and `Refinement` follow too.

**TunDriver.** `TypeCorrect`, `MinorsStayOrdered` and `OpensTakeLeastMinor` need no
assumption on clients; the two on minor numbers rest on `Gaps` (minor
numbers grow at least as fast as places, so that where the walk stops all the
smaller ones are taken). The
others assume `Orderly` (`TunDriver_freed` shows what becomes of lists without) and
`~AllocFails`: after a TUNNEWPPA that ran out of memory (`tun.c:425`) the table
holds a PPA whose control stream does not know it, and `ControlLive` is lost. Their invariant `IInv` says what a list is: its walk (the least set closed
under `p_next`) is the set of streams assigned to the PPA, and one of them ends
it. Ends and exactness do not survive an unlink without knowing that no two
streams point to one; that is `WellFormed`, with the lemmas on list walks,
insertion and removal at the head of the module.
`Refinement` maps a PPA number to its control stream and a stream to the number
it is on.

**TunRoute.** `ControlPlane`: each step of the whole driver is a step of
`TunDriver` or leaves it alone. `RoutesAreSound` then carries the lists, PPAs and
control streams over. `FramesStay` adds `RouteInv`, that a request in a write queue is
the last message of it (a client waits for the answer), that a stream about to
join an interface has no frame in its queue, and that a frame waiting on an
assigned stream is of its interface. The list of a PPA being exact, `tun_frame`
then finds streams of that interface only.

**TunOpen.** An open path is a table, so the proof has two halves. `Tables` goes through
the calls of each platform once and says of every call, by its place, what it gets,
defers and makes (`Row`): the descriptors an open has after k calls (`LiveAt`), its
interface (`IfaceAt`), what is deferred (`DeferredAt`). The rest no longer looks at
the tables. `IInv` = types; on the way through, the state is the one of its place
(`Along`); on the way out, what is deferred is one of five lists of closes, behind the
removal of the interface or behind the close of Destroy's own descriptor (`Waiting`);
the descriptors that are ours are exactly those that something will still close
(`Accounted`), from which `NeverStray`, `GivesBack` and `DeliversTheDevice` follow; and
an interface left after a failure is sure to go (`FailedIface`), one left after an open
has a reason to be there (`OpenIface`), from which `LeavesNoInterface` does. `Accounted`
is where the platforms' exceptions show: the lost descriptor of `chardev` is ours and
in no variable anybody closes, and once NetBSD has closed a number twice nothing is
claimed of whose it was.

**WinOpen.** `IInv` = types, a goroutine in `Find` exactly when it has a call to
make, what the two mutexes protect (who loads the library holds its lock and
finds it not loaded; an address comes from a library that has it), and for each
stage of the device what its adapter, session and finalizer are: in which stages
there is an open adapter (`Holding`), and in which no session (`Sessionless`).
`LoadedOnce` is not inductive without the locks, `AdapterSound` not without the stages.

**ByteStreamProofs.** A stream is given by the lengths of its packets, and `EndOf`
sums them up. That the sums exist, rise and leave no gap holds for streams of any
length: `UpTo` proves it by a smallest counterexample, since the library's
induction theorem takes an operator, which the provers cannot instantiate. On that
rest `LensAtHead` (where a packet starts, `TotalLen` gives that packet's length, or
says that there is not enough of it) and the lemmas on cutting and joining bytes.

**PacketCopy.** `IInv` = the part of the types that is needed, `Lossless`, and three
more: a Tun has been given whole packets (`Aligned`); Copy reads or says nil only
with nothing left but a part of a packet (`Rested`); a failure is unsettled only
while the bytes it came with are written, and nil follows the end of the stream only
(`Ended`). `StaysInSync` needs `Aligned` and `Lossless` together: the
bytes written end where a packet ends, and what is held goes on from there.
`NilIsComplete` needs all of them: at the end of the stream the part of a packet
that `Rested` allows cannot be there, nor an error that was not settled.

**SolarisTun.** `Refinement`, from `OneCloser` over the three places a Close passes
through (the eviction from the first file, the wait for the calls in it, the
second file). The buffer plays no part; `kept` in `TunHandle` allows the answers it
gives after Close. `TypeCorrect` and `RestKept` rest on `BInv`, which adds what the
buffer holds (`Buffer`), that the mutex lets in one reader (`Readers`: without it
two reads could move the same rest), and that a rest moved without overlap is
still in its old place too while the file is read (`Moved`: what a failed read falls
back on). Each step then either leaves the buffer alone, is one of the four of a
reader, or is the arrival of a packet.

Only model-checked: liveness (`CloseDrains`, `WriterReturns`, `CloseReturns`,
`SoleReaderIsWoken`, `RequestsAnswered`, `ServiceEnds`, `RequestsReturn`, `Terminates`,
`AllServed`, `CallsReturn`), which is outside the prover.

Only proved, and in no run: `SlotsNotShared` and `PanicOnlyInClose` of `WinTun`,
`MinorsOrdered` and `AttachedHasPpa` of `TunDriver`.

## Not modelled

* Opens of the driver by minor number rather than by the clone device, which no
  client here makes; the tap build (MAC filter, multicast, DL_SET_PHYS_ADDR_REQ,
  which at `tun.c:1136` follows a PPA that may not be there); the headers put before
  a frame; requests that only report, one of which stays without an answer when
  memory is short (`tun.c:865`).
* `Version`, `RunningVersion` and `Uninstall` of the wintun bindings, which nothing in
  `src/` calls; the marshalling of arguments.
* Contents of packets beyond "well formed or not", and names: that `Destroy` by name
  hits the interface that was opened, and not one that took its name since, is
  taken for granted.
* The driver's entry points (probe, attach, detach of the module), which keep no
  state that streams share.
* `_vhost_linux.go`, which is not built; `configure` and packaging.

## Plan

Done, in this order: `TunHandle`, `UnixTun`, `WinTun` (the device every program
uses), `TunPorts`, `TunDriver` (kernel memory), `PacketCopy`, `TunRoute`, `TunOpen`,
and proofs of the first four and of `TunRoute`'s composition; then `SolarisTun`,
`WinOpen`, the send ring in `PacketCopy`, Destroy in `TunOpen`, and proofs about all of
these; then the proofs about bytes, in `PacketCopy` and `SolarisTun`, and about the
tables of `TunOpen`.

To do:

1. Composition of `tun_solaris.go`'s open path with `TunDriver`, its two
   descriptors being streams of the driver.
