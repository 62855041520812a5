------------------------------ MODULE TunDriver ------------------------------
(***************************************************************************)
(* The control plane of the Solaris STREAMS driver (driver/tuntap/tun.c,   *)
(* built as TUN): opening and closing streams, the ioctls and the DLPI     *)
(* primitives that move a stream from one state to the next.               *)
(*                                                                         *)
(* Open, close, ioctls, attach and detach run with the outer perimeter to  *)
(* themselves, so each is one step.  The last four get there through       *)
(* qwriter(), which may put them off: until then the stream goes on to     *)
(* serve the messages behind them.  Bind, unbind and the promiscuous modes *)
(* touch one stream only and run under its own perimeter, at once.         *)
(*                                                                         *)
(* struct tunstr is spread over functions of the stream, struct tunppa     *)
(* over functions of the block of kernel memory it lives in.  A pointer is *)
(* a stream or a block, or NULL.  Requests that are turned down change     *)
(* nothing, and their replies are left out.                                *)
(***************************************************************************)
EXTENDS SequencesExt

CONSTANTS
  Streams,                  \* bound: the streams that can be open
  Blocks,                   \* bound: memory for struct tunppa
  NULL,
  MaxPpa,                   \* TUNMAXPPA
  Saps,                     \* bound: the saps clients bind to
  Modes,                    \* bound: the flags clients turn on and off
  Orderly,                  \* a client assigns a stream to a PPA only once
  AllocFails                \* allocb() may find no memory

ASSUME NullAssumption == NULL \notin Streams \cup Blocks \cup Nat
ASSUME PpaAssumption == MaxPpa \in Nat \ {0}
ASSUME SapAssumption == Saps \subseteq Nat
ASSUME ModeAssumption == Modes \subseteq {"RAW", "ALL_PHY", "ALL_SAP", "ALL_MUL"}
ASSUME ClientAssumption == Orderly \in BOOLEAN /\ AllocFails \in BOOLEAN

VARIABLES
  opened,                   \* the streams whose q_ptr is set
  tun_str,                  \* the list of streams, along s_next
  minor, ppa, flags, state, sap, p_next,         \* struct tunstr
  tun_ppa,                  \* the PPA table
  id, rq, p_str,                                 \* struct tunppa
  deferred,                 \* deferred[s]: what qwriter() has put off
  broken                    \* a list walk met a NULL it follows, or no end

streams == <<minor, ppa, flags, state, sap, p_next>>
ppas    == <<tun_ppa, id, rq, p_str>>
vars    == <<opened, tun_str, streams, ppas, deferred, broken>>

Ids == 0..(MaxPpa - 1)
ANY == MaxPpa               \* the -1 of TUNNEWPPA: any free number

Live == {tun_ppa[i] : i \in Ids} \ {NULL}

Requests ==
  {[kind |-> "TUNNEWPPA", p |-> p] : p \in Ids \cup {ANY}}
    \cup {[kind |-> k, p |-> p] : k \in {"TUNSETPPA", "ATTACH"}, p \in Ids}
    \cup {[kind |-> "DETACH", p |-> ANY]}
    \cup {[kind |-> "DLIOCRAW", p |-> ANY] : m \in Modes \cap {"RAW"}}

Assigning == {"TUNNEWPPA", "TUNSETPPA", "ATTACH"}

TypeOK ==
  /\ opened \subseteq Streams
  /\ tun_str \in Seq(Streams)
  /\ minor \in [Streams -> Nat]
  /\ ppa \in [Streams -> Blocks \cup {NULL}]
  /\ flags \in [Streams -> SUBSET ({"CONTROL"} \cup Modes)]
  /\ state \in [Streams -> {"UNATTACHED", "UNBOUND", "IDLE"}]
  /\ sap \in [Streams -> Saps \cup {0}]
  /\ p_next \in [Streams -> Streams \cup {NULL}]
  /\ tun_ppa \in [Ids -> Blocks \cup {NULL}]
  /\ id \in [Blocks -> Ids]
  /\ rq \in [Blocks -> Streams \cup {NULL}]
  /\ p_str \in [Blocks -> Streams \cup {NULL}]
  /\ deferred \in [Streams -> Requests \cup {NULL}]
  /\ broken \in BOOLEAN

Init ==
  /\ opened = {}
  /\ tun_str = <<>>
  /\ minor = [s \in Streams |-> 0]
  /\ ppa = [s \in Streams |-> NULL]
  /\ flags = [s \in Streams |-> {}]
  /\ state = [s \in Streams |-> "UNATTACHED"]
  /\ sap = [s \in Streams |-> 0]
  /\ p_next = [s \in Streams |-> NULL]
  /\ tun_ppa = [i \in Ids |-> NULL]
  /\ id = [b \in Blocks |-> 0]
  /\ rq = [b \in Blocks |-> NULL]
  /\ p_str = [b \in Blocks |-> NULL]
  /\ deferred = [s \in Streams |-> NULL]
  /\ broken = FALSE

-----------------------------------------------------------------------------
(* The list of protocol streams of a PPA *)

(* What a walk along p_next meets: the least set that holds the first      *)
(* stream and, with a stream, the next one.                                *)
Closed(S, first, next) ==
  /\ first \in S \cup {NULL}
  /\ \A u \in S : next[u] \in S \cup {NULL}

Walk(first, next) ==
  {s \in Streams : \A S \in SUBSET Streams : Closed(S, first, next) => s \in S}

List(b) == Walk(p_str[b], p_next)

Ends(b) == List(b) = {} \/ \E u \in List(b) : p_next[u] = NULL

(* Mutant: the head is set before the stream takes over what it was. *)
LinkStreamLate(s, b) ==
  /\ p_next' = [p_next EXCEPT ![s] = s]
  /\ p_str' = [p_str EXCEPT ![b] = s]

LinkStream(s, b) ==
  /\ p_next' = [p_next EXCEPT ![s] = p_str[b]]
  /\ p_str' = [p_str EXCEPT ![b] = s]

(* The walk stops at the pointer that leads to s, and makes it skip s. *)
HeadWithout(s, b) == IF p_str[b] = s THEN p_next[s] ELSE p_str[b]

(* Mutant: only the head can lose a stream. *)
NextUnlessHead(s, b) == p_next

NextWithout(s, b) ==
  [u \in Streams |-> IF p_str[b] # s /\ u \in List(b) /\ p_next[u] = s
                     THEN p_next[s] ELSE p_next[u]]

-----------------------------------------------------------------------------
(* tunopen *)

(* Mutant: it stops at the end only. *)
StopsAtEnd(i) == i = Len(tun_str) + 1

(* The walk stops at the first stream whose minor number is larger than its *)
(* place in the list, counted from zero, or at the end.                     *)
StopsAt(i) ==
  /\ i <= Len(tun_str) => i - 1 < minor[tun_str[i]]
  /\ \A j \in 1..(i - 1) : j - 1 >= minor[tun_str[j]]

(* A clone open, the only one the minor node lets through. *)
TunOpen(s) ==
  /\ s \notin opened
  /\ opened' = opened \cup {s}
  /\ \E i \in 1..(Len(tun_str) + 1) :
       /\ StopsAt(i)
       /\ minor' = [minor EXCEPT ![s] = i - 1]
       /\ tun_str' = InsertAt(tun_str, i, s)
  /\ UNCHANGED <<ppa, flags, state, sap, p_next, ppas, deferred, broken>>

-----------------------------------------------------------------------------
(* tunclose *)

(* The stream is taken off the list and freed; free memory reads as zero.   *)
(* What qwriter() had put off for it is thrown away.                        *)
FreeStream(s) ==
  /\ opened' = opened \ {s}
  /\ \E i \in 1..Len(tun_str) :
       /\ tun_str[i] = s /\ \A j \in 1..(i - 1) : tun_str[j] # s
       /\ tun_str' = RemoveAt(tun_str, i)
  /\ minor' = [minor EXCEPT ![s] = 0]
  /\ flags' = [flags EXCEPT ![s] = {}]
  /\ sap' = [sap EXCEPT ![s] = 0]
  /\ deferred' = [deferred EXCEPT ![s] = NULL]

CloseUnassigned(s) ==
  /\ ppa[s] = NULL
  /\ FreeStream(s)
  /\ state' = [state EXCEPT ![s] = "UNATTACHED"]
  /\ p_next' = [p_next EXCEPT ![s] = NULL]
  /\ UNCHANGED <<ppa, ppas, broken>>

(* Mutant: the members are left as they are. *)
TurnedOutAlone(s) == {s}

(* The streams that lose their PPA and their state: with a control stream   *)
(* go the members of its PPA.  They keep sap and flags.                     *)
TurnedOut(s) == List(ppa[s]) \cup {s}

(* Mutant: the PPA is freed and stays in the table. *)
FreeListedPpa(b) ==
  /\ tun_ppa' = tun_ppa
  /\ id' = [id EXCEPT ![b] = 0]
  /\ rq' = [rq EXCEPT ![b] = NULL]
  /\ p_str' = [p_str EXCEPT ![b] = NULL]

FreePpa(b) ==
  /\ tun_ppa' = [tun_ppa EXCEPT ![id[b]] = NULL]
  /\ id' = [id EXCEPT ![b] = 0]
  /\ rq' = [rq EXCEPT ![b] = NULL]
  /\ p_str' = [p_str EXCEPT ![b] = NULL]

CloseControl(s) ==
  LET b    == ppa[s]
      gone == TurnedOut(s)
  IN /\ b # NULL /\ "CONTROL" \in flags[s] /\ Ends(b)
     /\ FreeStream(s)
     /\ state' = [u \in Streams |-> IF u \in gone THEN "UNATTACHED" ELSE state[u]]
     /\ ppa' = [u \in Streams |-> IF u \in gone THEN NULL ELSE ppa[u]]
     /\ p_next' = [p_next EXCEPT ![s] = NULL]
     /\ FreePpa(b)
     /\ UNCHANGED broken

CloseProtocol(s) ==
  /\ ppa[s] # NULL /\ "CONTROL" \notin flags[s] /\ s \in List(ppa[s])
  /\ FreeStream(s)
  /\ p_str' = [p_str EXCEPT ![ppa[s]] = HeadWithout(s, ppa[s])]
  /\ p_next' = [NextWithout(s, ppa[s]) EXCEPT ![s] = NULL]
  /\ state' = [state EXCEPT ![s] = "UNATTACHED"]
  /\ ppa' = [ppa EXCEPT ![s] = NULL]
  /\ UNCHANGED <<tun_ppa, id, rq, broken>>

(* A walk that does not find the stream, or does not end. *)
LostInList(s) ==
  /\ ppa[s] # NULL
  /\ IF "CONTROL" \in flags[s] THEN ~Ends(ppa[s]) ELSE s \notin List(ppa[s])
  /\ broken' = TRUE
  /\ UNCHANGED <<opened, tun_str, streams, ppas, deferred>>

TunClose(s) ==
  /\ s \in opened
  /\ CloseUnassigned(s) \/ CloseControl(s) \/ CloseProtocol(s) \/ LostInList(s)

-----------------------------------------------------------------------------
(* What goes through qwriter() *)

(* A client has one such request under way on a stream; an orderly one does *)
(* not assign a stream that is assigned.                                    *)
Defer(s, r) ==
  /\ s \in opened
  /\ deferred[s] = NULL
  /\ Orderly /\ r.kind \in Assigning => ppa[s] = NULL
  /\ deferred' = [deferred EXCEPT ![s] = r]
  /\ UNCHANGED <<opened, tun_str, streams, ppas, broken>>

Perform(s, kind) ==
  /\ deferred[s] # NULL
  /\ deferred[s].kind = kind
  /\ deferred' = [deferred EXCEPT ![s] = NULL]
  /\ UNCHANGED <<opened, tun_str, minor, sap>>

(* Mutant: the loop runs to TUNMAXPPA inclusive. *)
FreeIdsAndOne == {i \in Ids : tun_ppa[i] = NULL} \cup {MaxPpa}

FreeIds == {i \in Ids : tun_ppa[i] = NULL}

(* tun_alloc_ppa takes the number asked for or the smallest. *)
MayTake(i, p) ==
  /\ i \in FreeIds
  /\ p = i \/ (p = ANY /\ \A j \in FreeIds : i <= j)

(* The PPA is in the table, with this stream's queue, before the message    *)
(* for the stream head is allocated.                                        *)
TunNewPpa(s) ==
  /\ Perform(s, "TUNNEWPPA")
  /\ \E i \in FreeIds, b \in Blocks \ Live :
       /\ MayTake(i, deferred[s].p)
       /\ tun_ppa' = [tun_ppa EXCEPT ![i] = b]
       /\ id' = [id EXCEPT ![b] = i]
       /\ rq' = [rq EXCEPT ![b] = s]
       /\ p_str' = [p_str EXCEPT ![b] = NULL]
       /\ \/ /\ ppa' = [ppa EXCEPT ![s] = b]
             /\ flags' = [flags EXCEPT ![s] = @ \cup {"CONTROL"}]
          \/ AllocFails /\ UNCHANGED <<ppa, flags>>
  /\ UNCHANGED <<state, p_next, broken>>

TunSetPpa(s) ==
  LET b == tun_ppa[deferred[s].p]
  IN /\ Perform(s, "TUNSETPPA")
     /\ b # NULL
     /\ LinkStream(s, b)
     /\ ppa' = [ppa EXCEPT ![s] = b]
     /\ UNCHANGED <<flags, state, tun_ppa, id, rq, broken>>

TunRaw(s) ==
  /\ Perform(s, "DLIOCRAW")
  /\ flags' = [flags EXCEPT ![s] = @ \cup {"RAW"}]
  /\ UNCHANGED <<ppa, state, p_next, ppas, broken>>

AttachReq(s) ==
  LET b == tun_ppa[deferred[s].p]
  IN /\ Perform(s, "ATTACH")
     /\ state[s] = "UNATTACHED"
     /\ b # NULL
     /\ LinkStream(s, b)
     /\ ppa' = [ppa EXCEPT ![s] = b]
     /\ state' = [state EXCEPT ![s] = "UNBOUND"]
     /\ UNCHANGED <<flags, tun_ppa, id, rq, broken>>

DetachReq(s) ==
  /\ Perform(s, "DETACH")
  /\ state[s] = "UNBOUND"
  /\ IF ppa[s] # NULL /\ s \in List(ppa[s])
     THEN /\ p_str' = [p_str EXCEPT ![ppa[s]] = HeadWithout(s, ppa[s])]
          /\ p_next' = NextWithout(s, ppa[s])
          /\ ppa' = [ppa EXCEPT ![s] = NULL]
          /\ state' = [state EXCEPT ![s] = "UNATTACHED"]
          /\ UNCHANGED broken
     ELSE broken' = TRUE /\ UNCHANGED <<ppa, state, p_next, p_str>>
  /\ UNCHANGED <<flags, tun_ppa, id, rq>>

(* Mutant: no error is acknowledged when the PPA asked for does not exist. *)
RefusedInState(s) ==
  /\ deferred[s] # NULL
  /\ CASE deferred[s].kind = "TUNNEWPPA" ->
            \A i \in Ids : ~MayTake(i, deferred[s].p)
       [] deferred[s].kind = "ATTACH" -> state[s] # "UNATTACHED"
       [] deferred[s].kind = "DETACH" -> state[s] # "UNBOUND"
       [] OTHER -> FALSE
  /\ deferred' = [deferred EXCEPT ![s] = NULL]
  /\ UNCHANGED <<opened, tun_str, streams, ppas, broken>>

Refused(s) ==
  /\ deferred[s] # NULL
  /\ CASE deferred[s].kind = "TUNNEWPPA" ->
            \A i \in Ids : ~MayTake(i, deferred[s].p)
       [] deferred[s].kind = "TUNSETPPA" -> tun_ppa[deferred[s].p] = NULL
       [] deferred[s].kind = "ATTACH" ->
            state[s] # "UNATTACHED" \/ tun_ppa[deferred[s].p] = NULL
       [] deferred[s].kind = "DETACH" -> state[s] # "UNBOUND"
       [] OTHER -> FALSE
  /\ deferred' = [deferred EXCEPT ![s] = NULL]
  /\ UNCHANGED <<opened, tun_str, streams, ppas, broken>>

-----------------------------------------------------------------------------
(* What runs at once *)

(* Mutant: the state is not tested. *)
BindAnyReq(s, a) ==
  /\ s \in opened
  /\ sap' = [sap EXCEPT ![s] = a]
  /\ state' = [state EXCEPT ![s] = "IDLE"]
  /\ UNCHANGED <<opened, tun_str, minor, ppa, flags, p_next, ppas, deferred, broken>>

BindReq(s, a) ==
  /\ s \in opened
  /\ state[s] = "UNBOUND" /\ ppa[s] # NULL
  /\ sap' = [sap EXCEPT ![s] = a]
  /\ state' = [state EXCEPT ![s] = "IDLE"]
  /\ UNCHANGED <<opened, tun_str, minor, ppa, flags, p_next, ppas, deferred, broken>>

UnbindReq(s) ==
  /\ s \in opened
  /\ state[s] = "IDLE"
  /\ sap' = [sap EXCEPT ![s] = 0]
  /\ state' = [state EXCEPT ![s] = "UNBOUND"]
  /\ UNCHANGED <<opened, tun_str, minor, ppa, flags, p_next, ppas, deferred, broken>>

PromisconReq(s, m) ==
  /\ s \in opened
  /\ flags' = [flags EXCEPT ![s] = @ \cup {m}]
  /\ UNCHANGED <<opened, tun_str, minor, ppa, state, sap, p_next, ppas, deferred, broken>>

(* Mutant: &= without the ~. *)
PromiscoffOthersReq(s, m) ==
  /\ s \in opened
  /\ flags' = [flags EXCEPT ![s] = @ \cap {m}]
  /\ UNCHANGED <<opened, tun_str, minor, ppa, state, sap, p_next, ppas, deferred, broken>>

PromiscoffReq(s, m) ==
  /\ s \in opened
  /\ flags' = [flags EXCEPT ![s] = @ \ {m}]
  /\ UNCHANGED <<opened, tun_str, minor, ppa, state, sap, p_next, ppas, deferred, broken>>

-----------------------------------------------------------------------------
(* The system runs what qwriter() has put off. *)
Serve(s) ==
  \/ TunNewPpa(s) \/ TunSetPpa(s) \/ TunRaw(s)
  \/ AttachReq(s) \/ DetachReq(s) \/ Refused(s)

Step(s) ==
  \/ TunOpen(s) \/ TunClose(s)
  \/ \E r \in Requests : Defer(s, r)
  \/ Serve(s)
  \/ \E a \in Saps : BindReq(s, a)
  \/ UnbindReq(s)
  \/ \E m \in Modes \ {"RAW"} : PromisconReq(s, m) \/ PromiscoffReq(s, m)

Next == ~broken /\ \E s \in Streams : Step(s)

Spec == Init /\ [][Next]_vars

FairSpec == Spec /\ \A s \in Streams : WF_vars(~broken /\ Serve(s))

-----------------------------------------------------------------------------
(* Properties *)

Members(b) == {s \in Streams : ppa[s] = b /\ "CONTROL" \notin flags[s]}

(* The list of a PPA holds the protocol streams assigned to it, all of them *)
(* and nobody else, and comes to an end: what every walk of tunclose,       *)
(* tun_detach_req and tun_frame relies on.                                  *)
ListsExact == \A b \in Live : List(b) = Members(b) /\ Ends(b)

(* No stream keeps the address of a PPA that was freed. *)
NoDanglingPpa == \A s \in opened : ppa[s] \in Live \cup {NULL}

(* The queue a PPA sends its frames to is that of an open stream, and       *)
(* closing that stream frees the PPA.                                       *)
ControlLive ==
  \A b \in Live : /\ rq[b] \in opened
                  /\ ppa[rq[b]] = b
                  /\ "CONTROL" \in flags[rq[b]]

(* An address that a stream or the table keeps is good: whichever of the    *)
(* streams of a PPA closes first, tun_frame finds the PPA, and in it the    *)
(* queue of a stream that is open.                                          *)
PpasSound == NoDanglingPpa /\ ControlLive

(* A control stream stays one, of the same PPA, until it is closed: flags   *)
(* is one word for that bit and for the modes clients set and clear.        *)
ControlKept ==
  [][\A s \in opened \cap opened' :
       "CONTROL" \in flags[s] => "CONTROL" \in flags'[s] /\ ppa'[s] = ppa[s]]_vars

(* A PPA has its control stream until it is freed, and is freed when that   *)
(* is closed.  The one exception is that of a TUNNEWPPA that finds no       *)
(* memory (tun.c:425), which leaves its stream as it was: that PPA never    *)
(* gets a control stream and no close frees it (clients being orderly).     *)
Owned(b) == \E s \in opened : rq[b] = s /\ ppa[s] = b /\ "CONTROL" \in flags[s]

LeftBehindOnce ==
  [][/\ \A b \in Live : IF Owned(b) THEN Owned(b)' \/ b \notin Live'
                     ELSE ~Owned(b)' /\ b \in Live'
     /\ \A b \in Live' \ Live : Owned(b)' \/ UNCHANGED <<ppa, flags>>]_vars

(* tun_detach_req follows ppa without a test, the state having been tested. *)
AttachedHasPpa == \A s \in opened : state[s] # "UNATTACHED" => ppa[s] # NULL

(* No walk goes astray. *)
NotBroken == ~broken

(* The list of streams holds the open streams in the order of their minor   *)
(* numbers, no two of which are equal.                                      *)
MinorsOrdered ==
  /\ ToSet(tun_str) = opened
  /\ \A i, j \in 1..Len(tun_str) : i < j => minor[tun_str[i]] < minor[tun_str[j]]

(* An open takes the least minor number that is free. *)
LeastMinor ==
  [][\A s \in opened' \ opened :
       /\ \A u \in opened : minor[u] # minor'[s]
       /\ \A n \in 0..(minor'[s] - 1) : \E u \in opened : minor[u] = n]_vars

(* The lists do what TunPorts says of them. *)
Ports == INSTANCE TunPorts WITH
  Nil <- NULL,
  ctl <- [i \in Ids |-> IF tun_ppa[i] = NULL THEN NULL ELSE rq[tun_ppa[i]]],
  on  <- [s \in Streams |-> IF ppa[s] = NULL \/ "CONTROL" \in flags[s]
                            THEN NULL ELSE id[ppa[s]]],
  dl  <- state

RefinesPorts == Ports!Spec

(* Every ioctl, attach and detach that qwriter() puts off is carried out or *)
(* refused, whatever the clients do: no case is left without an answer.     *)
RequestsAnswered ==
  \A s \in Streams : deferred[s] # NULL ~> deferred[s] = NULL \/ broken

(* if_tun.h:60, "bound sap": a stream that is not bound has none. *)
SapOnlyWhenBound == \A s \in opened : sap[s] # 0 => state[s] = "IDLE"

(* tun.c:331, "Unlink Stream from the PPA list": no list holds a stream     *)
(* that was closed and freed.                                               *)
NoFreedMember == \A b \in Live : List(b) \subseteq opened
=============================================================================
