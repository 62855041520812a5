------------------------------- MODULE TunRoute -------------------------------
(***************************************************************************)
(* The data plane of the Solaris STREAMS driver, on top of its control     *)
(* plane (TunDriver): the write queue of each stream with its put and      *)
(* service procedures, and the routing of frames between the control       *)
(* stream of an interface and its protocol streams.                        *)
(*                                                                         *)
(* STREAMS is external.  A put and a service procedure have the stream to  *)
(* themselves and may run beside those of other streams; what changes the  *)
(* lists waits until none of them runs.  putq() schedules the service      *)
(* procedure, putbq() does not.  A full stream head does not schedule the  *)
(* writers it has turned away, the read side having no service procedure.  *)
(*                                                                         *)
(* A stream has one client, which waits for the answer to a request before *)
(* it makes the next.  It is the client of a control stream, of a stream   *)
(* it assigns by TUNSETPPA, or of one that attaches and detaches.          *)
(***************************************************************************)
EXTENDS TunDriver

CONSTANTS
  Controls,                 \* the streams of the first kind of client
  Frames,                   \* bound: the frames under way at a time
  HiWater                   \* bound: the frames a stream head holds

ASSUME RolesAssumption == Controls \subseteq Streams
ASSUME HiWaterAssumption == HiWater \in Nat \ {0}

VARIABLES
  wq,                       \* wq[s]: the write queue
  service,                  \* service[s]: what tunwsrv does
  head,                     \* head[s]: frames the client has still to read
  asked,                    \* the streams whose clients wait for an answer
  lost,                     \* those of them whose request a flush threw away
  setters                   \* the streams whose clients use TUNSETPPA

queues    == <<wq, service, head>>
clients   == <<asked, lost, setters>>
routeVars == <<vars, queues, clients>>

Dlpi ==
  {[kind |-> "ATTACH", p |-> p] : p \in Ids}
    \cup {[kind |-> k, p |-> ANY] : k \in {"DETACH", "UNBIND"}}
    \cup {[kind |-> "BIND", p |-> a] : a \in Saps}
    \cup {[kind |-> k, mode |-> m] : k \in {"PROMISCON", "PROMISCOFF"},
                                     m \in Modes \ {"RAW"}}

(* A frame carries the control stream of the interface it was written to.  *)
Data == [frame : Frames, type : Saps, via : Streams \cup {NULL}]

RouteInit ==
  /\ Init
  /\ wq = [s \in Streams |-> <<>>]
  /\ service = [s \in Streams |-> "off"]
  /\ head = [s \in Streams |-> {}]
  /\ asked = {} /\ lost = {} /\ setters = {}

-----------------------------------------------------------------------------
(* tun_frame *)

(* canputnext() *)
Room(s) == Cardinality(head[s]) < HiWater

Sniffers(b)   == {u \in List(b) : flags[u] \cap {"ALL_SAP", "ALL_PHY"} # {}}
BoundTo(b, a) == {u \in List(b) : sap[u] = a}

PutNext(S, d) ==
  head' = [u \in Streams |-> IF u \in S THEN head[u] \cup {d} ELSE head[u]]

Queue(s, q) == wq' = [wq EXCEPT ![s] = q]

(* A copy, or its header, may find no memory; the others go on.            *)
FromControl(s, d, rest) ==
  LET b == ppa[s]
  IN \E S \in SUBSET {u \in Sniffers(b) \cup BoundTo(b, d.type) : Room(u)} :
       PutNext(S, d) /\ Queue(s, rest)

FromProtocol(s, d, mayQueue, rest) ==
  LET b == ppa[s]
      c == rq[b]
  IN \E S \in SUBSET {u \in Sniffers(b) : Room(u)} :
       IF Room(c) THEN PutNext(S \cup {c}, d) /\ Queue(s, rest)
       ELSE PutNext(S, d) /\ Queue(s, IF mayQueue THEN <<d>> \o rest ELSE rest)

(* rest is the queue of s without the frame, which putbq() puts back first. *)
Frame(s, d, mayQueue, rest) ==
  CASE ppa[s] = NULL         -> PutNext({}, d) /\ Queue(s, rest)
    [] ppa[s] # NULL /\ "CONTROL" \in flags[s] -> FromControl(s, d, rest)
    [] OTHER                 -> FromProtocol(s, d, mayQueue, rest)

-----------------------------------------------------------------------------
(* tunwput *)

Idle(s) == s \in opened /\ service[s] # "running"

UnderWay == {d.frame : d \in UNION {head[s] \cup (ToSet(wq[s]) \cap Data) : s \in Streams}}

Via(s) == IF ppa[s] = NULL THEN NULL ELSE rq[ppa[s]]

PutData(s) ==
  /\ Idle(s)
  /\ \E f \in Frames \ UnderWay, a \in Saps :
       Frame(s, [frame |-> f, type |-> a, via |-> Via(s)], TRUE, wq[s])
  /\ UNCHANGED <<vars, service, clients>>

(* DL_UNITDATA_REQ is answered with an error unless the stream is bound. *)
UnitdataReq(s) == state[s] = "IDLE" /\ ppa[s] # NULL /\ PutData(s)

(* A client waits for its answers, and does what its kind of client does.  *)
Ask(s, m) ==
  /\ s \notin asked
  /\ CASE m.kind = "TUNNEWPPA" -> s \in Controls
       [] m.kind = "TUNSETPPA" -> s \in setters
       [] m.kind = "ATTACH"    -> s \notin Controls \cup setters /\ ppa[s] = NULL
       [] m.kind = "DETACH"    -> s \notin Controls \cup setters
       [] m.kind = "DLIOCRAW"  -> TRUE
       [] OTHER                -> s \notin Controls
  /\ asked' = asked \cup {s}
  /\ UNCHANGED <<lost, setters>>

(* Mutant: attach and detach do not wait in the queue. *)
PutDlpiAtOnce(s, m) ==
  /\ Idle(s) /\ Ask(s, m)
  /\ IF m \in Requests
     THEN Defer(s, m) /\ UNCHANGED <<wq, service>>
     ELSE /\ Queue(s, Append(wq[s], m))
          /\ service' = [service EXCEPT ![s] = "scheduled"]
          /\ UNCHANGED vars
  /\ UNCHANGED head

(* Mutant: the service procedure is not scheduled. *)
PutDlpiOnly(s, m) ==
  /\ Idle(s) /\ Ask(s, m)
  /\ Queue(s, Append(wq[s], m))
  /\ UNCHANGED <<vars, service, head>>

(* putq() *)
PutDlpi(s, m) ==
  /\ Idle(s) /\ Ask(s, m)
  /\ Queue(s, Append(wq[s], m))
  /\ service' = [service EXCEPT ![s] = "scheduled"]
  /\ UNCHANGED <<vars, head>>

PutIoctl(s, r) ==
  /\ Idle(s) /\ Ask(s, r)
  /\ Defer(s, r)
  /\ UNCHANGED queues

(* What is in a queue when it is flushed is gone, a request like a frame.   *)
WithRequest(S) == {s \in S : ~ToSet(wq[s]) \subseteq Data}

(* M_FLUSH *)
PutFlush(s) ==
  /\ Idle(s)
  /\ Queue(s, <<>>)
  /\ lost' = lost \cup WithRequest({s})
  /\ UNCHANGED <<vars, service, head, asked, setters>>

-----------------------------------------------------------------------------
(* tunwsrv and tun_dlpi *)

StartService(s) ==
  /\ service[s] = "scheduled"
  /\ service' = [service EXCEPT ![s] = "running"]
  /\ UNCHANGED <<vars, wq, head, clients>>

EndService(s) ==
  /\ service[s] = "running" /\ wq[s] = <<>>
  /\ service' = [service EXCEPT ![s] = "off"]
  /\ UNCHANGED <<vars, wq, head, clients>>

(* getq() *)
GetQ(s, S) == service[s] = "running" /\ wq[s] # <<>> /\ Head(wq[s]) \in S

(* Mutant: TUN_QUEUE, and the loop meets the frame again. *)
ServeDataAgain(s) ==
  /\ GetQ(s, Data)
  /\ Frame(s, Head(wq[s]), TRUE, Tail(wq[s]))
  /\ UNCHANGED <<vars, service, clients>>

(* TUN_DROP *)
ServeData(s) ==
  /\ GetQ(s, Data)
  /\ Frame(s, Head(wq[s]), FALSE, Tail(wq[s]))
  /\ UNCHANGED <<vars, service, clients>>

(* Mutant: qwriter() is not called. *)
ServeNever(s) ==
  /\ GetQ(s, Requests)
  /\ Queue(s, Tail(wq[s]))
  /\ UNCHANGED <<vars, service, head, clients>>

(* Attach and detach are put off, and the loop goes on. *)
ServeLater(s) ==
  /\ GetQ(s, Requests)
  /\ Defer(s, Head(wq[s]))
  /\ Queue(s, Tail(wq[s]))
  /\ UNCHANGED <<service, head, clients>>

OutOfState(s, m) ==
  CASE m.kind = "BIND"   -> state[s] # "UNBOUND" \/ ppa[s] = NULL
    [] m.kind = "UNBIND" -> state[s] # "IDLE"
    [] OTHER             -> FALSE

ServeNow(s) ==
  /\ GetQ(s, Dlpi \ Requests)
  /\ LET m == Head(wq[s])
     IN IF OutOfState(s, m) THEN UNCHANGED vars
        ELSE CASE m.kind = "BIND"       -> BindReq(s, m.p)
               [] m.kind = "UNBIND"     -> UnbindReq(s)
               [] m.kind = "PROMISCON"  -> PromisconReq(s, m.mode)
               [] m.kind = "PROMISCOFF" -> PromiscoffReq(s, m.mode)
  /\ Queue(s, Tail(wq[s]))
  /\ asked' = asked \ {s}
  /\ UNCHANGED <<service, head, lost, setters>>

-----------------------------------------------------------------------------
(* What has the driver to itself *)

Exclusive == \A s \in Streams : service[s] # "running"

Open(s) ==
  /\ Exclusive
  /\ TunOpen(s)
  /\ setters' = setters \ {s} \/ (s \notin Controls /\ setters' = setters \cup {s})
  /\ UNCHANGED <<queues, asked, lost>>

(* Mutant: flushq() is left out. *)
FlushNobody(s) == {s}

(* The write queues tunclose empties, frames and requests alike. *)
Flushed(s) ==
  {s} \cup IF ppa[s] # NULL /\ "CONTROL" \in flags[s] THEN List(ppa[s]) ELSE {}

Close(s) ==
  /\ Exclusive
  /\ TunClose(s)
  /\ wq' = [u \in Streams |-> IF u \in Flushed(s) THEN <<>> ELSE wq[u]]
  /\ service' = [service EXCEPT ![s] = "off"]
  /\ head' = [head EXCEPT ![s] = {}]
  /\ asked' = asked \ {s}
  /\ lost' = (lost \cup WithRequest(Flushed(s))) \ {s}
  /\ UNCHANGED setters

RunDeferred(s) ==
  /\ Exclusive
  /\ Serve(s)
  /\ asked' = asked \ {s}
  /\ UNCHANGED <<queues, lost, setters>>

-----------------------------------------------------------------------------
(* The client reads a frame. *)
Take(s) ==
  /\ \E d \in head[s] : head' = [head EXCEPT ![s] = @ \ {d}]
  /\ UNCHANGED <<vars, wq, service, clients>>

RunService(s) ==
  \/ StartService(s) \/ EndService(s)
  \/ ServeData(s) \/ ServeLater(s) \/ ServeNow(s)

RouteStep(s) ==
  \/ Open(s) \/ Close(s) \/ RunDeferred(s)
  \/ PutData(s) \/ UnitdataReq(s) \/ PutFlush(s) \/ Take(s)
  \/ \E m \in Dlpi : PutDlpi(s, m)
  \/ \E r \in Requests \ Dlpi : PutIoctl(s, r)
  \/ RunService(s)

RouteNext == ~broken /\ \E s \in Streams : RouteStep(s)

RouteSpec == RouteInit /\ [][RouteNext]_routeVars

(* A scheduled service procedure runs, and what qwriter() has put off when  *)
(* none is running.                                                         *)
RouteFairness ==
  \A s \in Streams : /\ WF_routeVars(~broken /\ RunService(s))
                     /\ SF_routeVars(~broken /\ RunDeferred(s))

RouteFairSpec == RouteSpec /\ RouteFairness

-----------------------------------------------------------------------------
(* Properties *)

(* A frame gets to streams of the interface it was written to and to no     *)
(* other, although it may wait in a write queue while its stream moves on   *)
(* to another interface.                                                    *)
StaysOnInterface ==
  [][\A s \in Streams : \A d \in head'[s] \ head[s] : d.via = Via(s)]_routeVars

(* tunwsrv comes to an end even if the control stream takes no more frames. *)
ServiceEnds ==
  \A s \in Streams : service[s] = "running" ~> service[s] = "off"

(* A request is answered, provided the streams leave the perimeter from     *)
(* time to time, but for one that was in a queue when it was flushed, by    *)
(* M_FLUSH or by the close of the control stream: with the queue it is      *)
(* gone, and its client waits for ever.  Nothing else loses a request.      *)
RequestsReturn ==
  []<>Exclusive => \A s \in Streams : s \in asked ~> s \notin asked \/ s \in lost
=============================================================================
