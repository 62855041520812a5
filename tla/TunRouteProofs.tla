---------------------------- MODULE TunRouteProofs ----------------------------
(***************************************************************************)
(* What holds of TunDriver and TunRoute for any number of streams, inter-  *)
(* faces and frames, if clients are orderly and memory does not run out.   *)
(*                                                                         *)
(* The control plane comes first, and before it lemmas about the two kinds *)
(* of list it is built from: the streams of a PPA, along p_next, and all   *)
(* streams, in the order of their minors.                                  *)
(*                                                                         *)
(* The data plane changes nothing of the control plane but by its actions: *)
(* what is proved of the control plane holds of the whole driver.  Frames  *)
(* stay on their interface, because a request that moves a stream waits    *)
(* behind them.                                                            *)
(***************************************************************************)
EXTENDS TunRoute, SequenceTheorems, TLAPS

-----------------------------------------------------------------------------
(* Walks along a linked list *)

(* A list one can work with: nobody points to the first stream, no two      *)
(* streams point to the same one, and it ends.                              *)
WellFormed(first, next) ==
  LET R == Walk(first, next)
  IN /\ first # NULL => \A u \in R : next[u] # first
     /\ \A u, v \in R : next[u] = next[v] /\ next[u] # NULL => u = v
     /\ R # {} => \E u \in R : next[u] = NULL

Pointer == Streams \cup {NULL}

(* A walk holds its first stream, and the successors of its streams. *)
LEMMA WalkClosed ==
  ASSUME NEW first \in Pointer, NEW next \in [Streams -> Pointer]
  PROVE  /\ Walk(first, next) \subseteq Streams
         /\ first \in Walk(first, next) \cup {NULL}
         /\ \A u \in Walk(first, next) : next[u] \in Walk(first, next) \cup {NULL}
BY DEF Walk, Closed, Pointer

(* It is contained in every set that does. *)
LEMMA WalkLeast ==
  ASSUME NEW first, NEW next, NEW S, S \subseteq Streams, Closed(S, first, next)
  PROVE  Walk(first, next) \subseteq S
BY DEF Walk

LEMMA WalkEmpty == ASSUME NEW next PROVE Walk(NULL, next) = {}
<1>1. Closed({}, NULL, next)
  BY DEF Closed
<1>2. QED
  BY <1>1, WalkLeast

(* Changing pointers off the walk does not change it. *)
LEMMA WalkFrame ==
  ASSUME NEW first \in Pointer,
         NEW next \in [Streams -> Pointer], NEW next2 \in [Streams -> Pointer],
         \A u \in Walk(first, next) : next2[u] = next[u]
  PROVE  /\ Walk(first, next2) = Walk(first, next)
         /\ WellFormed(first, next) => WellFormed(first, next2)
<1> DEFINE R == Walk(first, next)
           R2 == Walk(first, next2)
<1>1. R \subseteq Streams /\ R2 \subseteq Streams
  BY WalkClosed
<1>2. R2 \subseteq R
  <2>1. first \in R \cup {NULL} /\ \A u \in R : next2[u] \in R \cup {NULL}
    BY WalkClosed
  <2>2. Closed(R, first, next2)
    BY <2>1 DEF Closed
  <2>3. QED
    BY <1>1, <2>2, WalkLeast
<1>3. R \subseteq R \cap R2
  <2>1. first \in (R \cap R2) \cup {NULL}
    BY WalkClosed
  <2>2. \A u \in R \cap R2 : next[u] \in (R \cap R2) \cup {NULL}
    BY WalkClosed
  <2>3. Closed(R \cap R2, first, next)
    BY <2>1, <2>2 DEF Closed
  <2>4. QED
    BY <1>1, <2>3, WalkLeast
<1>4. R2 = R
  BY <1>2, <1>3
<1>5. QED
  BY <1>4 DEF WellFormed

(* LinkStream: the list grows by s, at its head. *)
LEMMA WalkLink ==
  ASSUME NEW first \in Pointer, NEW next \in [Streams -> Pointer],
         NEW s \in Streams, s \notin Walk(first, next),
         WellFormed(first, next),
         NEW next2 \in [Streams -> Pointer],
         next2[s] = first,
         \A u \in Walk(first, next) : next2[u] = next[u]
  PROVE  /\ Walk(s, next2) = Walk(first, next) \cup {s}
         /\ WellFormed(s, next2)
<1> DEFINE R == Walk(first, next)
           R2 == Walk(s, next2)
<1>1. s \in Pointer /\ s # NULL
  BY NullAssumption DEF Pointer
<1>2. /\ R \subseteq Streams
      /\ first \in R \cup {NULL}
      /\ \A u \in R : next[u] \in R \cup {NULL}
  BY WalkClosed
<1>3. /\ R2 \subseteq Streams
      /\ s \in R2
      /\ \A u \in R2 : next2[u] \in R2 \cup {NULL}
  BY <1>1, WalkClosed
<1>4. next2[s] = first /\ \A u \in R : next2[u] = next[u]
  OBVIOUS
<1>5. R2 \subseteq R \cup {s}
  <2>1. \A u \in R \cup {s} : next2[u] \in R \cup {s} \cup {NULL}
    BY <1>2, <1>4
  <2>2. Closed(R \cup {s}, s, next2)
    BY <2>1, <1>2 DEF Closed
  <2>3. QED
    BY <1>2, <2>2, WalkLeast
<1>6. R \subseteq R \cap R2
  <2>1. first \in (R \cap R2) \cup {NULL}
    BY <1>2, <1>3, <1>4
  <2>2. \A u \in R \cap R2 : next[u] \in (R \cap R2) \cup {NULL}
    BY <1>2, <1>3, <1>4
  <2>3. Closed(R \cap R2, first, next)
    BY <2>1, <2>2 DEF Closed
  <2>4. QED
    BY <1>2, <2>3, WalkLeast
<1>7. R2 = R \cup {s}
  BY <1>3, <1>5, <1>6
<1>8. \A u \in R2 : next2[u] # s
  BY <1>1, <1>2, <1>4, <1>7
<1>9. \A u, v \in R2 : next2[u] = next2[v] /\ next2[u] # NULL => u = v
  BY <1>4, <1>7 DEF WellFormed
<1>10. \E u \in R2 : next2[u] = NULL
  <2>1. CASE R = {}
    BY <1>2, <1>4, <1>7, <2>1
  <2>2. CASE R # {}
    BY <1>4, <1>7, <2>2 DEF WellFormed
  <2>3. QED
    BY <2>1, <2>2
<1>11. QED
  BY <1>7, <1>8, <1>9, <1>10 DEF WellFormed

(* HeadWithout, NextWithout: the list loses s, and no other stream. *)
LEMMA WalkUnlink ==
  ASSUME NEW first \in Pointer, NEW next \in [Streams -> Pointer],
         NEW s \in Walk(first, next),
         WellFormed(first, next),
         NEW first2, first2 = (IF first = s THEN next[s] ELSE first),
         NEW next2 \in [Streams -> Pointer],
         \A u \in Walk(first, next) \ {s} :
           next2[u] = IF first # s /\ next[u] = s THEN next[s] ELSE next[u]
  PROVE  /\ Walk(first2, next2) = Walk(first, next) \ {s}
         /\ WellFormed(first2, next2)
<1> DEFINE R == Walk(first, next)
           R2 == Walk(first2, next2)
<1>1. /\ R \subseteq Streams
      /\ first \in R \cup {NULL}
      /\ \A u \in R : next[u] \in R \cup {NULL}
      /\ s \in Streams /\ s # NULL
  BY WalkClosed, NullAssumption
<1>2. /\ first # NULL
      /\ \A u \in R : next[u] # first
      /\ \A u, v \in R : next[u] = next[v] /\ next[u] # NULL => u = v
      /\ \E u \in R : next[u] = NULL
  BY WalkEmpty DEF WellFormed
<1>3. next[s] # s
  <2> SUFFICES ASSUME next[s] = s PROVE FALSE
    OBVIOUS
  <2>1. first \in (R \ {s}) \cup {NULL}
    BY <1>1, <1>2
  <2>2. \A u \in R \ {s} : next[u] \in (R \ {s}) \cup {NULL}
    BY <1>1, <1>2
  <2>3. Closed(R \ {s}, first, next)
    BY <2>1, <2>2 DEF Closed
  <2>4. R \subseteq R \ {s}
    BY <1>1, <2>3, WalkLeast
  <2>5. QED
    BY <2>4
<1>4. ASSUME first # s PROVE \E v \in R \ {s} : next[v] = s
  <2> SUFFICES ASSUME \A v \in R \ {s} : next[v] # s PROVE FALSE
    OBVIOUS
  <2>1. first \in (R \ {s}) \cup {NULL}
    BY <1>1, <1>4
  <2>2. \A u \in R \ {s} : next[u] \in (R \ {s}) \cup {NULL}
    BY <1>1
  <2>3. Closed(R \ {s}, first, next)
    BY <2>1, <2>2 DEF Closed
  <2>4. R \subseteq R \ {s}
    BY <1>1, <2>3, WalkLeast
  <2>5. QED
    BY <2>4
<1>5. first2 \in Pointer
  BY <1>1 DEF Pointer
<1>6. /\ R2 \subseteq Streams
      /\ first2 \in R2 \cup {NULL}
      /\ \A u \in R2 : next2[u] \in R2 \cup {NULL}
  BY <1>5, WalkClosed
<1>7. R2 \subseteq R \ {s}
  <2>1. first2 \in (R \ {s}) \cup {NULL}
    BY <1>1, <1>3
  <2>2. \A u \in R \ {s} : next2[u] \in (R \ {s}) \cup {NULL}
    BY <1>1, <1>2, <1>3
  <2>3. Closed(R \ {s}, first2, next2)
    BY <2>1, <2>2 DEF Closed
  <2>4. QED
    BY <1>1, <2>3, WalkLeast
<1>8. next[s] \in R2 \cup {NULL}
  <2>1. CASE first = s
    BY <1>6, <2>1
  <2>2. CASE first # s
    <3>1. PICK v \in R \ {s} : next[v] = s
      BY <1>4, <2>2
    <3>2. v \in R2
      <4> SUFFICES ASSUME v \notin R2 PROVE FALSE
        OBVIOUS
      <4>1. first \in R2 \cup {NULL}
        BY <1>6, <2>2
      <4>2. \A u \in R2 : next[u] \in R2 \cup {NULL}
        BY <1>2, <1>6, <1>7, <1>1, <3>1
      <4>3. Closed(R2, first, next)
        BY <4>1, <4>2 DEF Closed
      <4>4. R \subseteq R2
        BY <1>6, <4>3, WalkLeast
      <4>5. QED
        BY <4>4
    <3>3. next2[v] = next[s]
      BY <2>2, <3>1
    <3>4. QED
      BY <1>6, <3>2, <3>3
  <2>3. QED
    BY <2>1, <2>2
<1>9. R \subseteq R2 \cup {s}
  <2>1. first \in R2 \cup {s} \cup {NULL}
    BY <1>6
  <2>2. \A u \in R2 \cup {s} : next[u] \in R2 \cup {s} \cup {NULL}
    BY <1>6, <1>7, <1>8
  <2>3. Closed(R2 \cup {s}, first, next)
    BY <2>1, <2>2 DEF Closed
  <2>4. QED
    BY <1>1, <1>6, <2>3, WalkLeast
<1>10. R2 = R \ {s}
  BY <1>7, <1>9
<1>11. first2 # NULL => \A u \in R2 : next2[u] # first2
  BY <1>1, <1>2, <1>3, <1>10
<1>12. \A u, v \in R2 : next2[u] = next2[v] /\ next2[u] # NULL => u = v
  BY <1>1, <1>2, <1>3, <1>10
<1>13. R2 # {} => \E u \in R2 : next2[u] = NULL
  <2>1. PICK z \in R : next[z] = NULL
    BY <1>2
  <2>2. CASE z # s
    BY <1>1, <1>10, <2>1, <2>2
  <2>3. CASE z = s /\ first = s
    BY <1>10, <2>1, <2>3, WalkEmpty
  <2>4. CASE z = s /\ first # s
    BY <1>4, <1>10, <2>1, <2>4
  <2>5. QED
    BY <2>2, <2>3, <2>4
<1>14. QED
  BY <1>10, <1>11, <1>12, <1>13 DEF WellFormed

-----------------------------------------------------------------------------
(* The list of streams *)

(* tun_str after an open and after a close. *)
LEMMA Inserted ==
  ASSUME NEW q \in Seq(Streams),
         NEW i \in 1..(Len(q) + 1), NEW s \in Streams
  PROVE  /\ InsertAt(q, i, s) \in Seq(Streams)
         /\ Len(InsertAt(q, i, s)) = Len(q) + 1
         /\ \A k \in 1..(Len(q) + 1) :
              InsertAt(q, i, s)[k] = IF k < i THEN q[k] ELSE IF k = i THEN s ELSE q[k - 1]
<1> DEFINE a == SubSeq(q, 1, i - 1)
           b == SubSeq(q, i, Len(q))
<1>1. i \in Int /\ Len(q) \in Nat /\ i >= 1 /\ i <= Len(q) + 1
  OBVIOUS
<1>2. a \in Seq(Streams) /\ Len(a) = i - 1 /\ \A k \in 1..(i - 1) : a[k] = q[k]
  <2>1. \A k \in 1..(i - 1) : q[k] \in Streams
    OBVIOUS
  <2>2. QED
    BY <1>1, <2>1, SubSeqProperties
<1>3. /\ b \in Seq(Streams) /\ Len(b) = Len(q) - i + 1
      /\ \A k \in 1..(Len(q) - i + 1) : b[k] = q[i + k - 1]
  <2>1. \A k \in i..Len(q) : q[k] \in Streams
    OBVIOUS
  <2>2. QED
    BY <1>1, <2>1, SubSeqProperties
<1>4. <<s>> \in Seq(Streams) /\ Len(<<s>>) = 1 /\ <<s>>[1] = s
  OBVIOUS
<1> HIDE DEF a, b
<1>5. /\ a \o <<s>> \in Seq(Streams) /\ Len(a \o <<s>>) = i
      /\ \A k \in 1..i : (a \o <<s>>)[k] = IF k <= i - 1 THEN a[k] ELSE s
  BY <1>1, <1>2, <1>4, ConcatProperties
<1>6. /\ a \o <<s>> \o b \in Seq(Streams) /\ Len(a \o <<s>> \o b) = i + Len(b)
      /\ \A k \in 1..(i + Len(b)) : (a \o <<s>> \o b)[k] =
             IF k <= i THEN (a \o <<s>>)[k] ELSE b[k - i]
  <2> DEFINE c == a \o <<s>>
  <2>1. c \in Seq(Streams) /\ Len(c) = i
    BY <1>5
  <2> HIDE DEF c
  <2>2. /\ c \o b \in Seq(Streams) /\ Len(c \o b) = Len(c) + Len(b)
        /\ \A k \in 1..(Len(c) + Len(b)) : (c \o b)[k] =
               IF k <= Len(c) THEN c[k] ELSE b[k - Len(c)]
    BY <1>3, <2>1, ConcatProperties
  <2>3. QED
    BY <2>1, <2>2 DEF c
<1>7. InsertAt(q, i, s) = a \o <<s>> \o b
  BY DEF a, b, InsertAt
<1>8. i + Len(b) = Len(q) + 1
  BY <1>1, <1>3
<1>9. ASSUME NEW k \in 1..(Len(q) + 1)
      PROVE  InsertAt(q, i, s)[k] = IF k < i THEN q[k] ELSE IF k = i THEN s ELSE q[k - 1]
  <2>1. CASE k < i
    <3>1. k \in 1..i /\ k \in 1..(i - 1) /\ k <= i - 1 /\ k <= i
      BY <1>1, <2>1
    <3>2. QED
      BY <1>2, <1>5, <1>6, <1>7, <1>8, <2>1, <3>1
  <2>2. CASE k = i
    <3>1. k \in 1..i /\ ~(k <= i - 1) /\ k <= i
      BY <1>1, <2>2
    <3>2. QED
      BY <1>5, <1>6, <1>7, <1>8, <2>2, <3>1
  <2>3. CASE k > i
    <3>1. k - i \in 1..(Len(q) - i + 1) /\ ~(k <= i) /\ i + (k - i) - 1 = k - 1
      BY <1>1, <2>3
    <3>2. InsertAt(q, i, s)[k] = b[k - i] /\ b[k - i] = q[k - 1]
      BY <1>3, <1>6, <1>7, <1>8, <3>1
    <3>3. QED
      BY <1>1, <2>3, <3>2
  <2>4. QED
    BY <1>1, <2>1, <2>2, <2>3
<1>10. QED
  BY <1>6, <1>7, <1>8, <1>9

LEMMA Removed ==
  ASSUME NEW q \in Seq(Streams), NEW i \in 1..Len(q)
  PROVE  /\ RemoveAt(q, i) \in Seq(Streams)
         /\ Len(RemoveAt(q, i)) = Len(q) - 1
         /\ \A k \in 1..(Len(q) - 1) :
              RemoveAt(q, i)[k] = IF k < i THEN q[k] ELSE q[k + 1]
<1> DEFINE a == SubSeq(q, 1, i - 1)
           b == SubSeq(q, i + 1, Len(q))
<1>1. i \in Int /\ Len(q) \in Nat /\ i >= 1 /\ i <= Len(q)
  OBVIOUS
<1>2. a \in Seq(Streams) /\ Len(a) = i - 1 /\ \A k \in 1..(i - 1) : a[k] = q[k]
  <2>1. \A k \in 1..(i - 1) : q[k] \in Streams
    OBVIOUS
  <2>2. QED
    BY <1>1, <2>1, SubSeqProperties
<1>3. /\ b \in Seq(Streams) /\ Len(b) = Len(q) - i
      /\ \A k \in 1..(Len(q) - i) : b[k] = q[i + k]
  <2>1. \A k \in (i + 1)..Len(q) : q[k] \in Streams
    OBVIOUS
  <2>2. QED
    BY <1>1, <2>1, SubSeqProperties
<1> HIDE DEF a, b
<1>4. /\ a \o b \in Seq(Streams) /\ Len(a \o b) = Len(a) + Len(b)
      /\ \A k \in 1..(Len(a) + Len(b)) : (a \o b)[k] =
             IF k <= Len(a) THEN a[k] ELSE b[k - Len(a)]
  BY <1>2, <1>3, ConcatProperties
<1>5. RemoveAt(q, i) = a \o b
  BY DEF a, b, RemoveAt
<1>6. Len(a) + Len(b) = Len(q) - 1
  BY <1>1, <1>2, <1>3
<1>7. ASSUME NEW k \in 1..(Len(q) - 1)
      PROVE  RemoveAt(q, i)[k] = IF k < i THEN q[k] ELSE q[k + 1]
  <2>1. CASE k < i
    <3>1. k \in 1..(i - 1) /\ k <= Len(a)
      BY <1>1, <1>2, <2>1
    <3>2. QED
      BY <1>2, <1>4, <1>5, <1>6, <2>1, <3>1
  <2>2. CASE k >= i
    <3>1. /\ k - Len(a) \in 1..(Len(q) - i) /\ ~(k <= Len(a))
          /\ i + (k - Len(a)) = k + 1
      BY <1>1, <1>2, <2>2
    <3>2. RemoveAt(q, i)[k] = b[k - Len(a)] /\ b[k - Len(a)] = q[k + 1]
      BY <1>3, <1>4, <1>5, <1>6, <3>1
    <3>3. QED
      BY <1>1, <2>2, <3>2
  <2>3. QED
    BY <1>1, <2>1, <2>2
<1>8. QED
  BY <1>4, <1>5, <1>6, <1>7

-----------------------------------------------------------------------------
(* The inductive invariant *)

(* A stream is free, the control stream of a PPA or on the list of one.    *)
Roles ==
  \A s \in Streams :
    /\ s \notin opened => ppa[s] = NULL /\ deferred[s] = NULL
    /\ ppa[s] \in Live \cup {NULL}
    /\ ppa[s] = NULL => state[s] = "UNATTACHED" /\ "CONTROL" \notin flags[s]
    /\ "CONTROL" \in flags[s] => rq[ppa[s]] = s /\ state[s] = "UNATTACHED"
    /\ deferred[s] # NULL /\ deferred[s].kind \in Assigning => ppa[s] = NULL

(* The table and the PPAs agree on their numbers, and a PPA with its        *)
(* control stream.                                                          *)
Table ==
  /\ \A i \in Ids : tun_ppa[i] # NULL => id[tun_ppa[i]] = i
  /\ ControlLive

ListOK(b) == List(b) = Members(b) /\ WellFormed(p_str[b], p_next)

Lists == \A b \in Live : ListOK(b)

IInv == TypeOK /\ Roles /\ Table /\ Lists /\ NotBroken

-----------------------------------------------------------------------------
LEMMA LiveBlocks == ASSUME TypeOK PROVE Live \subseteq Blocks
BY DEF TypeOK, Live

LEMMA InitIInv == Init => IInv
<1> SUFFICES ASSUME Init PROVE IInv
  OBVIOUS
<1>1. TypeOK
  <2>1. 0 \in Ids
    BY PpaAssumption DEF Ids
  <2>2. QED
    BY <2>1 DEF Init, TypeOK
<1>2. Live = {}
  BY DEF Init, Live
<1>3. Roles /\ Table /\ Lists /\ NotBroken
  BY <1>2 DEF Init, Roles, Table, ControlLive, Lists, NotBroken
<1>4. QED
  BY <1>1, <1>3 DEF IInv

-----------------------------------------------------------------------------
(* Types *)

LEMMA RequestKinds ==
  ASSUME NEW r \in Requests
  PROVE  /\ r.kind \in {"TUNSETPPA", "ATTACH"} => r.p \in Ids
         /\ r.kind = "DLIOCRAW" => "RAW" \in Modes
<1>1. CASE r \in {[kind |-> "TUNNEWPPA", p |-> p] : p \in Ids \cup {ANY}}
  BY <1>1
<1>2. CASE r \in {[kind |-> k, p |-> p] : k \in {"TUNSETPPA", "ATTACH"}, p \in Ids}
  BY <1>2
<1>3. CASE r \in {[kind |-> "DETACH", p |-> ANY]}
  BY <1>3
<1>4. CASE r \in {[kind |-> "DLIOCRAW", p |-> ANY] : m \in Modes \cap {"RAW"}}
  BY <1>4
<1>5. QED
  BY <1>1, <1>2, <1>3, <1>4 DEF Requests

LEMMA FreeStreamTypes ==
  ASSUME TypeOK, NEW s \in Streams, FreeStream(s)
  PROVE  /\ opened' \subseteq Streams
         /\ tun_str' \in Seq(Streams)
         /\ minor' \in [Streams -> Nat]
         /\ flags' \in [Streams -> SUBSET ({"CONTROL"} \cup Modes)]
         /\ sap' \in [Streams -> Saps \cup {0}]
         /\ deferred' \in [Streams -> Requests \cup {NULL}]
<1>1. tun_str' \in Seq(Streams)
  <2>1. PICK i \in 1..Len(tun_str) : tun_str' = RemoveAt(tun_str, i)
    BY DEF FreeStream
  <2>2. QED
    BY <2>1, Removed DEF TypeOK
<1>2. QED
  BY <1>1 DEF TypeOK, FreeStream

LEMMA ListTypes ==
  ASSUME TypeOK, NEW s \in Streams, NEW b \in Blocks
  PROVE  /\ HeadWithout(s, b) \in Pointer
         /\ NextWithout(s, b) \in [Streams -> Pointer]
BY DEF TypeOK, HeadWithout, NextWithout, Pointer

LEMMA ServeTypes ==
  ASSUME TypeOK, NEW s \in Streams, Serve(s)
  PROVE  TypeOK'
<1>1. /\ deferred[s] \in Requests
      /\ deferred' \in [Streams -> Requests \cup {NULL}]
  BY DEF TypeOK, Serve, TunNewPpa, TunSetPpa, TunRaw, AttachReq, DetachReq, Perform,
         Refused
<1>2. CASE TunNewPpa(s)
  <2>1. PICK i \in Ids, b \in Blocks \ Live :
          /\ tun_ppa' = [tun_ppa EXCEPT ![i] = b]
          /\ id' = [id EXCEPT ![b] = i]
          /\ rq' = [rq EXCEPT ![b] = s]
          /\ p_str' = [p_str EXCEPT ![b] = NULL]
          /\ \/ /\ ppa' = [ppa EXCEPT ![s] = b]
                /\ flags' = [flags EXCEPT ![s] = @ \cup {"CONTROL"}]
             \/ UNCHANGED <<ppa, flags>>
    BY <1>2 DEF TunNewPpa, FreeIds
  <2>2. /\ ppa' \in [Streams -> Blocks \cup {NULL}]
        /\ flags' \in [Streams -> SUBSET ({"CONTROL"} \cup Modes)]
    <3>1. /\ ppa \in [Streams -> Blocks \cup {NULL}]
          /\ flags \in [Streams -> SUBSET ({"CONTROL"} \cup Modes)]
      BY DEF TypeOK
    <3>2. CASE UNCHANGED <<ppa, flags>>
      BY <3>1, <3>2
    <3>3. CASE /\ ppa' = [ppa EXCEPT ![s] = b]
               /\ flags' = [flags EXCEPT ![s] = @ \cup {"CONTROL"}]
      BY <3>1, <3>3
    <3>4. QED
      BY <2>1, <3>2, <3>3
  <2>3. tun_ppa' \in [Ids -> Blocks \cup {NULL}] /\ id' \in [Blocks -> Ids]
    BY <2>1 DEF TypeOK
  <2>4. /\ rq' \in [Blocks -> Streams \cup {NULL}]
        /\ p_str' \in [Blocks -> Streams \cup {NULL}]
    BY <2>1 DEF TypeOK
  <2>5. UNCHANGED <<opened, tun_str, minor, state, sap, p_next, broken>>
    BY <1>2 DEF TunNewPpa, Perform
  <2>6. QED
    BY <1>1, <2>2, <2>3, <2>4, <2>5 DEF TypeOK
<1>3. CASE TunSetPpa(s)
  <2>1. tun_ppa[deferred[s].p] \in Blocks
    BY <1>1, <1>3, RequestKinds DEF TypeOK, TunSetPpa, Perform
  <2>2. QED
    BY <1>1, <1>3, <2>1 DEF TypeOK, TunSetPpa, LinkStream, Perform
<1>4. CASE TunRaw(s)
  <2>1. "RAW" \in Modes
    BY <1>1, <1>4, RequestKinds DEF TunRaw, Perform
  <2>2. QED
    BY <1>1, <1>4, <2>1 DEF TypeOK, TunRaw, Perform, ppas
<1>5. CASE AttachReq(s)
  <2>1. tun_ppa[deferred[s].p] \in Blocks
    BY <1>1, <1>5, RequestKinds DEF TypeOK, AttachReq, Perform
  <2>2. QED
    BY <1>1, <1>5, <2>1 DEF TypeOK, AttachReq, LinkStream, Perform
<1>6. CASE DetachReq(s)
  <2>1. CASE ppa[s] # NULL /\ s \in List(ppa[s])
    <3>1. ppa[s] \in Blocks
      BY <2>1 DEF TypeOK
    <3>2. /\ p_str' \in [Blocks -> Streams \cup {NULL}]
          /\ p_next' \in [Streams -> Streams \cup {NULL}]
      <4>1. /\ HeadWithout(s, ppa[s]) \in Pointer
            /\ NextWithout(s, ppa[s]) \in [Streams -> Pointer]
        BY <3>1, ListTypes
      <4>2. /\ p_str' = [p_str EXCEPT ![ppa[s]] = HeadWithout(s, ppa[s])]
            /\ p_next' = NextWithout(s, ppa[s])
        BY <1>6, <2>1 DEF DetachReq
      <4>3. QED
        BY <3>1, <4>1, <4>2 DEF TypeOK, Pointer
    <3>3. /\ ppa' \in [Streams -> Blocks \cup {NULL}]
          /\ state' \in [Streams -> {"UNATTACHED", "UNBOUND", "IDLE"}]
          /\ broken' = broken
      BY <1>6, <2>1 DEF TypeOK, DetachReq
    <3>4. QED
      BY <1>1, <1>6, <3>2, <3>3 DEF TypeOK, DetachReq, Perform
  <2>2. CASE ~(ppa[s] # NULL /\ s \in List(ppa[s]))
    BY <1>1, <1>6, <2>2 DEF TypeOK, DetachReq, Perform
  <2>3. QED
    BY <2>1, <2>2
<1>7. CASE Refused(s)
  BY <1>1, <1>7 DEF TypeOK, Refused, streams, ppas
<1>8. QED
  BY <1>2, <1>3, <1>4, <1>5, <1>6, <1>7 DEF Serve

LEMMA CloseTypes ==
  ASSUME TypeOK, NEW s \in Streams, TunClose(s)
  PROVE  TypeOK'
<1>1. CASE CloseUnassigned(s)
  BY <1>1, FreeStreamTypes DEF TypeOK, CloseUnassigned, ppas
<1>2. CASE CloseControl(s)
  <2>1. ppa[s] \in Blocks /\ id[ppa[s]] \in Ids /\ 0 \in Ids
    BY <1>2, PpaAssumption DEF TypeOK, CloseControl, Ids
  <2>2. /\ state' \in [Streams -> {"UNATTACHED", "UNBOUND", "IDLE"}]
        /\ ppa' \in [Streams -> Blocks \cup {NULL}]
        /\ p_next' \in [Streams -> Streams \cup {NULL}]
    BY <1>2 DEF TypeOK, CloseControl, FreePpa
  <2>3. /\ tun_ppa' \in [Ids -> Blocks \cup {NULL}]
        /\ id' \in [Blocks -> Ids]
        /\ rq' \in [Blocks -> Streams \cup {NULL}]
        /\ p_str' \in [Blocks -> Streams \cup {NULL}]
    BY <1>2, <2>1 DEF TypeOK, CloseControl, FreePpa
  <2>4. QED
    BY <1>2, <2>2, <2>3, FreeStreamTypes DEF TypeOK, CloseControl, FreePpa
<1>3. CASE CloseProtocol(s)
  <2>1. ppa[s] \in Blocks
    BY <1>3 DEF TypeOK, CloseProtocol
  <2>2. /\ p_str' \in [Blocks -> Streams \cup {NULL}]
        /\ p_next' \in [Streams -> Streams \cup {NULL}]
    BY <1>3, <2>1, ListTypes DEF TypeOK, CloseProtocol, Pointer
  <2>3. QED
    BY <1>3, <2>2, FreeStreamTypes DEF TypeOK, CloseProtocol
<1>4. CASE LostInList(s)
  BY <1>4 DEF TypeOK, LostInList, streams, ppas
<1>5. QED
  BY <1>1, <1>2, <1>3, <1>4 DEF TunClose

LEMMA TypeStep ==
  ASSUME TypeOK, NEW s \in Streams, Step(s)
  PROVE  TypeOK'
<1>1. CASE TunOpen(s)
  <2>1. PICK i \in 1..(Len(tun_str) + 1) :
          /\ minor' = [minor EXCEPT ![s] = i - 1]
          /\ tun_str' = InsertAt(tun_str, i, s)
    BY <1>1 DEF TunOpen
  <2>2. i - 1 \in Nat
    BY DEF TypeOK
  <2>3. tun_str' \in Seq(Streams)
    BY <2>1, Inserted DEF TypeOK
  <2>4. QED
    BY <1>1, <2>1, <2>2, <2>3 DEF TypeOK, TunOpen, ppas
<1>2. CASE TunClose(s)
  BY <1>2, CloseTypes
<1>3. CASE \E r \in Requests : Defer(s, r)
  BY <1>3 DEF TypeOK, Defer, streams, ppas
<1>4. CASE Serve(s)
  BY <1>4, ServeTypes
<1>5. CASE \E a \in Saps : BindReq(s, a)
  BY <1>5 DEF TypeOK, BindReq, ppas
<1>6. CASE UnbindReq(s)
  BY <1>6 DEF TypeOK, UnbindReq, ppas
<1>7. CASE \E m \in Modes \ {"RAW"} : PromisconReq(s, m) \/ PromiscoffReq(s, m)
  <2>1. PICK m \in Modes : PromisconReq(s, m) \/ PromiscoffReq(s, m)
    BY <1>7
  <2>2. flags[s] \cup {m} \subseteq {"CONTROL"} \cup Modes
    BY DEF TypeOK
  <2>3. CASE PromisconReq(s, m)
    BY <2>2, <2>3 DEF TypeOK, PromisconReq, ppas
  <2>4. CASE PromiscoffReq(s, m)
    BY <2>2, <2>4 DEF TypeOK, PromiscoffReq, ppas
  <2>5. QED
    BY <2>1, <2>3, <2>4
<1>8. QED
  BY <1>1, <1>2, <1>3, <1>4, <1>5, <1>6, <1>7 DEF Step

LEMMA TypeStutter == TypeOK /\ UNCHANGED vars => TypeOK'
BY DEF TypeOK, vars, streams, ppas

(* Every variable stays in its type, whatever the clients do. *)
THEOREM TypeCorrect == Spec => []TypeOK
<1>1. Init => TypeOK
  BY InitIInv DEF IInv
<1>2. TypeOK /\ [Next]_vars => TypeOK'
  BY TypeStep, TypeStutter DEF Next
<1>3. QED
  BY <1>1, <1>2, PTL DEF Spec

-----------------------------------------------------------------------------
(* Steps of the inductive invariant *)

LEMMA KeepList ==
  ASSUME TypeOK, TypeOK', NEW b \in Blocks, ListOK(b),
         Members(b)' = Members(b),
         p_str'[b] = p_str[b],
         \A u \in Members(b) : p_next'[u] = p_next[u]
  PROVE  ListOK(b)'
<1>1. /\ p_str[b] \in Pointer
      /\ p_next \in [Streams -> Pointer] /\ p_next' \in [Streams -> Pointer]
  BY DEF TypeOK, Pointer
<1>2. \A u \in Walk(p_str[b], p_next) : p_next'[u] = p_next[u]
  BY DEF ListOK, List
<1>3. /\ Walk(p_str[b], p_next') = Walk(p_str[b], p_next)
      /\ WellFormed(p_str[b], p_next) => WellFormed(p_str[b], p_next')
  BY <1>1, <1>2, WalkFrame
<1>4. QED
  BY <1>3 DEF ListOK, List

(* An assigned stream is the control stream of its PPA or one of its members. *)
LEMMA Assigned ==
  ASSUME IInv, NEW s \in Streams, ppa[s] # NULL
  PROVE  /\ s \in opened
         /\ ppa[s] \in Live /\ ppa[s] \in Blocks
         /\ ListOK(ppa[s])
         /\ "CONTROL" \notin flags[s] => s \in List(ppa[s])
         /\ Ends(ppa[s])
<1>1. s \in opened /\ ppa[s] \in Live /\ ppa[s] \in Blocks
  BY LiveBlocks DEF IInv, Roles
<1>2. ListOK(ppa[s])
  BY <1>1 DEF IInv, Lists
<1>3. "CONTROL" \notin flags[s] => s \in List(ppa[s])
  BY <1>2 DEF ListOK, Members
<1>4. Ends(ppa[s])
  BY <1>2 DEF ListOK, WellFormed, Ends, List
<1>5. QED
  BY <1>1, <1>2, <1>3, <1>4

(* Two PPAs in the table have different numbers. *)
LEMMA LiveIds ==
  ASSUME IInv, NEW b \in Live
  PROVE  /\ id[b] \in Ids /\ tun_ppa[id[b]] = b
         /\ \A i \in Ids : tun_ppa[i] = b => i = id[b]
BY LiveBlocks DEF IInv, Table, Live

LEMMA QuietStep ==
  ASSUME IInv, TypeOK',
         UNCHANGED <<ppa, p_next, ppas, broken>>,
         opened \subseteq opened',
         \A u \in Streams : "CONTROL" \in flags'[u] <=> "CONTROL" \in flags[u]
  PROVE  Table' /\ Lists' /\ NotBroken'
<1>1. Live' = Live /\ Live \subseteq Blocks
  BY LiveBlocks DEF Live, ppas, IInv
<1>2. Table'
  BY <1>1 DEF IInv, Table, ControlLive, ppas, TypeOK, Live
<1>3. ASSUME NEW b \in Live PROVE ListOK(b)'
  <2>1. Members(b)' = Members(b)
    BY DEF Members
  <2>2. QED
    BY <1>1, <1>3, <2>1, KeepList DEF IInv, Lists, ppas
<1>4. QED
  BY <1>1, <1>2, <1>3 DEF Lists, NotBroken, IInv

LEMMA OpenStep ==
  ASSUME IInv, TypeOK', NEW s \in Streams, TunOpen(s)
  PROVE  IInv'
<1>1. Table' /\ Lists' /\ NotBroken'
  BY QuietStep DEF TunOpen
<1>2. Roles'
  BY DEF TunOpen, IInv, Roles, Live, ppas
<1>3. QED
  BY <1>1, <1>2 DEF IInv

LEMMA DeferStep ==
  ASSUME IInv, TypeOK', Orderly, NEW s \in Streams, NEW r \in Requests, Defer(s, r)
  PROVE  IInv'
<1>1. Table' /\ Lists' /\ NotBroken'
  BY QuietStep DEF Defer, streams
<1>2. Roles'
  BY DEF Defer, IInv, TypeOK, Roles, Live, ppas, streams
<1>3. QED
  BY <1>1, <1>2 DEF IInv

LEMMA RawStep ==
  ASSUME IInv, TypeOK', NEW s \in Streams, TunRaw(s)
  PROVE  IInv'
<1>1. \A u \in Streams : "CONTROL" \in flags'[u] <=> "CONTROL" \in flags[u]
  BY DEF TunRaw, IInv, TypeOK
<1>2. Table' /\ Lists' /\ NotBroken'
  BY <1>1, QuietStep DEF TunRaw, Perform
<1>3. Roles'
  BY <1>1 DEF TunRaw, Perform, IInv, TypeOK, Roles, Live, ppas
<1>4. QED
  BY <1>2, <1>3 DEF IInv

LEMMA RefusedStep ==
  ASSUME IInv, TypeOK', NEW s \in Streams, Refused(s)
  PROVE  IInv'
<1>1. Table' /\ Lists' /\ NotBroken'
  BY QuietStep DEF Refused, streams
<1>2. Roles'
  BY DEF Refused, IInv, TypeOK, Roles, Live, ppas, streams
<1>3. QED
  BY <1>1, <1>2 DEF IInv

LEMMA BindStep ==
  ASSUME IInv, TypeOK', NEW s \in Streams,
         (\E a \in Saps : BindReq(s, a)) \/ UnbindReq(s)
  PROVE  IInv'
<1>1. /\ UNCHANGED <<opened, ppa, flags, p_next, ppas, deferred, broken>>
      /\ state[s] # "UNATTACHED"
      /\ \A u \in Streams \ {s} : state'[u] = state[u]
  BY DEF BindReq, UnbindReq, IInv, TypeOK
<1>2. Table' /\ Lists' /\ NotBroken'
  BY <1>1, QuietStep
<1>3. Roles'
  BY <1>1 DEF IInv, Roles, Live, ppas
<1>4. QED
  BY <1>2, <1>3 DEF IInv

LEMMA PromiscStep ==
  ASSUME IInv, TypeOK', NEW s \in Streams, NEW m \in Modes \ {"RAW"},
         PromisconReq(s, m) \/ PromiscoffReq(s, m)
  PROVE  IInv'
<1>1. /\ UNCHANGED <<opened, ppa, state, p_next, ppas, deferred, broken>>
      /\ \A u \in Streams : "CONTROL" \in flags'[u] <=> "CONTROL" \in flags[u]
  <2>1. m # "CONTROL"
    BY ModeAssumption
  <2>2. CASE PromisconReq(s, m)
    BY <2>1, <2>2 DEF PromisconReq, IInv, TypeOK
  <2>3. CASE PromiscoffReq(s, m)
    BY <2>1, <2>3 DEF PromiscoffReq, IInv, TypeOK
  <2>4. QED
    BY <2>2, <2>3
<1>2. Table' /\ Lists' /\ NotBroken'
  BY <1>1, QuietStep
<1>3. Roles'
  BY <1>1 DEF IInv, Roles, Live, ppas
<1>4. QED
  BY <1>2, <1>3 DEF IInv

LEMMA NewPpaStep ==
  ASSUME IInv, TypeOK', ~AllocFails, NEW s \in Streams, TunNewPpa(s)
  PROVE  IInv'
<1>1. PICK i \in Ids, b \in Blocks \ Live :
        /\ tun_ppa[i] = NULL
        /\ tun_ppa' = [tun_ppa EXCEPT ![i] = b]
        /\ id' = [id EXCEPT ![b] = i]
        /\ rq' = [rq EXCEPT ![b] = s]
        /\ p_str' = [p_str EXCEPT ![b] = NULL]
        /\ ppa' = [ppa EXCEPT ![s] = b]
        /\ flags' = [flags EXCEPT ![s] = @ \cup {"CONTROL"}]
  BY DEF TunNewPpa, MayTake, FreeIds
<1>2. /\ deferred[s] # NULL /\ ppa[s] = NULL /\ s \in opened
      /\ state[s] = "UNATTACHED"
      /\ deferred' = [deferred EXCEPT ![s] = NULL]
      /\ UNCHANGED <<opened, state, p_next, broken>>
  BY DEF TunNewPpa, Perform, Assigning, IInv, Roles
<1>3. b # NULL /\ b \notin Live /\ Live' = Live \cup {b} /\ Live \subseteq Blocks
  BY <1>1, LiveBlocks, NullAssumption DEF IInv, TypeOK, Live
<1>4. \A u \in Streams : ppa[u] # b
  BY <1>3 DEF IInv, Roles
<1>5. Roles'
  BY <1>1, <1>2, <1>3 DEF IInv, TypeOK, Roles
<1>6. Table'
  <2>1. \A j \in Ids : tun_ppa'[j] # NULL => id'[tun_ppa'[j]] = j
    BY <1>1, <1>3 DEF IInv, Table, TypeOK, Live
  <2>2. ASSUME NEW c \in Live
        PROVE  rq'[c] \in opened' /\ ppa'[rq'[c]] = c /\ "CONTROL" \in flags'[rq'[c]]
    <3>1. rq[c] \in opened /\ ppa[rq[c]] = c /\ "CONTROL" \in flags[rq[c]]
      BY DEF IInv, Table, ControlLive
    <3>2. c # NULL /\ c # b /\ rq[c] # s /\ rq[c] \in Streams
      BY <1>2, <1>3, <3>1 DEF Live, IInv, TypeOK
    <3>3. /\ rq'[c] = rq[c] /\ ppa'[rq[c]] = ppa[rq[c]]
          /\ flags'[rq[c]] = flags[rq[c]]
      BY <1>1, <1>3, <3>2 DEF IInv, TypeOK
    <3>4. QED
      BY <1>2, <3>1, <3>3
  <2>3. rq'[b] \in opened' /\ ppa'[rq'[b]] = b /\ "CONTROL" \in flags'[rq'[b]]
    BY <1>1, <1>2 DEF IInv, TypeOK
  <2>4. QED
    BY <1>3, <2>1, <2>2, <2>3 DEF Table, ControlLive
<1>7. ASSUME NEW c \in Live PROVE ListOK(c)'
  <2>1. Members(c)' = Members(c)
    <3>1. c # NULL /\ c # b
      BY <1>3 DEF Live
    <3>2. \A u \in Streams : (ppa'[u] = c <=> ppa[u] = c)
      BY <1>1, <1>2, <3>1 DEF IInv, TypeOK
    <3>3. \A u \in Streams : ppa[u] = c => flags'[u] = flags[u]
      BY <1>1, <1>2, <3>1 DEF IInv, TypeOK
    <3>4. QED
      BY <3>2, <3>3 DEF Members
  <2>2. p_str'[c] = p_str[c] /\ c \in Blocks /\ ListOK(c)
    BY <1>1, <1>3 DEF IInv, TypeOK, Lists
  <2>3. QED
    BY <1>2, <2>1, <2>2, KeepList DEF IInv
<1>8. ListOK(b)'
  <2>1. Members(b)' = {}
    BY <1>1, <1>4 DEF Members, IInv, TypeOK
  <2>2. p_str'[b] = NULL
    BY <1>1 DEF IInv, TypeOK
  <2>3. Walk(NULL, p_next') = {}
    BY WalkEmpty
  <2>4. QED
    BY <2>1, <2>2, <2>3 DEF ListOK, List, WellFormed
<1>9. QED
  BY <1>2, <1>3, <1>5, <1>6, <1>7, <1>8 DEF IInv, Lists, NotBroken

(* A stream that is not assigned goes to the head of a list. *)
LEMMA LinkStep ==
  ASSUME IInv, TypeOK', NEW s \in opened, NEW b \in Live,
         ppa[s] = NULL,
         LinkStream(s, b),
         ppa' = [ppa EXCEPT ![s] = b],
         state'[s] \in {"UNATTACHED", "UNBOUND"},
         \A u \in Streams \ {s} : state'[u] = state[u],
         deferred' = [deferred EXCEPT ![s] = NULL],
         UNCHANGED <<opened, flags, tun_ppa, id, rq, broken>>
  PROVE  IInv'
<1>1. /\ s \in Streams /\ b \in Blocks /\ b # NULL
      /\ "CONTROL" \notin flags[s] /\ Live' = Live
  BY LiveBlocks DEF IInv, TypeOK, Roles, Live
<1>2. Roles'
  BY <1>1 DEF IInv, TypeOK, Roles
<1>3. Table'
  BY <1>1 DEF IInv, TypeOK, Table, ControlLive
<1>4. ASSUME NEW c \in Live, c # b PROVE ListOK(c)'
  <2>1. Members(c)' = Members(c) /\ s \notin Members(c)
    <3>1. c # NULL
      BY DEF Live
    <3>2. \A u \in Streams : (ppa'[u] = c <=> ppa[u] = c)
      BY <1>1, <1>4, <3>1 DEF IInv, TypeOK
    <3>3. QED
      BY <3>1, <3>2 DEF Members
  <2>2. p_str'[c] = p_str[c] /\ c \in Blocks /\ ListOK(c)
    BY <1>4, LiveBlocks DEF IInv, TypeOK, Lists, LinkStream
  <2>3. \A u \in Members(c) : p_next'[u] = p_next[u]
    BY <2>1 DEF LinkStream, Members, IInv, TypeOK
  <2>4. QED
    BY <2>1, <2>2, <2>3, KeepList DEF IInv
<1>5. ListOK(b)'
  <2>1. Members(b)' = Members(b) \cup {s} /\ s \notin Members(b)
    BY <1>1 DEF Members, IInv, TypeOK
  <2>2. /\ Walk(p_str[b], p_next) = Members(b)
        /\ WellFormed(p_str[b], p_next)
    BY DEF IInv, Lists, ListOK, List
  <2>3. /\ p_str[b] \in Pointer /\ p_next \in [Streams -> Pointer]
        /\ p_next' \in [Streams -> Pointer]
        /\ p_next'[s] = p_str[b]
        /\ p_str'[b] = s
    BY <1>1 DEF LinkStream, IInv, TypeOK, Pointer
  <2>4. /\ s \notin Walk(p_str[b], p_next)
        /\ \A u \in Walk(p_str[b], p_next) : p_next'[u] = p_next[u]
    BY <2>1, <2>2 DEF LinkStream, IInv, TypeOK, Members
  <2>5. /\ Walk(s, p_next') = Walk(p_str[b], p_next) \cup {s}
        /\ WellFormed(s, p_next')
    BY <1>1, <2>2, <2>3, <2>4, WalkLink
  <2>6. QED
    BY <2>1, <2>2, <2>3, <2>5 DEF ListOK, List
<1>6. QED
  BY <1>1, <1>2, <1>3, <1>4, <1>5 DEF IInv, Lists, NotBroken

(* A member of a list is taken off it, and may be closed with that. *)
LEMMA UnlinkStep ==
  ASSUME IInv, TypeOK', NEW s \in Streams, NEW b,
         b = ppa[s], b # NULL, "CONTROL" \notin flags[s],
         p_str' = [p_str EXCEPT ![b] = HeadWithout(s, b)],
         \A u \in Streams \ {s} : p_next'[u] = NextWithout(s, b)[u],
         ppa' = [ppa EXCEPT ![s] = NULL],
         state' = [state EXCEPT ![s] = "UNATTACHED"],
         deferred' = [deferred EXCEPT ![s] = NULL],
         \A u \in Streams \ {s} : flags'[u] = flags[u] /\ (u \in opened' <=> u \in opened),
         "CONTROL" \notin flags'[s],
         UNCHANGED <<tun_ppa, id, rq, broken>>
  PROVE  IInv'
<1>1. /\ b \in Live /\ b \in Blocks /\ ListOK(b)
      /\ Live' = Live /\ Live \subseteq Blocks
  BY Assigned, LiveBlocks DEF Live, IInv
<1>2. Roles'
  BY <1>1 DEF IInv, TypeOK, Roles
<1>3. Table'
  <2>1. \A c \in Live : rq[c] \in Streams /\ rq[c] # s
    BY DEF IInv, TypeOK, Table, ControlLive
  <2>2. QED
    BY <1>1, <2>1 DEF IInv, TypeOK, Table, ControlLive
<1>4. ASSUME NEW c \in Live, c # b PROVE ListOK(c)'
  <2>1. Members(c)' = Members(c) /\ s \notin Members(c)
    BY <1>1, <1>4, NullAssumption DEF Members, IInv, TypeOK
  <2>2. p_str'[c] = p_str[c] /\ c \in Blocks /\ ListOK(c)
    BY <1>1, <1>4 DEF IInv, TypeOK, Lists
  <2>3. \A u \in Members(c) : u \notin List(b)
    BY <1>1, <1>4 DEF ListOK, Members
  <2>4. \A u \in Members(c) : p_next'[u] = p_next[u]
    BY <2>1, <2>3 DEF NextWithout, Members
  <2>5. QED
    BY <2>1, <2>2, <2>4, KeepList DEF IInv
<1>5. ListOK(b)'
  <2>1. Members(b)' = Members(b) \ {s} /\ s \in Members(b)
    BY <1>1, NullAssumption DEF Members, IInv, TypeOK
  <2>2. /\ Walk(p_str[b], p_next) = Members(b)
        /\ WellFormed(p_str[b], p_next)
    BY <1>1 DEF ListOK, List
  <2>3. /\ p_str[b] \in Pointer
        /\ p_next \in [Streams -> Pointer] /\ p_next' \in [Streams -> Pointer]
    BY <1>1 DEF IInv, TypeOK, Pointer
  <2>4. p_str'[b] = IF p_str[b] = s THEN p_next[s] ELSE p_str[b]
    BY <1>1 DEF HeadWithout, IInv, TypeOK
  <2>5. \A u \in Walk(p_str[b], p_next) \ {s} :
          p_next'[u] = IF p_str[b] # s /\ p_next[u] = s THEN p_next[s] ELSE p_next[u]
    BY <2>2 DEF NextWithout, List, Members
  <2>6. /\ Walk(p_str'[b], p_next') = Walk(p_str[b], p_next) \ {s}
        /\ WellFormed(p_str'[b], p_next')
    BY <2>1, <2>2, <2>3, <2>4, <2>5, WalkUnlink, SMTT(60)
  <2>7. Walk(p_str'[b], p_next') = Members(b)'
    BY <2>1, <2>2, <2>6
  <2>8. QED
    BY <2>6, <2>7 DEF ListOK, List
<1>6. QED
  BY <1>1, <1>2, <1>3, <1>4, <1>5 DEF IInv, Lists, NotBroken

LEMMA DetachStep ==
  ASSUME IInv, TypeOK', NEW s \in Streams, DetachReq(s)
  PROVE  IInv'
<1>1. ppa[s] # NULL /\ "CONTROL" \notin flags[s] /\ s \in List(ppa[s])
  BY Assigned DEF DetachReq, IInv, Roles
<1>2. /\ p_str' = [p_str EXCEPT ![ppa[s]] = HeadWithout(s, ppa[s])]
      /\ p_next' = NextWithout(s, ppa[s])
      /\ ppa' = [ppa EXCEPT ![s] = NULL]
      /\ state' = [state EXCEPT ![s] = "UNATTACHED"]
      /\ deferred' = [deferred EXCEPT ![s] = NULL]
      /\ UNCHANGED <<opened, flags, tun_ppa, id, rq, broken>>
  BY <1>1 DEF DetachReq, Perform
<1>3. QED
  BY <1>1, <1>2, UnlinkStep

LEMMA CloseProtocolStep ==
  ASSUME IInv, TypeOK', NEW s \in Streams, CloseProtocol(s)
  PROVE  IInv'
<1>1. /\ p_str' = [p_str EXCEPT ![ppa[s]] = HeadWithout(s, ppa[s])]
      /\ \A u \in Streams \ {s} : p_next'[u] = NextWithout(s, ppa[s])[u]
  BY DEF CloseProtocol, NextWithout
<1>2. /\ opened' = opened \ {s}
      /\ flags' = [flags EXCEPT ![s] = {}]
      /\ deferred' = [deferred EXCEPT ![s] = NULL]
  BY DEF CloseProtocol, FreeStream
<1>3. /\ \A u \in Streams \ {s} : flags'[u] = flags[u] /\ (u \in opened' <=> u \in opened)
      /\ "CONTROL" \notin flags'[s]
  BY <1>2 DEF IInv, TypeOK
<1>4. /\ ppa[s] # NULL /\ "CONTROL" \notin flags[s]
      /\ ppa' = [ppa EXCEPT ![s] = NULL]
      /\ state' = [state EXCEPT ![s] = "UNATTACHED"]
      /\ UNCHANGED <<tun_ppa, id, rq, broken>>
  BY DEF CloseProtocol
<1>5. QED
  BY <1>1, <1>2, <1>3, <1>4, UnlinkStep

LEMMA CloseUnassignedStep ==
  ASSUME IInv, TypeOK', NEW s \in Streams, CloseUnassigned(s)
  PROVE  IInv'
<1>1. /\ ppa[s] = NULL /\ "CONTROL" \notin flags[s]
      /\ opened' = opened \ {s}
      /\ flags' = [flags EXCEPT ![s] = {}]
      /\ deferred' = [deferred EXCEPT ![s] = NULL]
      /\ state' = [state EXCEPT ![s] = "UNATTACHED"]
      /\ p_next' = [p_next EXCEPT ![s] = NULL]
      /\ UNCHANGED <<ppa, tun_ppa, id, rq, p_str, broken>>
      /\ Live' = Live /\ Live \subseteq Blocks
  BY LiveBlocks DEF CloseUnassigned, FreeStream, ppas, IInv, Roles, Live
<1>2. \A u \in Streams : "CONTROL" \in flags'[u] <=> "CONTROL" \in flags[u]
  BY <1>1 DEF IInv, TypeOK
<1>3. Roles'
  BY <1>1, <1>2 DEF IInv, TypeOK, Roles
<1>4. Table'
  <2>1. \A b \in Live : rq[b] \in Streams /\ rq[b] # s
    BY <1>1 DEF IInv, TypeOK, Table, ControlLive, Live
  <2>2. QED
    BY <1>1, <1>2, <2>1 DEF IInv, TypeOK, Table, ControlLive
<1>5. ASSUME NEW b \in Live PROVE ListOK(b)'
  <2>1. Members(b)' = Members(b) /\ s \notin Members(b)
    BY <1>1, <1>2 DEF Members, Live
  <2>2. \A u \in Members(b) : p_next'[u] = p_next[u]
    BY <1>1, <2>1 DEF Members, IInv, TypeOK
  <2>3. QED
    BY <1>1, <2>1, <2>2, KeepList DEF IInv, Lists
<1>6. QED
  BY <1>1, <1>3, <1>4, <1>5 DEF IInv, Lists, NotBroken

LEMMA CloseControlStep ==
  ASSUME IInv, TypeOK', NEW s \in Streams, CloseControl(s)
  PROVE  IInv'
<1> DEFINE b == ppa[s]
           gone == Members(b) \cup {s}
<1>1. /\ b # NULL /\ "CONTROL" \in flags[s]
      /\ b \in Live /\ b \in Blocks /\ Live \subseteq Blocks /\ List(b) = Members(b)
  BY Assigned, LiveBlocks DEF CloseControl, IInv, ListOK
<1>2. /\ opened' = opened \ {s}
      /\ flags' = [flags EXCEPT ![s] = {}]
      /\ deferred' = [deferred EXCEPT ![s] = NULL]
      /\ state' = [u \in Streams |-> IF u \in gone THEN "UNATTACHED" ELSE state[u]]
      /\ ppa' = [u \in Streams |-> IF u \in gone THEN NULL ELSE ppa[u]]
      /\ p_next' = [p_next EXCEPT ![s] = NULL]
      /\ tun_ppa' = [tun_ppa EXCEPT ![id[b]] = NULL]
      /\ id' = [id EXCEPT ![b] = 0]
      /\ rq' = [rq EXCEPT ![b] = NULL]
      /\ p_str' = [p_str EXCEPT ![b] = NULL]
      /\ UNCHANGED broken
  BY <1>1 DEF CloseControl, TurnedOut, FreePpa, FreeStream
<1> HIDE DEF gone
<1>3. Live' = Live \ {b}
  <2>1. /\ id[b] \in Ids
        /\ \A i \in Ids : tun_ppa[i] = b <=> i = id[b]
    BY <1>1, LiveIds
  <2>2. \A i \in Ids : tun_ppa'[i] = IF tun_ppa[i] = b THEN NULL ELSE tun_ppa[i]
    BY <1>2, <2>1 DEF IInv, TypeOK
  <2>3. QED
    BY <1>1, <2>2 DEF Live
<1>4. \A u \in Streams : IF ppa[u] = b THEN u \in gone ELSE u \notin gone
  BY <1>1 DEF gone, Members, IInv, Roles
<1>5. Roles'
  BY <1>1, <1>2, <1>3, <1>4 DEF IInv, TypeOK, Roles
<1>6. Table'
  <2>1. \A i \in Ids : tun_ppa'[i] # NULL => id'[tun_ppa'[i]] = i
    BY <1>1, <1>2, LiveIds DEF IInv, TypeOK, Table, Live
  <2>2. ASSUME NEW c \in Live, c # b
        PROVE  rq'[c] \in opened' /\ ppa'[rq'[c]] = c /\ "CONTROL" \in flags'[rq'[c]]
    <3>1. /\ rq[c] \in opened /\ rq[c] \in Streams
          /\ ppa[rq[c]] = c /\ "CONTROL" \in flags[rq[c]]
      BY DEF IInv, TypeOK, Table, ControlLive
    <3>2. rq[c] # s /\ rq[c] \notin gone
      BY <1>4, <2>2, <3>1
    <3>3. rq'[c] = rq[c] /\ ppa'[rq[c]] = c /\ flags'[rq[c]] = flags[rq[c]]
      BY <1>1, <1>2, <2>2, <3>1, <3>2 DEF IInv, TypeOK
    <3>4. QED
      BY <1>2, <3>1, <3>2, <3>3
  <2>3. QED
    BY <1>3, <2>1, <2>2 DEF Table, ControlLive
<1>7. ASSUME NEW c \in Live, c # b PROVE ListOK(c)'
  <2>1. \A u \in Streams : ppa[u] = c => u # s
    BY <1>7
  <2>2. \A u \in Streams : ppa'[u] = c <=> ppa[u] = c
    BY <1>2, <1>4, <1>7 DEF Live
  <2>3. Members(c)' = Members(c)
    BY <1>2, <2>1, <2>2 DEF Members, IInv, TypeOK
  <2>4. /\ p_str'[c] = p_str[c] /\ c \in Blocks /\ ListOK(c)
        /\ \A u \in Members(c) : p_next'[u] = p_next[u]
    BY <1>1, <1>2, <1>7, <2>1 DEF IInv, TypeOK, Lists, Members
  <2>5. QED
    BY <2>3, <2>4, KeepList DEF IInv
<1>8. QED
  BY <1>2, <1>3, <1>5, <1>6, <1>7 DEF IInv, Lists, NotBroken

LEMMA NeverLost ==
  ASSUME IInv, NEW s \in Streams
  PROVE  ~LostInList(s)
BY Assigned DEF LostInList

LEMMA CloseStep ==
  ASSUME IInv, TypeOK', NEW s \in Streams, TunClose(s)
  PROVE  IInv'
BY CloseUnassignedStep, CloseControlStep, CloseProtocolStep, NeverLost DEF TunClose

(* The premises of LinkStep hold of TUNSETPPA and DL_ATTACH_REQ: an orderly *)
(* client has not assigned the stream in the meantime.                      *)
LEMMA JoinStep ==
  ASSUME IInv, TypeOK', NEW s \in Streams, TunSetPpa(s) \/ AttachReq(s)
  PROVE  IInv'
<1> DEFINE b == tun_ppa[deferred[s].p]
<1>1. /\ deferred[s] # NULL /\ deferred[s] \in Requests
      /\ deferred[s].kind \in {"TUNSETPPA", "ATTACH"}
  BY DEF TunSetPpa, AttachReq, Perform, IInv, TypeOK
<1>2. s \in opened /\ ppa[s] = NULL /\ state[s] = "UNATTACHED"
  BY <1>1 DEF IInv, Roles, Assigning
<1>3. deferred[s].p \in Ids
  BY <1>1, RequestKinds
<1>4. /\ b # NULL /\ LinkStream(s, b)
      /\ ppa' = [ppa EXCEPT ![s] = b]
      /\ deferred' = [deferred EXCEPT ![s] = NULL]
      /\ UNCHANGED <<opened, flags, tun_ppa, id, rq, broken>>
  BY DEF TunSetPpa, AttachReq, Perform
<1>5. b \in Live
  BY <1>3, <1>4 DEF Live
<1>6. /\ state'[s] \in {"UNATTACHED", "UNBOUND"}
      /\ \A u \in Streams \ {s} : state'[u] = state[u]
  BY <1>2 DEF TunSetPpa, AttachReq, IInv, TypeOK
<1>7. QED
  BY <1>2, <1>4, <1>5, <1>6, LinkStep

LEMMA StepIInv ==
  ASSUME IInv, Orderly, ~AllocFails, NEW s \in Streams, Step(s)
  PROVE  IInv'
<1>1. TypeOK'
  BY TypeStep DEF IInv
<1>2. CASE TunOpen(s)
  BY <1>1, <1>2, OpenStep
<1>3. CASE TunClose(s)
  BY <1>1, <1>3, CloseStep
<1>4. CASE \E r \in Requests : Defer(s, r)
  BY <1>1, <1>4, DeferStep
<1>5. CASE Serve(s)
  BY <1>1, <1>5, NewPpaStep, JoinStep, RawStep, DetachStep, RefusedStep DEF Serve
<1>6. CASE (\E a \in Saps : BindReq(s, a)) \/ UnbindReq(s)
  BY <1>1, <1>6, BindStep
<1>7. CASE \E m \in Modes \ {"RAW"} : PromisconReq(s, m) \/ PromiscoffReq(s, m)
  BY <1>1, <1>7, PromiscStep
<1>8. QED
  BY <1>2, <1>3, <1>4, <1>5, <1>6, <1>7 DEF Step

LEMMA StutterIInv == IInv /\ UNCHANGED vars => IInv'
<1> SUFFICES ASSUME IInv, UNCHANGED vars PROVE IInv'
  OBVIOUS
<1>1. TypeOK'
  BY TypeStutter DEF IInv
<1>2. Table' /\ Lists' /\ NotBroken'
  BY <1>1, QuietStep DEF vars, streams
<1>3. Roles'
  BY DEF vars, streams, ppas, IInv, Roles, Live
<1>4. QED
  BY <1>1, <1>2, <1>3 DEF IInv

-----------------------------------------------------------------------------
(* What follows for orderly clients that do not run out of memory *)

THEOREM Invariance ==
  ASSUME Orderly, ~AllocFails
  PROVE  Spec => []IInv
<1>1. Init => IInv
  BY InitIInv
<1>2. IInv /\ [Next]_vars => IInv'
  BY StepIInv, StutterIInv DEF Next
<1>3. QED
  BY <1>1, <1>2, PTL DEF Spec

(* The list of a PPA is exact: the streams assigned to it, and an end.      *)
THEOREM ListsStayExact ==
  ASSUME Orderly, ~AllocFails
  PROVE  Spec => []ListsExact
<1>1. IInv => ListsExact
  BY DEF IInv, Lists, ListOK, ListsExact, WellFormed, List, Ends
<1>2. QED
  BY <1>1, Invariance, PTL

(* No stream keeps the address of a PPA whose control stream was closed.    *)
THEOREM PpasDoNotDangle ==
  ASSUME Orderly, ~AllocFails
  PROVE  Spec => []NoDanglingPpa
<1>1. IInv => NoDanglingPpa
  BY DEF IInv, TypeOK, Roles, NoDanglingPpa
<1>2. QED
  BY <1>1, Invariance, PTL

(* Every PPA of the table has an open control stream to send its frames to. *)
THEOREM ControlStaysLive ==
  ASSUME Orderly, ~AllocFails
  PROVE  Spec => []ControlLive
<1>1. IInv => ControlLive
  BY DEF IInv, Table
<1>2. QED
  BY <1>1, Invariance, PTL

(* Every address of a PPA, and of the queue in it, is good.                 *)
THEOREM PpasStaySound ==
  ASSUME Orderly, ~AllocFails
  PROVE  Spec => []PpasSound
<1>1. NoDanglingPpa /\ ControlLive => PpasSound
  BY DEF PpasSound
<1>2. QED
  BY <1>1, PpasDoNotDangle, ControlStaysLive, PTL

(* The pointers tun_detach_req follows without a test are there.            *)
THEOREM AttachedStreamsHavePpa ==
  ASSUME Orderly, ~AllocFails
  PROVE  Spec => []AttachedHasPpa
<1>1. IInv => AttachedHasPpa
  BY DEF IInv, TypeOK, Roles, AttachedHasPpa
<1>2. QED
  BY <1>1, Invariance, PTL

(* No walk along a list follows a null pointer or runs for ever.            *)
THEOREM WalksEnd ==
  ASSUME Orderly, ~AllocFails
  PROVE  Spec => []NotBroken
<1>1. IInv => NotBroken
  BY DEF IInv
<1>2. QED
  BY <1>1, Invariance, PTL

(* A control stream stays one until it is closed, whatever modes it sets.   *)
THEOREM ControlIsKept ==
  ASSUME Orderly, ~AllocFails
  PROVE  Spec => ControlKept
<1> DEFINE Kept ==
      \A s \in opened \cap opened' :
        "CONTROL" \in flags[s] => "CONTROL" \in flags'[s] /\ ppa'[s] = ppa[s]
<1>1. ASSUME IInv, NEW s \in Streams, Step(s) PROVE Kept
  <2> USE <1>1
  <2>1. TypeOK /\ "CONTROL" \notin Modes
    BY ModeAssumption DEF IInv
  <2>2. CASE TunOpen(s)
    BY <2>2 DEF TunOpen
  <2>3. CASE TunClose(s)
    <3>1. CASE CloseUnassigned(s)
      BY <2>1, <3>1 DEF CloseUnassigned, FreeStream, TypeOK
    <3>2. CASE CloseControl(s)
      <4>1. \A u \in List(ppa[s]) : "CONTROL" \notin flags[u]
        BY <3>2, Assigned DEF CloseControl, ListOK, Members
      <4>2. QED
        BY <2>1, <3>2, <4>1 DEF CloseControl, TurnedOut, FreePpa, FreeStream, TypeOK
    <3>3. CASE CloseProtocol(s)
      BY <2>1, <3>3 DEF CloseProtocol, FreeStream, TypeOK
    <3>4. QED
      BY <2>3, <3>1, <3>2, <3>3, NeverLost DEF TunClose
  <2>4. CASE \E r \in Requests : Defer(s, r)
    BY <2>4 DEF Defer, streams
  <2>5. CASE TunNewPpa(s)
    <3>1. ppa[s] = NULL /\ "CONTROL" \notin flags[s]
      BY <2>5 DEF TunNewPpa, Perform, Assigning, IInv, Roles
    <3>2. \A u \in Streams \ {s} : flags'[u] = flags[u] /\ ppa'[u] = ppa[u]
      BY <2>1, <2>5 DEF TunNewPpa, TypeOK
    <3>3. QED
      BY <2>1, <3>1, <3>2 DEF TypeOK
  <2>6. CASE TunSetPpa(s) \/ AttachReq(s) \/ DetachReq(s)
    <3>1. "CONTROL" \notin flags[s]
      BY <2>6 DEF TunSetPpa, AttachReq, DetachReq, Perform, Assigning, IInv, Roles
    <3>2. flags' = flags /\ \A u \in Streams \ {s} : ppa'[u] = ppa[u]
      BY <2>1, <2>6 DEF TunSetPpa, AttachReq, DetachReq, TypeOK
    <3>3. QED
      BY <2>1, <3>1, <3>2 DEF TypeOK
  <2>7. CASE TunRaw(s)
    BY <2>1, <2>7 DEF TunRaw, TypeOK
  <2>8. CASE Refused(s)
    BY <2>8 DEF Refused, streams
  <2>9. CASE (\E a \in Saps : BindReq(s, a)) \/ UnbindReq(s)
    BY <2>9 DEF BindReq, UnbindReq
  <2>10. CASE \E m \in Modes \ {"RAW"} : PromisconReq(s, m) \/ PromiscoffReq(s, m)
    <3>1. PICK m \in Modes : PromisconReq(s, m) \/ PromiscoffReq(s, m)
      BY <2>10
    <3>2. m # "CONTROL" /\ ppa' = ppa
      BY <2>1, <3>1 DEF PromisconReq, PromiscoffReq
    <3>3. flags' = [flags EXCEPT ![s] = @ \cup {m}] \/ flags' = [flags EXCEPT ![s] = @ \ {m}]
      BY <3>1 DEF PromisconReq, PromiscoffReq
    <3>4. flags \in [Streams -> SUBSET ({"CONTROL"} \cup Modes)] /\ opened \subseteq Streams
      BY <2>1 DEF TypeOK
    <3>5. ASSUME NEW u \in Streams, "CONTROL" \in flags[u] PROVE "CONTROL" \in flags'[u]
      <4>1. flags'[u] \in {flags[u], flags[u] \cup {m}, flags[u] \ {m}}
        BY <3>3, <3>4
      <4>2. QED
        BY <3>2, <3>5, <4>1
    <3>6. QED
      BY <3>2, <3>4, <3>5
  <2>11. QED
    BY <2>2, <2>3, <2>4, <2>5, <2>6, <2>7, <2>8, <2>9, <2>10 DEF Step, Serve
<1>2. UNCHANGED vars => Kept
  BY DEF vars, streams
<1>3. IInv /\ [Next]_vars => [Kept]_vars
  BY <1>1, <1>2 DEF Next
<1>4. QED
  BY <1>3, Invariance, PTL DEF Spec, ControlKept

-----------------------------------------------------------------------------
(* Minor numbers *)

(* Strengthens MinorsOrdered: numbers grow at least as fast as places, so    *)
(* that a number equal to its place is preceded by all the smaller ones.     *)
Gaps ==
  /\ ToSet(tun_str) = opened
  /\ \A j, k \in 1..Len(tun_str) : j < k =>
       /\ tun_str[j] # tun_str[k]
       /\ minor[tun_str[j]] + (k - j) <= minor[tun_str[k]]

(* Where the walk of tunopen stops, at place i, the first i - 1 streams have *)
(* the numbers below i - 1 and the others have larger ones.                  *)
LEMMA GapFound ==
  ASSUME TypeOK, Gaps, NEW i \in 1..(Len(tun_str) + 1), StopsAt(i)
  PROVE  /\ \A j \in 1..Len(tun_str) : j < i => minor[tun_str[j]] = j - 1
         /\ \A j \in 1..Len(tun_str) : j >= i => minor[tun_str[j]] >= j
<1> DEFINE m(j) == minor[tun_str[j]]
<1>1. Len(tun_str) \in Nat /\ \A j \in 1..Len(tun_str) : m(j) \in Nat
  BY DEF TypeOK
<1>2. \A j, k \in 1..Len(tun_str) : j < k => m(j) + (k - j) <= m(k)
  BY DEF Gaps
<1>3. \A j \in 1..(i - 1) : j - 1 >= m(j)
  BY DEF StopsAt
<1>4. i <= Len(tun_str) => i - 1 < m(i)
  BY DEF StopsAt
<1> HIDE DEF m
<1>5. ASSUME NEW j \in 1..Len(tun_str), j < i PROVE m(j) = j - 1
  <2>1. m(j) <= j - 1
    BY <1>1, <1>3, <1>5
  <2>2. m(j) >= j - 1
    <3>1. CASE j = 1
      BY <1>1, <3>1
    <3>2. CASE j > 1
      <4>1. 1 \in 1..Len(tun_str)
        BY <1>1
      <4>2. m(1) + (j - 1) <= m(j) /\ m(1) >= 0
        BY <1>1, <1>2, <3>2, <4>1
      <4>3. QED
        BY <1>1, <4>1, <4>2
    <3>3. QED
      BY <3>1, <3>2
  <2>3. QED
    BY <1>1, <2>1, <2>2
<1>6. ASSUME NEW j \in 1..Len(tun_str), j >= i PROVE m(j) >= j
  <2>1. i \in 1..Len(tun_str) /\ m(i) >= i
    BY <1>1, <1>4, <1>6
  <2>2. CASE j = i
    BY <2>1, <2>2
  <2>3. CASE j > i
    <3>1. m(i) + (j - i) <= m(j)
      BY <1>2, <2>1, <2>3
    <3>2. QED
      BY <1>1, <2>1, <3>1
  <2>4. QED
    BY <1>6, <2>1, <2>2, <2>3
<1>7. QED
  BY <1>5, <1>6 DEF m

LEMMA OpenGaps ==
  ASSUME TypeOK, Gaps, NEW s \in Streams, TunOpen(s)
  PROVE  /\ Gaps'
         /\ \A u \in opened : minor[u] # minor'[s]
         /\ \A n \in 0..(minor'[s] - 1) : \E u \in opened : minor[u] = n
<1> DEFINE N == Len(tun_str)
<1>1. PICK i \in 1..(N + 1) :
        /\ StopsAt(i)
        /\ minor' = [minor EXCEPT ![s] = i - 1]
        /\ tun_str' = InsertAt(tun_str, i, s)
  BY DEF TunOpen
<1>2. /\ \A j \in 1..N : j < i => minor[tun_str[j]] = j - 1
      /\ \A j \in 1..N : j >= i => minor[tun_str[j]] >= j
  BY <1>1, GapFound
<1>3. /\ N \in Nat /\ i \in Int
      /\ \A j \in 1..N : tun_str[j] \in Streams /\ tun_str[j] # s
      /\ \A j \in 1..N : minor[tun_str[j]] \in Nat
      /\ s \notin opened /\ opened' = opened \cup {s}
      /\ \A u \in opened : \E j \in 1..N : u = tun_str[j]
      /\ \A j \in 1..N : tun_str[j] \in opened
  BY DEF TypeOK, Gaps, TunOpen, ToSet
<1>4. /\ Len(tun_str') = N + 1
      /\ \A k \in 1..(N + 1) :
            tun_str'[k] = IF k < i THEN tun_str[k] ELSE IF k = i THEN s ELSE tun_str[k - 1]
      /\ tun_str' \in Seq(Streams)
  <2>1. tun_str \in Seq(Streams)
    BY DEF TypeOK
  <2>2. /\ InsertAt(tun_str, i, s) \in Seq(Streams)
        /\ Len(InsertAt(tun_str, i, s)) = N + 1
        /\ \A k \in 1..(N + 1) :
              InsertAt(tun_str, i, s)[k] =
                IF k < i THEN tun_str[k] ELSE IF k = i THEN s ELSE tun_str[k - 1]
    BY <2>1, Inserted
  <2>3. QED
    BY <1>1, <2>2, Zenon
<1>5. minor'[s] = i - 1 /\ \A u \in Streams \ {s} : minor'[u] = minor[u]
  BY <1>1 DEF TypeOK
<1>6. \A u \in opened : minor[u] # minor'[s]
  BY <1>2, <1>3, <1>5
<1>7. \A n \in 0..(minor'[s] - 1) : \E u \in opened : minor[u] = n
  <2> SUFFICES ASSUME NEW n \in 0..(i - 2) PROVE \E u \in opened : minor[u] = n
    BY <1>3, <1>5
  <2>1. n + 1 \in 1..N /\ n + 1 < i /\ (n + 1) - 1 = n
    BY <1>3
  <2>2. minor[tun_str[n + 1]] = n /\ tun_str[n + 1] \in opened
    BY <1>2, <1>3, <2>1
  <2>3. QED
    BY <2>2
<1>8. ToSet(tun_str') = opened'
  <2>1. ToSet(tun_str') = {tun_str'[k] : k \in 1..(N + 1)}
    BY <1>4 DEF ToSet
  <2>2. ASSUME NEW k \in 1..(N + 1) PROVE tun_str'[k] \in opened'
    <3>1. k < i => k \in 1..N
      BY <1>3
    <3>2. k > i => k - 1 \in 1..N
      BY <1>3
    <3>3. QED
      BY <1>3, <1>4, <3>1, <3>2
  <2>3. ASSUME NEW u \in opened PROVE \E k \in 1..(N + 1) : tun_str'[k] = u
    <3>1. PICK j \in 1..N : u = tun_str[j]
      BY <1>3
    <3>2. CASE j < i
      BY <1>3, <1>4, <3>1, <3>2
    <3>3. CASE j >= i
      <4>1. j + 1 \in 1..(N + 1) /\ j + 1 > i /\ (j + 1) - 1 = j
        BY <1>3, <3>3
      <4>2. tun_str'[j + 1] = tun_str[j]
        BY <1>3, <1>4, <4>1
      <4>3. QED
        BY <3>1, <4>1, <4>2
    <3>4. QED
      BY <1>3, <3>2, <3>3
  <2>4. tun_str'[i] = s
    BY <1>4
  <2>5. QED
    BY <1>3, <2>1, <2>2, <2>3, <2>4
<1>9. ASSUME NEW j \in 1..(N + 1), NEW k \in 1..(N + 1), j < k
      PROVE  /\ tun_str'[j] # tun_str'[k]
             /\ minor'[tun_str'[j]] + (k - j) <= minor'[tun_str'[k]]
  <2>1. \A a, b \in 1..N : a < b =>
          tun_str[a] # tun_str[b] /\ minor[tun_str[a]] + (b - a) <= minor[tun_str[b]]
    BY DEF Gaps
  <2>2. CASE k < i
    <3>1. j \in 1..N /\ k \in 1..N /\ j < i
      BY <1>3, <1>9, <2>2
    <3>2. tun_str'[j] = tun_str[j] /\ tun_str'[k] = tun_str[k]
      BY <1>4, <2>2, <3>1
    <3>3. /\ tun_str[j] # tun_str[k]
          /\ minor[tun_str[j]] + (k - j) <= minor[tun_str[k]]
      BY <1>9, <2>1, <3>1
    <3>4. minor'[tun_str[j]] = minor[tun_str[j]] /\ minor'[tun_str[k]] = minor[tun_str[k]]
      BY <1>3, <1>5, <3>1
    <3>5. QED
      BY <3>2, <3>3, <3>4
  <2>3. CASE k = i
    <3>1. j \in 1..N /\ j < i
      BY <1>3, <1>9, <2>3
    <3>2. tun_str'[j] = tun_str[j] /\ tun_str'[k] = s
      BY <1>3, <1>4, <1>9, <2>3, <3>1
    <3>3. minor'[tun_str[j]] = j - 1
      BY <1>2, <1>3, <1>5, <3>1
    <3>4. QED
      BY <1>3, <1>5, <2>3, <3>1, <3>2, <3>3
  <2>4. CASE j = i
    <3>1. k - 1 \in 1..N /\ k - 1 >= i /\ k > i
      BY <1>3, <1>9, <2>4
    <3>2. tun_str'[j] = s /\ tun_str'[k] = tun_str[k - 1]
      BY <1>3, <1>4, <2>4, <3>1
    <3>3. minor'[tun_str[k - 1]] >= k - 1 /\ minor'[tun_str[k - 1]] \in Nat
      BY <1>2, <1>3, <1>5, <3>1
    <3>4. QED
      BY <1>3, <1>5, <2>4, <3>1, <3>2, <3>3
  <2>5. CASE j < i /\ k > i
    <3>1. /\ j \in 1..N /\ k - 1 \in 1..N /\ k - 1 >= i
          /\ minor[tun_str[j]] = j - 1 /\ minor[tun_str[k - 1]] >= k - 1
          /\ j < k - 1
      BY <1>2, <1>3, <2>5
    <3>2. tun_str'[j] = tun_str[j] /\ tun_str'[k] = tun_str[k - 1]
      BY <1>3, <1>4, <2>5, <3>1
    <3>3. /\ tun_str[j] # tun_str[k - 1]
          /\ minor'[tun_str[j]] = j - 1
          /\ minor'[tun_str[k - 1]] >= k - 1 /\ minor'[tun_str[k - 1]] \in Nat
      BY <1>3, <1>5, <2>1, <3>1
    <3>4. QED
      BY <1>3, <3>2, <3>3
  <2>6. CASE j > i
    <3>1. j - 1 \in 1..N /\ k - 1 \in 1..N /\ j - 1 < k - 1 /\ (k - 1) - (j - 1) = k - j /\ k > i
      BY <1>3, <1>9, <2>6
    <3>2. tun_str'[j] = tun_str[j - 1] /\ tun_str'[k] = tun_str[k - 1]
      BY <1>3, <1>4, <2>6, <3>1
    <3>3. /\ tun_str[j - 1] # tun_str[k - 1]
          /\ minor[tun_str[j - 1]] + ((k - 1) - (j - 1)) <= minor[tun_str[k - 1]]
      BY <2>1, <3>1
    <3>4. /\ minor'[tun_str[j - 1]] = minor[tun_str[j - 1]]
          /\ minor'[tun_str[k - 1]] = minor[tun_str[k - 1]]
      BY <1>3, <1>5, <3>1
    <3>5. QED
      BY <3>1, <3>2, <3>3, <3>4
  <2>7. QED
    BY <1>3, <1>9, <2>2, <2>3, <2>4, <2>5, <2>6
<1>10. QED
  BY <1>4, <1>6, <1>7, <1>8, <1>9 DEF Gaps

LEMMA FreeGaps ==
  ASSUME TypeOK, Gaps, NEW s \in opened, FreeStream(s)
  PROVE  Gaps' /\ opened' \subseteq opened
<1> DEFINE N == Len(tun_str)
<1>1. PICK i \in 1..N : tun_str[i] = s /\ tun_str' = RemoveAt(tun_str, i)
  BY DEF FreeStream
<1>2. /\ N \in Nat /\ i \in Int
      /\ \A j \in 1..N : tun_str[j] \in Streams
      /\ \A j \in 1..N : minor[tun_str[j]] \in Nat
      /\ opened' = opened \ {s}
      /\ \A u \in opened : \E j \in 1..N : u = tun_str[j]
      /\ \A j \in 1..N : tun_str[j] \in opened
  BY DEF TypeOK, Gaps, FreeStream, ToSet
<1>3. /\ Len(tun_str') = N - 1
      /\ \A k \in 1..(N - 1) : tun_str'[k] = IF k < i THEN tun_str[k] ELSE tun_str[k + 1]
      /\ tun_str' \in Seq(Streams)
  BY <1>1, Removed DEF TypeOK
<1>4. \A u \in Streams \ {s} : minor'[u] = minor[u]
  BY DEF FreeStream, TypeOK
<1>5. \A a, b \in 1..N : a < b =>
        tun_str[a] # tun_str[b] /\ minor[tun_str[a]] + (b - a) <= minor[tun_str[b]]
  BY DEF Gaps
<1>6. \A j \in 1..N : j # i => tun_str[j] # s
  BY <1>1, <1>2, <1>5
<1>7. ToSet(tun_str') = opened'
  <2>1. ToSet(tun_str') = {tun_str'[k] : k \in 1..(N - 1)}
    BY <1>3 DEF ToSet
  <2>2. ASSUME NEW k \in 1..(N - 1) PROVE tun_str'[k] \in opened'
    <3>1. k \in 1..N /\ k + 1 \in 1..N
      BY <1>2
    <3>2. QED
      BY <1>2, <1>3, <1>6, <3>1
  <2>3. ASSUME NEW u \in opened \ {s} PROVE \E k \in 1..(N - 1) : tun_str'[k] = u
    <3>1. PICK j \in 1..N : u = tun_str[j] /\ j # i
      BY <1>1, <1>2
    <3>2. CASE j < i
      <4>1. j \in 1..(N - 1)
        BY <1>2, <3>2
      <4>2. tun_str'[j] = u
        BY <1>3, <3>1, <3>2, <4>1
      <4>3. QED
        BY <4>1, <4>2, Zenon
    <3>3. CASE j > i
      <4>1. j - 1 \in 1..(N - 1) /\ ~(j - 1 < i) /\ (j - 1) + 1 = j
        BY <1>2, <3>3
      <4>2. tun_str'[j - 1] = u
        BY <1>3, <3>1, <4>1
      <4>3. QED
        BY <4>1, <4>2, Zenon
    <3>4. i \in Int /\ j \in Int /\ j # i
      BY <1>2, <3>1
    <3>5. j < i \/ j > i
      BY <3>4
    <3>6. QED
      BY <3>2, <3>3, <3>5, Zenon
  <2>4. ToSet(tun_str') \subseteq opened'
    BY <2>1, <2>2
  <2>5. opened' \subseteq ToSet(tun_str')
    BY <1>2, <2>1, <2>3
  <2>6. QED
    BY <2>4, <2>5
<1>8. ASSUME NEW j \in 1..(N - 1), NEW k \in 1..(N - 1), j < k
      PROVE  /\ tun_str'[j] # tun_str'[k]
             /\ minor'[tun_str'[j]] + (k - j) <= minor'[tun_str'[k]]
  <2>1. j \in 1..N /\ k \in 1..N /\ j + 1 \in 1..N /\ k + 1 \in 1..N
    BY <1>2
  <2>2. \A a \in 1..N : a # i => minor'[tun_str[a]] = minor[tun_str[a]]
    BY <1>2, <1>4, <1>6
  <2>3. CASE k < i
    <3>1. j < i /\ j # i /\ k # i
      BY <1>2, <1>8, <2>3
    <3>2. tun_str'[j] = tun_str[j] /\ tun_str'[k] = tun_str[k]
      BY <1>3, <2>3, <3>1
    <3>3. QED
      BY <1>5, <1>8, <2>1, <2>2, <3>1, <3>2
  <2>4. CASE j < i /\ ~(k < i)
    <3>1. j < k + 1 /\ j # i /\ k + 1 # i
      BY <1>2, <1>8, <2>4
    <3>2. tun_str'[j] = tun_str[j] /\ tun_str'[k] = tun_str[k + 1]
      BY <1>3, <2>4
    <3>3. /\ tun_str[j] # tun_str[k + 1]
          /\ minor[tun_str[j]] + ((k + 1) - j) <= minor[tun_str[k + 1]]
          /\ minor[tun_str[j]] \in Nat /\ minor[tun_str[k + 1]] \in Nat
      BY <1>2, <1>5, <2>1, <3>1
    <3>4. /\ minor'[tun_str[j]] = minor[tun_str[j]]
          /\ minor'[tun_str[k + 1]] = minor[tun_str[k + 1]]
      BY <2>1, <2>2, <3>1
    <3>5. QED
      BY <1>2, <3>2, <3>3, <3>4
  <2>5. CASE ~(j < i)
    <3>1. ~(k < i) /\ j + 1 < k + 1 /\ j + 1 # i /\ k + 1 # i
      BY <1>2, <1>8, <2>5
    <3>2. tun_str'[j] = tun_str[j + 1] /\ tun_str'[k] = tun_str[k + 1]
      BY <1>3, <2>5, <3>1
    <3>3. /\ tun_str[j + 1] # tun_str[k + 1]
          /\ minor[tun_str[j + 1]] + ((k + 1) - (j + 1)) <= minor[tun_str[k + 1]]
          /\ (k + 1) - (j + 1) = k - j
      BY <1>2, <1>5, <2>1, <3>1
    <3>4. /\ minor'[tun_str[j + 1]] = minor[tun_str[j + 1]]
          /\ minor'[tun_str[k + 1]] = minor[tun_str[k + 1]]
      BY <2>1, <2>2, <3>1
    <3>5. QED
      BY <3>2, <3>3, <3>4
  <2>6. QED
    BY <2>3, <2>4, <2>5
<1>9. QED
  BY <1>2, <1>3, <1>7, <1>8 DEF Gaps

LEMMA StepGaps ==
  ASSUME TypeOK, Gaps, NEW s \in Streams, Step(s)
  PROVE  Gaps'
<1>1. CASE TunOpen(s)
  BY <1>1, OpenGaps
<1>2. CASE UNCHANGED <<opened, tun_str, minor>>
  BY <1>2 DEF Gaps
<1>3. CASE TunClose(s)
  BY <1>2, <1>3, FreeGaps
     DEF TunClose, CloseUnassigned, CloseControl, CloseProtocol, LostInList, streams
<1>4. CASE Serve(s)
  BY <1>2, <1>4 DEF Serve, TunNewPpa, TunSetPpa, TunRaw, AttachReq, DetachReq, Perform,
                    Refused, streams
<1>5. QED
  BY <1>1, <1>2, <1>3, <1>4
     DEF Step, Defer, BindReq, UnbindReq, PromisconReq, PromiscoffReq, streams

THEOREM GapInvariance == Spec => [](TypeOK /\ Gaps)
<1>1. Init => TypeOK /\ Gaps
  <2>1. Init => ToSet(tun_str) = opened
    BY DEF Init, ToSet
  <2>2. QED
    BY <2>1, InitIInv DEF Init, IInv, Gaps
<1>2. TypeOK /\ Gaps /\ [Next]_vars => (TypeOK /\ Gaps)'
  <2>1. Gaps /\ UNCHANGED vars => Gaps'
    BY DEF Gaps, vars, streams
  <2>2. QED
    BY <2>1, StepGaps, TypeStep, TypeStutter DEF Next
<1>3. QED
  BY <1>1, <1>2, PTL DEF Spec

(* The list of streams is sorted by minor number, whatever the clients do.  *)
THEOREM MinorsStayOrdered == Spec => []MinorsOrdered
<1>1. TypeOK /\ Gaps => MinorsOrdered
  <2> SUFFICES ASSUME TypeOK, Gaps PROVE MinorsOrdered
    OBVIOUS
  <2>1. /\ Len(tun_str) \in Nat
        /\ \A j \in 1..Len(tun_str) : minor[tun_str[j]] \in Nat
    BY DEF TypeOK
  <2>2. QED
    BY <2>1 DEF Gaps, MinorsOrdered
<1>2. QED
  BY <1>1, GapInvariance, PTL

(* tunopen gives a stream the least minor number that is free.              *)
THEOREM OpensTakeLeastMinor == Spec => LeastMinor
<1> DEFINE Least ==
      \A s \in opened' \ opened :
        /\ \A u \in opened : minor[u] # minor'[s]
        /\ \A n \in 0..(minor'[s] - 1) : \E u \in opened : minor[u] = n
<1>1. ASSUME TypeOK, Gaps, NEW s \in Streams, Step(s) PROVE Least
  <2>1. CASE TunOpen(s)
    <3>1. opened' \ opened = {s}
      BY <2>1 DEF TunOpen
    <3>2. QED
      BY <1>1, <2>1, <3>1, OpenGaps
  <2>2. CASE opened' \subseteq opened
    BY <2>2
  <2>3. CASE TunClose(s)
    BY <1>1, <2>2, <2>3, FreeGaps
       DEF TunClose, CloseUnassigned, CloseControl, CloseProtocol, LostInList
  <2>4. CASE Serve(s)
    BY <2>2, <2>4 DEF Serve, TunNewPpa, TunSetPpa, TunRaw, AttachReq, DetachReq, Perform,
                      Refused
  <2>5. QED
    BY <1>1, <2>1, <2>2, <2>3, <2>4
       DEF Step, Defer, BindReq, UnbindReq, PromisconReq, PromiscoffReq
<1>2. UNCHANGED vars => Least
  BY DEF vars
<1>3. TypeOK /\ Gaps /\ [Next]_vars => [Least]_vars
  BY <1>1, <1>2 DEF Next
<1>4. QED
  BY <1>3, GapInvariance, PTL DEF Spec, LeastMinor

-----------------------------------------------------------------------------
(* The lists implement TunPorts *)

Ctl == [i \in Ids |-> IF tun_ppa[i] = NULL THEN NULL ELSE rq[tun_ppa[i]]]

On == [s \in Streams |-> IF ppa[s] = NULL \/ "CONTROL" \in flags[s]
                         THEN NULL ELSE id[ppa[s]]]

(* What the mapping shows of a stream and of an interface. *)
LEMMA Mapping ==
  ASSUME IInv
  PROVE  /\ \A s \in Streams : On[s] \in Ids \cup {NULL}
         /\ \A s \in Streams : ppa[s] = NULL => On[s] = NULL /\ \A j \in Ids : Ctl[j] # s
         /\ \A s \in Streams : "CONTROL" \notin flags[s] => \A j \in Ids : Ctl[j] # s
         /\ \A i \in Ids : Ctl[i] = NULL <=> tun_ppa[i] = NULL
         /\ \A s \in Streams : On[s] # NULL <=> ppa[s] # NULL /\ "CONTROL" \notin flags[s]
<1>1. \A b \in Live : b \in Blocks /\ id[b] \in Ids /\ id[b] # NULL
  BY LiveBlocks, PpaAssumption, NullAssumption DEF IInv, TypeOK, Ids
<1>2. \A i \in Ids : tun_ppa[i] # NULL => tun_ppa[i] \in Live
  BY DEF Live
<1>3. \A b \in Live : /\ rq[b] \in Streams /\ rq[b] # NULL
                      /\ ppa[rq[b]] = b /\ b # NULL /\ "CONTROL" \in flags[rq[b]]
  BY <1>1, NullAssumption DEF IInv, TypeOK, Table, ControlLive, Live
<1>4. \A s \in Streams : ppa[s] # NULL => ppa[s] \in Live
  BY DEF IInv, Roles
<1>5. \A s \in Streams : On[s] \in Ids \cup {NULL}
  BY <1>1, <1>4 DEF On
<1>6. \A i \in Ids : Ctl[i] = NULL <=> tun_ppa[i] = NULL
  BY <1>2, <1>3 DEF Ctl
<1>7. \A s \in Streams : \A j \in Ids :
        Ctl[j] = s => ppa[s] # NULL /\ "CONTROL" \in flags[s]
  BY <1>2, <1>3, NullAssumption DEF Ctl
<1>8. \A s \in Streams : On[s] # NULL <=> ppa[s] # NULL /\ "CONTROL" \notin flags[s]
  BY <1>1, <1>4 DEF On
<1>9. QED
  BY <1>5, <1>6, <1>7, <1>8

LEMMA StutterMaps ==
  ASSUME IInv, UNCHANGED <<ppa, state, tun_ppa, id, rq>>,
         \A u \in Streams : "CONTROL" \in flags'[u] <=> "CONTROL" \in flags[u]
  PROVE  UNCHANGED Ports!vars
<1>1. Ctl' = Ctl
  BY DEF Ctl
<1>2. On' = On
  BY DEF On
<1>3. QED
  BY <1>1, <1>2 DEF Ports!vars, Ctl, On

LEMMA CreateMaps ==
  ASSUME IInv, ~AllocFails, NEW s \in Streams, TunNewPpa(s)
  PROVE  \E i \in Ids : Ports!Create(i, s)
<1>1. PICK i \in Ids, b \in Blocks \ Live :
        /\ tun_ppa[i] = NULL
        /\ tun_ppa' = [tun_ppa EXCEPT ![i] = b]
        /\ id' = [id EXCEPT ![b] = i]
        /\ rq' = [rq EXCEPT ![b] = s]
        /\ ppa' = [ppa EXCEPT ![s] = b]
        /\ flags' = [flags EXCEPT ![s] = @ \cup {"CONTROL"}]
  BY DEF TunNewPpa, MayTake, FreeIds
<1>2. ppa[s] = NULL /\ state' = state /\ b # NULL
  BY NullAssumption DEF TunNewPpa, Perform, Assigning, IInv, Roles
<1>3. On[s] = NULL /\ Ctl[i] = NULL /\ \A j \in Ids : Ctl[j] # s
  BY <1>1, <1>2, Mapping
<1>4. Ctl' = [Ctl EXCEPT ![i] = s]
  <2>1. ASSUME NEW j \in Ids PROVE Ctl'[j] = IF j = i THEN s ELSE Ctl[j]
    <3>1. CASE j = i
      BY <1>1, <1>2, <3>1 DEF Ctl, IInv, TypeOK
    <3>2. CASE j # i
      <4>1. tun_ppa'[j] = tun_ppa[j] /\ (tun_ppa[j] # NULL => tun_ppa[j] \in Live)
        BY <1>1, <3>2 DEF IInv, TypeOK, Live
      <4>2. tun_ppa[j] # NULL => rq'[tun_ppa[j]] = rq[tun_ppa[j]]
        BY <1>1, <4>1, LiveBlocks DEF IInv, TypeOK
      <4>3. QED
        BY <3>2, <4>1, <4>2 DEF Ctl
    <3>3. QED
      BY <3>1, <3>2
  <2>2. QED
    BY <2>1 DEF Ctl
<1>5. On' = On
  <2>1. ASSUME NEW u \in Streams PROVE On'[u] = On[u]
    <3>1. CASE u = s
      BY <1>1, <1>2, <3>1 DEF On, IInv, TypeOK
    <3>2. CASE u # s
      <4>1. /\ ppa'[u] = ppa[u] /\ flags'[u] = flags[u]
            /\ ppa[u] # NULL => ppa[u] \in Live
        BY <1>1, <3>2 DEF IInv, TypeOK, Roles
      <4>2. ppa[u] # NULL => id'[ppa[u]] = id[ppa[u]]
        BY <1>1, <4>1, LiveBlocks DEF IInv, TypeOK
      <4>3. QED
        BY <4>1, <4>2 DEF On
    <3>3. QED
      BY <3>1, <3>2
  <2>2. QED
    BY <2>1 DEF On
<1>6. QED
  BY <1>2, <1>3, <1>4, <1>5 DEF Ports!Create, Ctl, On

LEMMA JoinMaps ==
  ASSUME IInv, NEW s \in Streams, TunSetPpa(s) \/ AttachReq(s)
  PROVE  \E i \in Ids : Ports!Join(i, s)
<1> DEFINE i == deferred[s].p
           b == tun_ppa[i]
<1>1. /\ deferred[s] # NULL /\ deferred[s] \in Requests
      /\ deferred[s].kind \in {"TUNSETPPA", "ATTACH"}
  BY DEF TunSetPpa, AttachReq, Perform, IInv, TypeOK
<1>2. ppa[s] = NULL /\ "CONTROL" \notin flags[s] /\ i \in Ids
  BY <1>1, RequestKinds DEF IInv, Roles, Assigning
<1>3. /\ b # NULL
      /\ ppa' = [ppa EXCEPT ![s] = b]
      /\ state' = state \/ state' = [state EXCEPT ![s] = "UNBOUND"]
      /\ UNCHANGED <<flags, tun_ppa, id, rq>>
  BY DEF TunSetPpa, AttachReq
<1>4. id[b] = i
  BY <1>2, <1>3 DEF IInv, Table
<1> HIDE DEF i, b
<1>5. Ctl[i] # NULL /\ On[s] = NULL /\ \A j \in Ids : Ctl[j] # s
  BY <1>2, <1>3, Mapping DEF b
<1>6. Ctl' = Ctl
  BY <1>3 DEF Ctl
<1>7. On' = [On EXCEPT ![s] = i]
  BY <1>2, <1>3, <1>4 DEF On, IInv, TypeOK
<1>8. QED
  BY <1>2, <1>3, <1>5, <1>6, <1>7 DEF Ports!Join, Ctl, On

LEMMA LeaveMaps ==
  ASSUME IInv, NEW s \in Streams, DetachReq(s) \/ CloseProtocol(s)
  PROVE  Ports!Leave(s)
<1>1. ppa[s] # NULL /\ "CONTROL" \notin flags[s]
  BY Assigned DEF DetachReq, CloseProtocol, IInv, Roles
<1>2. /\ ppa' = [ppa EXCEPT ![s] = NULL]
      /\ state' = [state EXCEPT ![s] = "UNATTACHED"]
      /\ \A u \in Streams \ {s} : flags'[u] = flags[u]
      /\ UNCHANGED <<tun_ppa, id, rq>>
  BY <1>1, Assigned DEF DetachReq, CloseProtocol, FreeStream, IInv, TypeOK
<1>3. On[s] # NULL
  BY <1>1, Mapping
<1>4. Ctl' = Ctl
  BY <1>2 DEF Ctl
<1>5. On' = [On EXCEPT ![s] = NULL]
  <2>1. ASSUME NEW u \in Streams PROVE On'[u] = IF u = s THEN NULL ELSE On[u]
    BY <1>2 DEF On, IInv, TypeOK
  <2>2. QED
    BY <2>1 DEF On
<1>6. QED
  BY <1>2, <1>3, <1>4, <1>5 DEF Ports!Leave, Ctl, On

LEMMA BindMaps ==
  ASSUME IInv, NEW s \in Streams, (\E a \in Saps : BindReq(s, a)) \/ UnbindReq(s)
  PROVE  Ports!Bind(s) \/ Ports!Unbind(s)
<1>1. /\ UNCHANGED <<ppa, flags, tun_ppa, id, rq>>
      /\ \/ state[s] = "UNBOUND" /\ state' = [state EXCEPT ![s] = "IDLE"]
         \/ state[s] = "IDLE" /\ state' = [state EXCEPT ![s] = "UNBOUND"]
  BY DEF BindReq, UnbindReq, ppas
<1>2. On[s] # NULL
  BY <1>1, Mapping DEF IInv, Roles
<1>3. Ctl' = Ctl /\ On' = On
  BY <1>1 DEF Ctl, On
<1>4. QED
  BY <1>1, <1>2, <1>3 DEF Ports!Bind, Ports!Unbind, Ctl, On

LEMMA RemoveMaps ==
  ASSUME IInv, NEW s \in Streams, CloseControl(s)
  PROVE  \E i \in Ids : Ports!Remove(i)
<1> DEFINE b == ppa[s]
           i == id[b]
           gone == Members(b) \cup {s}
<1>1. /\ b # NULL /\ "CONTROL" \in flags[s]
      /\ b \in Live /\ b \in Blocks /\ List(b) = Members(b)
  BY Assigned DEF CloseControl, ListOK
<1>2. /\ flags' = [flags EXCEPT ![s] = {}]
      /\ state' = [u \in Streams |-> IF u \in gone THEN "UNATTACHED" ELSE state[u]]
      /\ ppa' = [u \in Streams |-> IF u \in gone THEN NULL ELSE ppa[u]]
      /\ tun_ppa' = [tun_ppa EXCEPT ![i] = NULL]
      /\ id' = [id EXCEPT ![b] = 0]
      /\ rq' = [rq EXCEPT ![b] = NULL]
  BY <1>1 DEF CloseControl, TurnedOut, FreePpa, FreeStream
<1>3. /\ i \in Ids /\ tun_ppa[i] = b
      /\ \A c \in Live : c \in Blocks /\ (id[c] = i <=> c = b)
      /\ \A j \in Ids : tun_ppa[j] = b => j = i
  BY <1>1, LiveIds, LiveBlocks DEF IInv
<1>4. Ctl[i] # NULL
  BY <1>1, <1>3, Mapping
<1> HIDE DEF gone, i
<1>5. Ctl' = [Ctl EXCEPT ![i] = NULL]
  <2>1. ASSUME NEW j \in Ids PROVE Ctl'[j] = IF j = i THEN NULL ELSE Ctl[j]
    <3>1. CASE j = i
      BY <1>2, <1>3, <3>1 DEF Ctl, IInv, TypeOK
    <3>2. CASE j # i
      <4>1. tun_ppa'[j] = tun_ppa[j] /\ tun_ppa[j] # b
        BY <1>2, <1>3, <3>2 DEF IInv, TypeOK
      <4>2. tun_ppa[j] # NULL => rq'[tun_ppa[j]] = rq[tun_ppa[j]]
        BY <1>2, <4>1 DEF IInv, TypeOK
      <4>3. QED
        BY <3>2, <4>1, <4>2 DEF Ctl
    <3>3. QED
      BY <3>1, <3>2
  <2>2. QED
    BY <2>1 DEF Ctl
<1>6. /\ \A u \in Streams : u \in gone <=> ppa[u] = b
      /\ \A u \in Streams : On[u] = i <=> u \in gone /\ u # s
  <2>1. \A u \in Streams : u \in gone <=> ppa[u] = b
    BY <1>1 DEF gone, Members, IInv, Roles
  <2>2. \A u \in Streams : ppa[u] = b /\ "CONTROL" \in flags[u] => u = s
    BY <1>1 DEF IInv, Roles
  <2>3. \A u \in Streams : ppa[u] \in Live \cup {NULL}
    BY DEF IInv, Roles
  <2>4. i # NULL
    BY <1>3, PpaAssumption, NullAssumption DEF Ids
  <2>5. ASSUME NEW u \in Streams PROVE On[u] = i <=> u \in gone /\ u # s
    BY <1>1, <1>3, <2>1, <2>2, <2>3, <2>4 DEF On
  <2>6. QED
    BY <2>1, <2>5
<1>7. On' = [u \in Streams |-> IF On[u] = i THEN NULL ELSE On[u]]
  <2>1. ASSUME NEW u \in Streams PROVE On'[u] = IF On[u] = i THEN NULL ELSE On[u]
    <3>1. CASE u = s
      <4>1. ppa'[u] = NULL /\ On[u] = NULL
        BY <1>1, <1>2, <1>6, <3>1, Mapping
      <4>2. QED
        BY <4>1 DEF On
    <3>2. CASE u # s /\ u \in gone
      BY <1>2, <1>6, <3>2 DEF On
    <3>3. CASE u \notin gone
      <4>1. /\ ppa'[u] = ppa[u] /\ ppa[u] # b /\ ppa[u] \in Live \cup {NULL}
            /\ flags'[u] = flags[u]
        BY <1>1, <1>2, <1>6, <3>3 DEF IInv, TypeOK, Roles
      <4>2. ppa[u] # NULL => id'[ppa[u]] = id[ppa[u]]
        BY <1>2, <1>3, <4>1 DEF IInv, TypeOK
      <4>3. QED
        BY <1>6, <3>3, <4>1, <4>2 DEF On
    <3>4. QED
      BY <3>1, <3>2, <3>3
  <2>2. QED
    BY <2>1 DEF On
<1>8. state' = [u \in Streams |-> IF On[u] = i THEN "UNATTACHED" ELSE state[u]]
  <2>1. state[s] = "UNATTACHED"
    BY <1>1 DEF IInv, Roles
  <2>2. ASSUME NEW u \in Streams
        PROVE  state'[u] = IF On[u] = i THEN "UNATTACHED" ELSE state[u]
    BY <1>2, <1>6, <2>1, <2>2
  <2>3. QED
    BY <1>2, <2>2
<1>9. QED
  BY <1>3, <1>4, <1>5, <1>7, <1>8 DEF Ports!Remove, Ctl, On

(* Every step of the driver is a step of TunPorts, or none. *)
LEMMA StepMaps ==
  ASSUME IInv, ~AllocFails, NEW s \in Streams, Step(s)
  PROVE  Ports!Next \/ UNCHANGED Ports!vars
<1>1. CASE TunOpen(s)
  BY <1>1, StutterMaps DEF TunOpen, ppas
<1>2. CASE TunClose(s)
  <2>1. CASE CloseUnassigned(s)
    <3>1. /\ ppa[s] = NULL /\ UNCHANGED <<ppa, tun_ppa, id, rq>>
          /\ state' = [state EXCEPT ![s] = "UNATTACHED"]
          /\ flags' = [flags EXCEPT ![s] = {}]
      BY <2>1 DEF CloseUnassigned, FreeStream, ppas
    <3>2. state[s] = "UNATTACHED" /\ "CONTROL" \notin flags[s]
      BY <3>1 DEF IInv, Roles
    <3>3. state' = state
      BY <3>1, <3>2 DEF IInv, TypeOK
    <3>4. \A u \in Streams : "CONTROL" \in flags'[u] <=> "CONTROL" \in flags[u]
      BY <3>1, <3>2 DEF IInv, TypeOK
    <3>5. QED
      BY <3>1, <3>3, <3>4, StutterMaps
  <2>2. CASE CloseControl(s)
    BY <2>2, RemoveMaps DEF Ports!Next
  <2>3. CASE CloseProtocol(s)
    BY <2>3, LeaveMaps DEF Ports!Next
  <2>4. QED
    BY <1>2, <2>1, <2>2, <2>3, NeverLost DEF TunClose
<1>3. CASE \E r \in Requests : Defer(s, r)
  BY <1>3, StutterMaps DEF Defer, streams, ppas
<1>4. CASE TunNewPpa(s)
  BY <1>4, CreateMaps DEF Ports!Next
<1>5. CASE TunSetPpa(s) \/ AttachReq(s)
  BY <1>5, JoinMaps DEF Ports!Next
<1>6. CASE DetachReq(s)
  BY <1>6, LeaveMaps DEF Ports!Next
<1>7. CASE TunRaw(s)
  <2>1. \A u \in Streams : "CONTROL" \in flags'[u] <=> "CONTROL" \in flags[u]
    BY <1>7 DEF TunRaw, IInv, TypeOK
  <2>2. QED
    BY <1>7, <2>1, StutterMaps DEF TunRaw, ppas
<1>8. CASE Refused(s)
  BY <1>8, StutterMaps DEF Refused, streams, ppas
<1>9. CASE (\E a \in Saps : BindReq(s, a)) \/ UnbindReq(s)
  BY <1>9, BindMaps DEF Ports!Next
<1>10. CASE \E m \in Modes \ {"RAW"} : PromisconReq(s, m) \/ PromiscoffReq(s, m)
  <2>1. PICK m \in Modes \ {"RAW"} : PromisconReq(s, m) \/ PromiscoffReq(s, m)
    BY <1>10
  <2>2. m # "CONTROL"
    BY ModeAssumption
  <2>3. \A u \in Streams : "CONTROL" \in flags'[u] <=> "CONTROL" \in flags[u]
    <3>1. CASE PromisconReq(s, m)
      BY <2>2, <3>1 DEF PromisconReq, IInv, TypeOK
    <3>2. CASE PromiscoffReq(s, m)
      BY <2>2, <3>2 DEF PromiscoffReq, IInv, TypeOK
    <3>3. QED
      BY <2>1, <3>1, <3>2
  <2>4. UNCHANGED <<ppa, state, ppas>>
    BY <2>1 DEF PromisconReq, PromiscoffReq
  <2>5. QED
    BY <2>3, <2>4, StutterMaps DEF ppas
<1>11. QED
  BY <1>1, <1>2, <1>3, <1>4, <1>5, <1>6, <1>7, <1>8, <1>9, <1>10 DEF Step, Serve

(* The driver implements TunPorts: an interface lives as long as its        *)
(* control stream, and takes with it the streams on it and no others.       *)
THEOREM Refinement ==
  ASSUME Orderly, ~AllocFails
  PROVE  Spec => RefinesPorts
<1>1. Init => Ports!Init
  <2> SUFFICES ASSUME Init PROVE Ports!Init
    OBVIOUS
  <2>1. Ctl = [i \in Ids |-> NULL]
    BY DEF Init, Ctl
  <2>2. On = [s \in Streams |-> NULL]
    BY DEF Init, On
  <2>3. QED
    BY <2>1, <2>2 DEF Init, Ports!Init, Ctl, On
<1>2. IInv /\ [Next]_vars => [Ports!Next]_(Ports!vars)
  <2>1. IInv /\ UNCHANGED vars => UNCHANGED Ports!vars
    BY StutterMaps DEF vars, streams, ppas
  <2>2. QED
    BY <2>1, StepMaps DEF Next
<1>3. QED
  BY <1>1, <1>2, Invariance, PTL DEF Spec, RefinesPorts, Ports!Spec

-----------------------------------------------------------------------------
(* Frames *)

(* What a message in a write queue asks for is what TunDriver offers.       *)
LEMMA DlpiKinds ==
  ASSUME NEW m \in Dlpi \ Requests
  PROVE  /\ m.kind \in {"BIND", "UNBIND", "PROMISCON", "PROMISCOFF"}
         /\ m.kind = "BIND" => m.p \in Saps
         /\ m.kind \in {"PROMISCON", "PROMISCOFF"} => m.mode \in Modes \ {"RAW"}
<1>1. m \notin {[kind |-> "ATTACH", p |-> p] : p \in Ids}
  BY DEF Requests
<1>2. CASE m \in {[kind |-> k, p |-> ANY] : k \in {"DETACH", "UNBIND"}}
  BY <1>2 DEF Requests
<1>3. CASE m \in {[kind |-> "BIND", p |-> a] : a \in Saps}
  BY <1>3
<1>4. CASE m \in {[kind |-> k, mode |-> o] : k \in {"PROMISCON", "PROMISCOFF"},
                                             o \in Modes \ {"RAW"}}
  BY <1>4
<1>5. QED
  BY <1>1, <1>2, <1>3, <1>4 DEF Dlpi

(* What tunwsrv does without waiting.                                       *)
LEMMA ServeNowMaps ==
  ASSUME NEW s \in Streams, ServeNow(s)
  PROVE  /\ Step(s) \/ UNCHANGED vars
         /\ UNCHANGED <<opened, ppa, rq, deferred>>
<1> DEFINE m == Head(wq[s])
<1>1. m \in Dlpi \ Requests
  BY DEF ServeNow, GetQ
<1>2. /\ m.kind \in {"BIND", "UNBIND", "PROMISCON", "PROMISCOFF"}
      /\ m.kind = "BIND" => m.p \in Saps
      /\ m.kind \in {"PROMISCON", "PROMISCOFF"} => m.mode \in Modes \ {"RAW"}
  BY <1>1, DlpiKinds
<1>3. CASE OutOfState(s, m)
  BY <1>3 DEF ServeNow, vars, ppas, streams
<1>4. CASE ~OutOfState(s, m)
  <2> USE DEF ppas
  <2>1. CASE m.kind = "BIND"
    BY <1>2, <1>4, <2>1 DEF ServeNow, Step, BindReq
  <2>2. CASE m.kind = "UNBIND"
    BY <1>4, <2>2 DEF ServeNow, Step, UnbindReq
  <2>3. CASE m.kind = "PROMISCON"
    BY <1>2, <1>4, <2>3 DEF ServeNow, Step, PromisconReq
  <2>4. CASE m.kind = "PROMISCOFF"
    BY <1>2, <1>4, <2>4 DEF ServeNow, Step, PromiscoffReq
  <2>5. QED
    BY <1>2, <2>1, <2>2, <2>3, <2>4
<1>5. QED
  BY <1>3, <1>4

LEMMA RouteStepMaps ==
  ASSUME NEW s \in Streams, RouteStep(s)
  PROVE  Step(s) \/ UNCHANGED vars
<1>1. CASE Open(s)
  BY <1>1 DEF Open, Step
<1>2. CASE Close(s)
  BY <1>2 DEF Close, Step
<1>3. CASE RunDeferred(s)
  BY <1>3 DEF RunDeferred, Step
<1>4. CASE PutData(s) \/ UnitdataReq(s) \/ PutFlush(s) \/ Take(s)
  BY <1>4 DEF PutData, UnitdataReq, PutFlush, Take
<1>5. CASE \E m \in Dlpi : PutDlpi(s, m)
  BY <1>5 DEF PutDlpi
<1>6. CASE \E r \in Requests \ Dlpi : PutIoctl(s, r)
  BY <1>6 DEF PutIoctl, Step
<1>7. CASE RunService(s)
  <2>1. CASE StartService(s) \/ EndService(s) \/ ServeData(s)
    BY <2>1 DEF StartService, EndService, ServeData
  <2>2. CASE ServeLater(s)
    BY <2>2 DEF ServeLater, GetQ, Step
  <2>3. CASE ServeNow(s)
    BY <2>3, ServeNowMaps
  <2>4. QED
    BY <1>7, <2>1, <2>2, <2>3 DEF RunService
<1>8. QED
  BY <1>1, <1>2, <1>3, <1>4, <1>5, <1>6, <1>7 DEF RouteStep

(* Frames, queues and service procedures do not disturb the control plane:  *)
(* the whole driver implements TunDriver.                                   *)
THEOREM ControlPlane == RouteSpec => Spec
<1>1. RouteInit => Init
  BY DEF RouteInit
<1>2. [RouteNext]_routeVars => [Next]_vars
  BY RouteStepMaps DEF RouteNext, Next, routeVars
<1>3. QED
  BY <1>1, <1>2, PTL DEF RouteSpec, Spec

(* While frames are routed, the lists tun_frame walks hold the streams of   *)
(* the interface and end, and the queue it sends them to is that of an open *)
(* control stream.                                                          *)
THEOREM RoutesAreSound ==
  ASSUME Orderly, ~AllocFails
  PROVE  RouteSpec => [](ListsExact /\ NoDanglingPpa /\ ControlLive)
<1>1. QED
  BY ControlPlane, ListsStayExact, PpasDoNotDangle, ControlStaysLive, PTL

-----------------------------------------------------------------------------
(* Frames stay on their interface                                          *)

(* What each kind of client asks for; it attaches a stream that is on no    *)
(* interface.                                                               *)
MayAsk(s, m) ==
  /\ m.kind = "TUNNEWPPA" => s \in Controls
  /\ m.kind = "TUNSETPPA" => s \in setters
  /\ m.kind \in {"ATTACH", "DETACH"} => s \notin Controls \cup setters
  /\ m.kind = "ATTACH" => ppa[s] = NULL

(* A request in a queue is the last message of it and the only one under    *)
(* way, so that it comes after every frame.                                 *)
InOrder(s) ==
  \A i \in 1..Len(wq[s]) : wq[s][i] \notin Data =>
    /\ i = Len(wq[s]) /\ s \in asked
    /\ deferred[s] = NULL /\ MayAsk(s, wq[s][i])

Pending(s) == deferred[s] # NULL => s \in asked /\ MayAsk(s, deferred[s])

Frameless(s) == \A i \in 1..Len(wq[s]) : wq[s][i] \notin Data

(* A stream about to join an interface brings no frame with it. *)
Clean(s) ==
  /\ ppa[s] = NULL
  /\ \/ s \in Controls \cup setters
     \/ deferred[s] # NULL /\ deferred[s].kind = "ATTACH"
  => Frameless(s)

(* A frame that waits on an assigned stream is of its interface. *)
Own(s) ==
  ppa[s] # NULL =>
    \A i \in 1..Len(wq[s]) : wq[s][i] \in Data => wq[s][i].via = rq[ppa[s]]

Fresh(s) == s \notin opened => wq[s] = <<>> /\ s \notin asked

StreamOK(s) == InOrder(s) /\ Pending(s) /\ Clean(s) /\ Own(s) /\ Fresh(s)

RouteTypes ==
  /\ wq \in [Streams -> Seq(Dlpi \cup Data)]
  /\ head \in [Streams -> SUBSET Data]
  /\ asked \subseteq Streams /\ setters \subseteq Streams
  /\ setters \cap Controls = {}

RouteInv == RouteTypes /\ \A s \in Streams : StreamOK(s)

-----------------------------------------------------------------------------
(* A request is not a frame. *)
LEMMA NoFrame == ASSUME NEW m \in Dlpi \cup Requests PROVE m \notin Data
<1>1. "kind" \in DOMAIN m
  BY DEF Dlpi, Requests
<1>2. m \in Data => DOMAIN m = {"frame", "type", "via"}
  BY DEF Data
<1>3. QED
  BY <1>1, <1>2

(* The requests that do not wait in the queue. *)
LEMMA IoctlKinds ==
  ASSUME NEW r \in Requests \ Dlpi
  PROVE  r.kind \notin {"ATTACH", "DETACH"}
<1>1. CASE r \in {[kind |-> "TUNNEWPPA", p |-> p] : p \in Ids \cup {ANY}}
  BY <1>1
<1>2. CASE r \in {[kind |-> k, p |-> p] : k \in {"TUNSETPPA", "ATTACH"}, p \in Ids}
  <2>1. PICK k \in {"TUNSETPPA", "ATTACH"}, p \in Ids : r = [kind |-> k, p |-> p]
    BY <1>2
  <2>2. k # "ATTACH"
    BY <2>1 DEF Dlpi
  <2>3. QED
    BY <2>1, <2>2
<1>3. CASE r \in {[kind |-> "DETACH", p |-> ANY]}
  BY <1>3 DEF Dlpi
<1>4. CASE r \in {[kind |-> "DLIOCRAW", p |-> ANY] : m \in Modes \cap {"RAW"}}
  BY <1>4
<1>5. QED
  BY <1>1, <1>2, <1>3, <1>4 DEF Requests

(* The places of a queue after each of the three ways it changes. *)
LEMMA TailPlaces ==
  ASSUME NEW M, NEW q \in Seq(M), q # <<>>
  PROVE  /\ Head(q) = q[1] /\ 1 \in 1..Len(q)
         /\ Tail(q) \in Seq(M) /\ Len(Tail(q)) = Len(q) - 1
         /\ \A i \in 1..Len(Tail(q)) : i + 1 \in 1..Len(q) /\ Tail(q)[i] = q[i + 1]
OBVIOUS

LEMMA AppendPlaces ==
  ASSUME NEW M, NEW q \in Seq(M), NEW m \in M
  PROVE  /\ Append(q, m) \in Seq(M) /\ Len(Append(q, m)) = Len(q) + 1
         /\ Append(q, m)[Len(q) + 1] = m
         /\ \A i \in 1..Len(q) : Append(q, m)[i] = q[i]
OBVIOUS

LEMMA FrontPlaces ==
  ASSUME NEW M, NEW q \in Seq(M), NEW m \in M
  PROVE  /\ <<m>> \o q \in Seq(M) /\ Len(<<m>> \o q) = Len(q) + 1
         /\ (<<m>> \o q)[1] = m
         /\ \A i \in 1..Len(<<m>> \o q) :
              i # 1 => i - 1 \in 1..Len(q) /\ (<<m>> \o q)[i] = q[i - 1]
OBVIOUS

(* A stream stays as it is when nothing of it changes. *)
LEMMA Untouched ==
  ASSUME NEW u, StreamOK(u),
         wq'[u] = wq[u], ppa'[u] = ppa[u], deferred'[u] = deferred[u],
         ppa[u] # NULL => rq'[ppa[u]] = rq[ppa[u]],
         u \in opened' <=> u \in opened, u \in asked' <=> u \in asked,
         u \in setters' <=> u \in setters
  PROVE  StreamOK(u)'
BY DEF StreamOK, InOrder, Pending, Clean, Frameless, Own, Fresh, MayAsk

(* Only the queue of s changes, and the control plane does not. *)
LEMMA QueueStep ==
  ASSUME RouteInv, NEW s \in Streams, NEW q \in Seq(Dlpi \cup Data), Queue(s, q),
         UNCHANGED <<opened, ppa, rq, deferred, setters>>,
         head' \in [Streams -> SUBSET Data], asked' \subseteq Streams,
         \A u \in Streams \ {s} : u \in asked' <=> u \in asked,
         StreamOK(s)'
  PROVE  RouteInv'
<1>1. wq'[s] = q /\ \A u \in Streams \ {s} : wq'[u] = wq[u]
  BY DEF Queue, RouteInv, RouteTypes
<1>2. RouteTypes'
  BY DEF Queue, RouteInv, RouteTypes
<1>3. \A u \in Streams \ {s} : StreamOK(u)'
  BY <1>1, Untouched DEF RouteInv
<1>4. QED
  BY <1>2, <1>3 DEF RouteInv

(* tun_frame: whom a frame goes to is of the interface of its sender, and a *)
(* frame is put back only when it has one.                                  *)
LEMMA FrameRoutes ==
  ASSUME IInv, NEW s \in Streams, NEW d, NEW mayQueue \in BOOLEAN, NEW rest,
         Frame(s, d, mayQueue, rest)
  PROVE  \E S \in SUBSET Streams :
           /\ PutNext(S, d)
           /\ \A u \in S : ppa[s] # NULL /\ Via(u) = Via(s)
           /\ \/ Queue(s, rest)
              \/ mayQueue /\ ppa[s] # NULL /\ Queue(s, <<d>> \o rest)
<1>1. CASE ppa[s] = NULL
  BY <1>1 DEF Frame
<1>2. CASE ppa[s] # NULL
  <2> DEFINE b == ppa[s]
  <2>1. /\ b \in Live /\ List(b) = Members(b)
        /\ rq[b] \in Streams /\ ppa[rq[b]] = b
    BY <1>2, Assigned DEF IInv, TypeOK, ListOK, Table, ControlLive
  <2>2. \A u \in List(b) \cup {rq[b]} : u \in Streams /\ Via(u) = Via(s)
    BY <1>2, <2>1 DEF Members, Via
  <2>3. CASE "CONTROL" \in flags[s]
    <3>1. PICK S \in SUBSET {u \in Sniffers(b) \cup BoundTo(b, d.type) : Room(u)} :
            PutNext(S, d) /\ Queue(s, rest)
      BY <1>2, <2>3 DEF Frame, FromControl
    <3>2. S \subseteq List(b)
      BY DEF Sniffers, BoundTo
    <3>3. QED
      BY <1>2, <2>2, <3>1, <3>2
  <2>4. CASE "CONTROL" \notin flags[s]
    <3>1. PICK S \in SUBSET {u \in Sniffers(b) : Room(u)} :
            IF Room(rq[b]) THEN PutNext(S \cup {rq[b]}, d) /\ Queue(s, rest)
            ELSE /\ PutNext(S, d)
                 /\ Queue(s, IF mayQueue THEN <<d>> \o rest ELSE rest)
      BY <1>2, <2>4 DEF Frame, FromProtocol
    <3>2. S \subseteq List(b) /\ S \cup {rq[b]} \subseteq List(b) \cup {rq[b]}
      BY DEF Sniffers
    <3>3. CASE Room(rq[b])
      <4>1. PutNext(S \cup {rq[b]}, d) /\ Queue(s, rest)
        BY <3>1, <3>3
      <4>2. S \cup {rq[b]} \in SUBSET Streams
        BY <2>2, <3>2
      <4>3. QED
        BY <1>2, <2>2, <3>2, <4>1, <4>2
    <3>4. CASE ~Room(rq[b])
      BY <1>2, <2>2, <3>1, <3>2, <3>4
    <3>5. QED
      BY <3>3, <3>4
  <2>5. QED
    BY <2>3, <2>4
<1>3. QED
  BY <1>1, <1>2

LEMMA PutDataStep ==
  ASSUME IInv, RouteInv, NEW s \in Streams, PutData(s)
  PROVE  RouteInv'
<1>1. PICK d \in Data : d.via = Via(s) /\ Frame(s, d, TRUE, wq[s])
  <2>1. PICK f \in Frames, a \in Saps :
          Frame(s, [frame |-> f, type |-> a, via |-> Via(s)], TRUE, wq[s])
    BY DEF PutData
  <2>2. Via(s) \in Streams \cup {NULL}
    BY DEF IInv, TypeOK, Via
  <2>3. QED
    BY <2>1, <2>2 DEF Data
<1>2. PICK S \in SUBSET Streams :
        /\ PutNext(S, d)
        /\ \/ Queue(s, wq[s])
           \/ ppa[s] # NULL /\ Queue(s, <<d>> \o wq[s])
  BY <1>1, FrameRoutes
<1>3. /\ UNCHANGED <<opened, ppa, rq, deferred, setters, asked>>
      /\ s \in opened
  BY DEF PutData, Idle, vars, streams, ppas, clients
<1>4. head' \in [Streams -> SUBSET Data]
  BY <1>2 DEF PutNext, RouteInv, RouteTypes
<1>5. StreamOK(s) /\ wq[s] \in Seq(Dlpi \cup Data) /\ asked \subseteq Streams
      /\ wq \in [Streams -> Seq(Dlpi \cup Data)]
  BY DEF RouteInv, RouteTypes
<1>6. CASE Queue(s, wq[s])
  <2>1. wq'[s] = wq[s]
    BY <1>5, <1>6 DEF Queue
  <2>2. StreamOK(s)'
    BY <1>3, <1>5, <2>1, Untouched
  <2>3. QED
    BY <1>3, <1>4, <1>5, <1>6, <2>2, QueueStep
<1>7. CASE ppa[s] # NULL /\ Queue(s, <<d>> \o wq[s])
  <2> DEFINE q == <<d>> \o wq[s]
  <2>1. /\ q \in Seq(Dlpi \cup Data) /\ Len(q) = Len(wq[s]) + 1 /\ q[1] = d
        /\ \A i \in 1..Len(q) :
             i # 1 => i - 1 \in 1..Len(wq[s]) /\ q[i] = wq[s][i - 1]
    BY <1>5, FrontPlaces
  <2> HIDE DEF q
  <2>2. wq'[s] = q
    BY <1>5, <1>7 DEF Queue, q
  <2>3. InOrder(s)'
    BY <1>3, <1>5, <2>1, <2>2 DEF StreamOK, InOrder, MayAsk
  <2>4. Own(s)' /\ Clean(s)'
    BY <1>1, <1>3, <1>5, <1>7, <2>1, <2>2 DEF StreamOK, Own, Clean, Via
  <2>5. Pending(s)' /\ Fresh(s)'
    BY <1>3, <1>5 DEF StreamOK, Pending, Fresh, MayAsk
  <2>6. QED
    BY <1>3, <1>4, <1>5, <1>7, <2>1, <2>3, <2>4, <2>5, QueueStep DEF StreamOK, q
<1>8. QED
  BY <1>2, <1>6, <1>7

LEMMA PutDlpiStep ==
  ASSUME RouteInv, NEW s \in Streams, NEW m \in Dlpi, PutDlpi(s, m)
  PROVE  RouteInv'
<1> DEFINE q == Append(wq[s], m)
<1>1. /\ s \notin asked /\ s \in opened /\ MayAsk(s, m) /\ Queue(s, q)
      /\ asked' = asked \cup {s}
      /\ UNCHANGED <<opened, ppa, rq, deferred, setters, head>>
  BY DEF PutDlpi, Idle, Ask, MayAsk, vars, streams, ppas
<1>2. StreamOK(s) /\ wq[s] \in Seq(Dlpi \cup Data)
      /\ wq \in [Streams -> Seq(Dlpi \cup Data)]
  BY DEF RouteInv, RouteTypes
<1>3. /\ q \in Seq(Dlpi \cup Data) /\ Len(q) = Len(wq[s]) + 1
      /\ q[Len(wq[s]) + 1] = m /\ \A i \in 1..Len(wq[s]) : q[i] = wq[s][i]
  BY <1>2, AppendPlaces
<1> HIDE DEF q
<1>4. wq'[s] = q /\ m \notin Data /\ Len(wq[s]) \in Nat
  BY <1>1, <1>2, NoFrame DEF Queue
<1>5. deferred[s] = NULL /\ \A i \in 1..Len(wq[s]) : wq[s][i] \in Data
  BY <1>1, <1>2 DEF StreamOK, Pending, InOrder
<1>6. \A i \in 1..Len(q) : i = Len(wq[s]) + 1 \/ i \in 1..Len(wq[s])
  BY <1>3, <1>4
<1>7. InOrder(s)'
  BY <1>1, <1>3, <1>4, <1>5, <1>6 DEF InOrder, MayAsk
<1>8. Pending(s)' /\ Fresh(s)'
  BY <1>1, <1>5 DEF Pending, Fresh
<1>9. Clean(s)'
  BY <1>1, <1>2, <1>3, <1>4, <1>5, <1>6 DEF StreamOK, Clean, Frameless
<1>10. Own(s)'
  BY <1>1, <1>2, <1>3, <1>4, <1>6 DEF StreamOK, Own
<1>11. QED
  BY <1>1, <1>3, <1>7, <1>8, <1>9, <1>10, QueueStep DEF StreamOK, RouteInv, RouteTypes

(* Only what concerns s changes. *)
LEMMA OneStream ==
  ASSUME RouteInv, NEW s \in Streams, RouteTypes', StreamOK(s)',
         \A u \in Streams \ {s} :
           /\ wq'[u] = wq[u] /\ ppa'[u] = ppa[u] /\ deferred'[u] = deferred[u]
           /\ ppa[u] # NULL => rq'[ppa[u]] = rq[ppa[u]]
           /\ u \in opened' <=> u \in opened
           /\ u \in asked' <=> u \in asked
           /\ u \in setters' <=> u \in setters
  PROVE  RouteInv'
BY Untouched DEF RouteInv

LEMMA PutIoctlStep ==
  ASSUME IInv, RouteInv, NEW s \in Streams, NEW r \in Requests \ Dlpi, PutIoctl(s, r)
  PROVE  RouteInv'
<1>1. /\ s \notin asked /\ s \in opened /\ MayAsk(s, r)
      /\ asked' = asked \cup {s} /\ deferred' = [deferred EXCEPT ![s] = r]
      /\ UNCHANGED <<opened, ppa, rq, setters, wq, head>>
  BY DEF PutIoctl, Defer, Ask, MayAsk, streams, ppas, queues
<1>2. /\ StreamOK(s) /\ RouteTypes' /\ r.kind # "ATTACH"
      /\ deferred'[s] = r /\ \A u \in Streams \ {s} : deferred'[u] = deferred[u]
  BY <1>1, IoctlKinds DEF RouteInv, RouteTypes, IInv, TypeOK
<1>3. Frameless(s) \/ ~(ppa[s] = NULL /\ s \in Controls \cup setters)
  BY <1>2 DEF StreamOK, Clean
<1>4. InOrder(s)' /\ Pending(s)' /\ Own(s)' /\ Fresh(s)'
  BY <1>1, <1>2 DEF StreamOK, InOrder, Pending, Own, Fresh, MayAsk
<1>5. Clean(s)'
  BY <1>1, <1>2, <1>3 DEF Clean, Frameless
<1>6. QED
  BY <1>1, <1>2, <1>4, <1>5, OneStream DEF StreamOK

(* A queue that is emptied. *)
LEMMA EmptyQueue ==
  ASSUME RouteInv, NEW s \in Streams, Queue(s, <<>>),
         UNCHANGED <<opened, ppa, rq, deferred, setters, head>>,
         \/ asked' = asked
         \/ asked' = asked \ {s} /\ deferred[s] = NULL
  PROVE  RouteInv'
<1>1. wq'[s] = <<>> /\ StreamOK(s) /\ <<>> \in Seq(Dlpi \cup Data)
  BY DEF Queue, RouteInv, RouteTypes
<1>2. StreamOK(s)'
  BY <1>1 DEF StreamOK, InOrder, Pending, Clean, Frameless, Own, Fresh, MayAsk
<1>3. QED
  BY <1>1, <1>2, QueueStep DEF RouteInv, RouteTypes

LEMMA ServeDataStep ==
  ASSUME IInv, RouteInv, NEW s \in Streams, ServeData(s)
  PROVE  RouteInv'
<1> DEFINE q == Tail(wq[s])
<1>1. /\ wq[s] # <<>> /\ Head(wq[s]) \in Data
      /\ Frame(s, Head(wq[s]), FALSE, q)
      /\ UNCHANGED <<opened, ppa, rq, deferred, setters, asked>>
  BY DEF ServeData, GetQ, vars, streams, ppas, clients
<1>2. PICK S \in SUBSET Streams : PutNext(S, Head(wq[s])) /\ Queue(s, q)
  BY <1>1, FrameRoutes
<1>3. /\ StreamOK(s) /\ wq[s] \in Seq(Dlpi \cup Data)
      /\ wq \in [Streams -> Seq(Dlpi \cup Data)] /\ asked \subseteq Streams
      /\ head' \in [Streams -> SUBSET Data]
  BY <1>1, <1>2 DEF RouteInv, RouteTypes, PutNext
<1>4. /\ wq[s][1] \in Data /\ 1 \in 1..Len(wq[s])
      /\ q \in Seq(Dlpi \cup Data) /\ Len(q) = Len(wq[s]) - 1
      /\ \A i \in 1..Len(q) : i + 1 \in 1..Len(wq[s]) /\ q[i] = wq[s][i + 1]
  BY <1>1, <1>3, TailPlaces
<1> HIDE DEF q
<1>5. wq'[s] = q
  BY <1>2, <1>3 DEF Queue
<1>6. InOrder(s)'
  BY <1>1, <1>3, <1>4, <1>5 DEF StreamOK, InOrder, MayAsk
<1>7. Own(s)'
  <2>1. ppa[s] # NULL =>
          \A i \in 1..Len(wq[s]) : wq[s][i] \in Data => wq[s][i].via = rq[ppa[s]]
    BY <1>3 DEF StreamOK, Own
  <2>2. ASSUME ppa[s] # NULL, NEW i \in 1..Len(q), q[i] \in Data
        PROVE  q[i].via = rq[ppa[s]]
    <3>1. i + 1 \in 1..Len(wq[s]) /\ q[i] = wq[s][i + 1]
      BY <1>4
    <3>2. wq[s][i + 1] \in Data
      BY <2>2, <3>1
    <3>3. wq[s][i + 1].via = rq[ppa[s]]
      BY <2>1, <2>2, <3>1, <3>2
    <3>4. QED
      BY <3>1, <3>3
  <2>3. QED
    BY <1>1, <1>5, <2>2 DEF Own
<1>8. Clean(s)'
  BY <1>1, <1>3, <1>4 DEF StreamOK, Clean, Frameless
<1>9. Pending(s)' /\ Fresh(s)'
  BY <1>1, <1>3 DEF StreamOK, Pending, Fresh, MayAsk
<1>10. QED
  BY <1>1, <1>2, <1>3, <1>4, <1>6, <1>7, <1>8, <1>9, QueueStep DEF StreamOK

(* A request at the head of a queue is all there is in it. *)
LEMMA RequestAlone ==
  ASSUME RouteInv, NEW s \in Streams, NEW S \in SUBSET (Dlpi \cup Requests), GetQ(s, S)
  PROVE  /\ Tail(wq[s]) = <<>>
         /\ s \in asked /\ s \in opened /\ deferred[s] = NULL
         /\ MayAsk(s, Head(wq[s]))
<1>1. StreamOK(s) /\ wq[s] \in Seq(Dlpi \cup Data) /\ wq[s] # <<>>
      /\ Head(wq[s]) \in S
  BY DEF RouteInv, RouteTypes, GetQ
<1>2. /\ Head(wq[s]) = wq[s][1] /\ 1 \in 1..Len(wq[s])
      /\ Tail(wq[s]) \in Seq(Dlpi \cup Data) /\ Len(Tail(wq[s])) = Len(wq[s]) - 1
  BY <1>1, TailPlaces
<1>3. wq[s][1] \notin Data
  BY <1>1, <1>2, NoFrame
<1>4. 1 = Len(wq[s]) /\ s \in asked /\ deferred[s] = NULL /\ MayAsk(s, wq[s][1])
  BY <1>1, <1>2, <1>3 DEF StreamOK, InOrder
<1>5. Tail(wq[s]) = <<>>
  <2>1. ASSUME NEW q \in Seq(Dlpi \cup Data), Len(q) = 0 PROVE q = <<>>
    BY <2>1
  <2>2. Len(Tail(wq[s])) = 0
    BY <1>2, <1>4
  <2>3. QED
    BY <1>2, <2>1, <2>2
<1>6. s \in opened
  BY <1>1 DEF StreamOK, Fresh
<1>7. QED
  BY <1>2, <1>4, <1>5, <1>6

LEMMA ServeLaterStep ==
  ASSUME IInv, RouteInv, NEW s \in Streams, ServeLater(s)
  PROVE  RouteInv'
<1> DEFINE m == Head(wq[s])
<1>1. /\ Tail(wq[s]) = <<>> /\ s \in asked /\ s \in opened /\ MayAsk(s, m)
  BY RequestAlone DEF ServeLater
<1> HIDE DEF m
<1>2. /\ deferred' = [deferred EXCEPT ![s] = m] /\ wq' = [wq EXCEPT ![s] = <<>>]
      /\ UNCHANGED <<opened, ppa, rq, setters, asked, head>>
  BY <1>1 DEF ServeLater, Defer, Queue, streams, ppas, clients, m
<1>3. /\ wq'[s] = <<>> /\ deferred'[s] = m
      /\ \A u \in Streams \ {s} : wq'[u] = wq[u] /\ deferred'[u] = deferred[u]
      /\ RouteTypes'
  <2>1. <<>> \in Seq(Dlpi \cup Data)
    OBVIOUS
  <2>2. QED
    BY <1>2, <2>1 DEF RouteInv, RouteTypes, IInv, TypeOK
<1>4. StreamOK(s)'
  BY <1>1, <1>2, <1>3 DEF StreamOK, InOrder, Pending, Clean, Frameless, Own, Fresh, MayAsk
<1>5. QED
  BY <1>2, <1>3, <1>4, OneStream

LEMMA ServeNowStep ==
  ASSUME RouteInv, NEW s \in Streams, ServeNow(s)
  PROVE  RouteInv'
<1>1. Tail(wq[s]) = <<>> /\ deferred[s] = NULL
  <2>1. GetQ(s, Dlpi \ Requests)
    BY DEF ServeNow
  <2>2. Dlpi \ Requests \in SUBSET (Dlpi \cup Requests)
    OBVIOUS
  <2>3. QED
    BY <2>1, <2>2, RequestAlone
<1>2. /\ Queue(s, <<>>) /\ asked' = asked \ {s}
      /\ UNCHANGED <<opened, ppa, rq, deferred, setters, head>>
  BY <1>1, ServeNowMaps DEF ServeNow
<1>3. QED
  BY <1>1, <1>2, EmptyQueue

LEMMA RouteOpenStep ==
  ASSUME IInv, RouteInv, NEW s \in Streams, Open(s)
  PROVE  RouteInv'
<1>1. /\ s \notin opened /\ opened' = opened \cup {s}
      /\ UNCHANGED <<ppa, rq, deferred, wq, head, asked>>
      /\ \/ setters' = setters \ {s}
         \/ s \notin Controls /\ setters' = setters \cup {s}
  BY DEF Open, TunOpen, ppas, queues
<1>2. /\ StreamOK(s) /\ wq[s] = <<>> /\ s \notin asked
      /\ ppa[s] = NULL /\ deferred[s] = NULL
  BY <1>1 DEF RouteInv, StreamOK, Fresh, IInv, Roles
<1>3. RouteTypes'
  BY <1>1 DEF RouteInv, RouteTypes
<1>4. StreamOK(s)'
  BY <1>1, <1>2 DEF StreamOK, InOrder, Pending, Clean, Frameless, Own, Fresh
<1>5. QED
  BY <1>1, <1>3, <1>4, OneStream

(* The streams tunclose takes from an interface, and those it leaves on one. *)
LEMMA CloseFacts ==
  ASSUME IInv, NEW s \in Streams, TunClose(s)
  PROVE  /\ opened' = opened \ {s} /\ ppa'[s] = NULL
         /\ deferred' = [deferred EXCEPT ![s] = NULL]
         /\ \A u \in Streams \ {s} :
              IF u \in Flushed(s) THEN ppa'[u] = NULL
              ELSE ppa'[u] = ppa[u] /\ (ppa[u] # NULL => rq'[ppa[u]] = rq[ppa[u]])
<1>1. CASE CloseUnassigned(s)
  BY <1>1 DEF CloseUnassigned, FreeStream, Flushed, ppas
<1>2. CASE CloseControl(s)
  <2> DEFINE b == ppa[s]
  <2>1. /\ b # NULL /\ "CONTROL" \in flags[s] /\ b \in Blocks
        /\ List(b) = Members(b)
    BY <1>2, Assigned DEF CloseControl, ListOK
  <2>2. /\ opened' = opened \ {s} /\ deferred' = [deferred EXCEPT ![s] = NULL]
        /\ ppa' = [u \in Streams |-> IF u \in List(b) \cup {s} THEN NULL ELSE ppa[u]]
        /\ rq' = [rq EXCEPT ![b] = NULL]
    BY <1>2 DEF CloseControl, FreeStream, FreePpa, TurnedOut
  <2>3. Flushed(s) = {s} \cup List(b)
    BY <2>1 DEF Flushed
  <2>4. \A u \in Streams : ppa[u] = b => u \in Flushed(s)
    BY <2>1, <2>3 DEF Members, IInv, Roles
  <2>5. \A c \in Blocks \ {b} : rq'[c] = rq[c]
    BY <2>2 DEF IInv, TypeOK
  <2> HIDE DEF b
  <2>6. \A u \in Streams \ {s} :
          IF u \in Flushed(s) THEN ppa'[u] = NULL
          ELSE ppa'[u] = ppa[u] /\ (ppa[u] # NULL => rq'[ppa[u]] = rq[ppa[u]])
    BY <2>2, <2>3, <2>4, <2>5 DEF IInv, TypeOK
  <2>7. QED
    BY <2>2, <2>6
<1>3. CASE CloseProtocol(s)
  BY <1>3 DEF CloseProtocol, FreeStream, Flushed, IInv, TypeOK
<1>4. QED
  BY <1>1, <1>2, <1>3, NeverLost DEF TunClose

LEMMA RouteCloseStep ==
  ASSUME IInv, RouteInv, NEW s \in Streams, Close(s)
  PROVE  RouteInv'
<1>1. /\ opened' = opened \ {s} /\ ppa'[s] = NULL
      /\ deferred' = [deferred EXCEPT ![s] = NULL]
      /\ \A u \in Streams \ {s} :
           IF u \in Flushed(s) THEN ppa'[u] = NULL
           ELSE ppa'[u] = ppa[u] /\ (ppa[u] # NULL => rq'[ppa[u]] = rq[ppa[u]])
  BY CloseFacts DEF Close
<1>2. /\ wq' = [u \in Streams |-> IF u \in Flushed(s) THEN <<>> ELSE wq[u]]
      /\ head' = [head EXCEPT ![s] = {}]
      /\ asked' = asked \ {s} /\ setters' = setters
      /\ s \in Flushed(s)
  BY DEF Close, Flushed
<1>3. RouteTypes'
  <2>1. <<>> \in Seq(Dlpi \cup Data)
    OBVIOUS
  <2>2. QED
    BY <1>2, <2>1 DEF RouteInv, RouteTypes
<1>4. deferred'[s] = NULL /\ \A u \in Streams \ {s} : deferred'[u] = deferred[u]
  BY <1>1 DEF IInv, TypeOK
<1>5. StreamOK(s)'
  BY <1>1, <1>2, <1>4 DEF StreamOK, InOrder, Pending, Clean, Frameless, Own, Fresh
<1>6. ASSUME NEW u \in Streams \ {s}, u \notin Flushed(s) PROVE StreamOK(u)'
  BY <1>1, <1>2, <1>4, <1>6, Untouched DEF RouteInv
<1>7. ASSUME NEW u \in Streams \ {s}, u \in Flushed(s) PROVE StreamOK(u)'
  <2>1. wq'[u] = <<>> /\ ppa'[u] = NULL /\ deferred'[u] = deferred[u] /\ StreamOK(u)
        /\ (u \in asked' <=> u \in asked) /\ (u \in opened' <=> u \in opened)
    BY <1>1, <1>2, <1>4, <1>7 DEF RouteInv
  <2>2. InOrder(u)' /\ Clean(u)' /\ Own(u)' /\ Fresh(u)'
    BY <2>1 DEF StreamOK, InOrder, Clean, Frameless, Own, Fresh
  <2>3. Pending(u)'
    BY <1>2, <2>1 DEF StreamOK, Pending, MayAsk
  <2>4. QED
    BY <2>2, <2>3 DEF StreamOK
<1>8. QED
  BY <1>3, <1>5, <1>6, <1>7 DEF RouteInv

(* A stream joins an interface without frames in its queue, and leaves one  *)
(* only if it may be attached to the next.                                  *)
LEMMA ServeFacts ==
  ASSUME IInv, RouteInv, ~AllocFails, NEW s \in Streams, Serve(s)
  PROVE  /\ deferred[s] # NULL /\ deferred' = [deferred EXCEPT ![s] = NULL]
         /\ opened' = opened
         /\ \A u \in Streams \ {s} : ppa'[u] = ppa[u]
         /\ \A u \in Streams : ppa[u] # NULL => rq'[ppa[u]] = rq[ppa[u]]
         /\ \/ ppa'[s] = ppa[s]
            \/ ppa'[s] = NULL /\ s \notin Controls \cup setters
            \/ ppa'[s] # NULL /\ Frameless(s)
<1>1. StreamOK(s) /\ TypeOK /\ Roles /\ Live \subseteq Blocks
  BY LiveBlocks DEF RouteInv, IInv
<1>2. deferred[s] # NULL => MayAsk(s, deferred[s])
  BY <1>1 DEF StreamOK, Pending
<1>3. CASE TunNewPpa(s)
  <2>1. PICK b \in Blocks \ Live :
          rq' = [rq EXCEPT ![b] = s] /\ ppa' = [ppa EXCEPT ![s] = b]
    BY <1>3 DEF TunNewPpa
  <2>2. /\ deferred[s] # NULL /\ deferred[s].kind = "TUNNEWPPA"
        /\ deferred' = [deferred EXCEPT ![s] = NULL] /\ opened' = opened
    BY <1>3 DEF TunNewPpa, Perform
  <2>3. ppa[s] = NULL /\ s \in Controls
    BY <1>1, <1>2, <2>2 DEF Roles, Assigning, MayAsk
  <2>4. Frameless(s)
    BY <1>1, <2>3 DEF StreamOK, Clean
  <2>5. \A u \in Streams : ppa[u] # NULL => ppa[u] \in Live
    BY <1>1 DEF Roles
  <2>6. \A u \in Streams : ppa[u] # NULL => rq'[ppa[u]] = rq[ppa[u]]
    BY <1>1, <2>1, <2>5 DEF TypeOK
  <2>7. \A u \in Streams \ {s} : ppa'[u] = ppa[u]
    BY <1>1, <2>1 DEF TypeOK
  <2>8. ppa'[s] # NULL
    BY <1>1, <2>1, NullAssumption DEF TypeOK
  <2>9. QED
    BY <2>2, <2>4, <2>6, <2>7, <2>8
<1>4. CASE TunSetPpa(s) \/ AttachReq(s)
  <2>1. /\ deferred[s] # NULL /\ deferred[s].kind \in {"TUNSETPPA", "ATTACH"}
        /\ deferred' = [deferred EXCEPT ![s] = NULL]
        /\ UNCHANGED <<opened, rq>>
        /\ ppa' = [ppa EXCEPT ![s] = tun_ppa[deferred[s].p]]
        /\ tun_ppa[deferred[s].p] # NULL
    BY <1>4 DEF TunSetPpa, AttachReq, Perform
  <2>2. ppa[s] = NULL /\ (s \in setters \/ deferred[s].kind = "ATTACH")
    BY <1>1, <1>2, <2>1 DEF Roles, Assigning, MayAsk
  <2>3. Frameless(s)
    BY <1>1, <2>1, <2>2 DEF StreamOK, Clean
  <2>4. ppa'[s] # NULL /\ \A u \in Streams \ {s} : ppa'[u] = ppa[u]
    BY <1>1, <2>1 DEF TypeOK
  <2>5. QED
    BY <2>1, <2>3, <2>4
<1>5. CASE DetachReq(s)
  <2>1. /\ deferred[s] # NULL /\ deferred[s].kind = "DETACH"
        /\ deferred' = [deferred EXCEPT ![s] = NULL]
        /\ UNCHANGED <<opened, rq>>
        /\ ppa' = [ppa EXCEPT ![s] = NULL] \/ ppa' = ppa
    BY <1>5 DEF DetachReq, Perform
  <2>2. s \notin Controls \cup setters
    BY <1>2, <2>1 DEF MayAsk
  <2>3. QED
    BY <1>1, <2>1, <2>2 DEF TypeOK
<1>6. CASE TunRaw(s) \/ Refused(s)
  BY <1>6 DEF TunRaw, Refused, Perform, ppas, streams
<1>7. QED
  BY <1>3, <1>4, <1>5, <1>6 DEF Serve

LEMMA RunDeferredStep ==
  ASSUME IInv, RouteInv, ~AllocFails, NEW s \in Streams, RunDeferred(s)
  PROVE  RouteInv'
<1>1. /\ deferred[s] # NULL /\ deferred' = [deferred EXCEPT ![s] = NULL]
      /\ opened' = opened
      /\ \A u \in Streams \ {s} : ppa'[u] = ppa[u]
      /\ \A u \in Streams : ppa[u] # NULL => rq'[ppa[u]] = rq[ppa[u]]
      /\ \/ ppa'[s] = ppa[s]
         \/ ppa'[s] = NULL /\ s \notin Controls \cup setters
         \/ ppa'[s] # NULL /\ Frameless(s)
  BY ServeFacts DEF RunDeferred
<1>2. /\ asked' = asked \ {s} /\ UNCHANGED <<setters, wq, head>>
  BY DEF RunDeferred, queues
<1>3. /\ StreamOK(s) /\ s \in opened /\ deferred'[s] = NULL
      /\ \A u \in Streams \ {s} : deferred'[u] = deferred[u]
  BY <1>1 DEF RouteInv, IInv, Roles, TypeOK
<1>4. RouteTypes'
  BY <1>2 DEF RouteInv, RouteTypes
<1>5. \A i \in 1..Len(wq[s]) : wq[s][i] \in Data
  BY <1>1, <1>3 DEF StreamOK, InOrder
<1>6. InOrder(s)' /\ Pending(s)' /\ Fresh(s)'
  BY <1>1, <1>2, <1>3, <1>5 DEF InOrder, Pending, Fresh
<1>7. Clean(s)' /\ Own(s)'
  <2>1. Clean(s) /\ Own(s) /\ UNCHANGED setters /\ wq'[s] = wq[s]
        /\ (ppa[s] # NULL => rq'[ppa[s]] = rq[ppa[s]])
    BY <1>1, <1>2, <1>3 DEF StreamOK
  <2>2. CASE ppa'[s] = ppa[s]
    BY <1>3, <2>1, <2>2 DEF Clean, Frameless, Own
  <2>3. CASE ppa'[s] = NULL /\ s \notin Controls \cup setters
    BY <1>3, <2>1, <2>3 DEF Clean, Own
  <2>4. CASE ppa'[s] # NULL /\ Frameless(s)
    BY <2>1, <2>4 DEF Clean, Frameless, Own
  <2>5. QED
    BY <1>1, <2>2, <2>3, <2>4
<1>8. QED
  BY <1>1, <1>2, <1>3, <1>4, <1>6, <1>7, OneStream DEF StreamOK

LEMMA RouteInvStep ==
  ASSUME IInv, RouteInv, ~AllocFails, NEW s \in Streams, RouteStep(s)
  PROVE  RouteInv'
<1>1. CASE Open(s) \/ Close(s) \/ RunDeferred(s)
  BY <1>1, RouteOpenStep, RouteCloseStep, RunDeferredStep
<1>2. CASE PutData(s) \/ UnitdataReq(s)
  BY <1>2, PutDataStep DEF UnitdataReq
<1>3. CASE PutFlush(s)
  BY <1>3, EmptyQueue DEF PutFlush, vars, streams, ppas, clients
<1>4. CASE Take(s) \/ StartService(s) \/ EndService(s)
  <2>1. UNCHANGED <<opened, ppa, rq, deferred, setters, asked, wq>>
    BY <1>4 DEF Take, StartService, EndService, vars, streams, ppas, clients
  <2>2. head' \in [Streams -> SUBSET Data]
    BY <1>4 DEF Take, StartService, EndService, RouteInv, RouteTypes
  <2>3. RouteTypes'
    BY <2>1, <2>2 DEF RouteInv, RouteTypes
  <2>4. \A u \in Streams : StreamOK(u)'
    BY <2>1, Untouched DEF RouteInv
  <2>5. QED
    BY <2>3, <2>4 DEF RouteInv
<1>5. CASE \E m \in Dlpi : PutDlpi(s, m)
  BY <1>5, PutDlpiStep
<1>6. CASE \E r \in Requests \ Dlpi : PutIoctl(s, r)
  BY <1>6, PutIoctlStep
<1>7. CASE ServeData(s) \/ ServeLater(s) \/ ServeNow(s)
  BY <1>7, ServeDataStep, ServeLaterStep, ServeNowStep
<1>8. QED
  BY <1>1, <1>2, <1>3, <1>4, <1>5, <1>6, <1>7 DEF RouteStep, RunService

LEMMA RouteInvInit == RouteInit => RouteInv
<1> SUFFICES ASSUME RouteInit PROVE RouteInv
  OBVIOUS
<1>1. <<>> \in Seq(Dlpi \cup Data)
  OBVIOUS
<1>2. RouteTypes
  BY <1>1 DEF RouteInit, RouteTypes
<1>3. ASSUME NEW s \in Streams PROVE StreamOK(s)
  <2>1. wq[s] = <<>> /\ ppa[s] = NULL /\ deferred[s] = NULL /\ s \notin asked
    BY DEF RouteInit, Init
  <2>2. QED
    BY <2>1 DEF StreamOK, InOrder, Pending, Clean, Frameless, Own, Fresh
<1>4. QED
  BY <1>2, <1>3 DEF RouteInv

LEMMA RouteInvStutter == RouteInv /\ UNCHANGED routeVars => RouteInv'
<1> SUFFICES ASSUME RouteInv, UNCHANGED routeVars PROVE RouteInv'
  OBVIOUS
<1>1. UNCHANGED <<opened, ppa, rq, deferred, setters, asked, wq, head>>
  BY DEF routeVars, vars, streams, ppas, queues, clients
<1>2. RouteTypes' /\ \A u \in Streams : StreamOK(u)'
  BY <1>1, Untouched DEF RouteInv, RouteTypes
<1>3. QED
  BY <1>2 DEF RouteInv

(* Queues keep their order, and frames their interface, between the steps.  *)
THEOREM RouteInvariance ==
  ASSUME Orderly, ~AllocFails
  PROVE  RouteSpec => [](IInv /\ RouteInv)
<1>1. RouteSpec => []IInv
  BY ControlPlane, Invariance, PTL
<1>2. IInv /\ RouteInv /\ [RouteNext]_routeVars => RouteInv'
  BY RouteInvStep, RouteInvStutter DEF RouteNext
<1>3. QED
  BY <1>1, <1>2, RouteInvInit, PTL DEF RouteSpec

-----------------------------------------------------------------------------
(* The step of StaysOnInterface. *)
Stays == \A u \in Streams : \A d \in head'[u] \ head[u] : d.via = Via(u)

(* Where tun_frame sends a frame that is of the interface of its stream. *)
LEMMA FrameStays ==
  ASSUME IInv, RouteInv, NEW s \in Streams, NEW d, NEW mayQueue \in BOOLEAN,
         NEW rest, Frame(s, d, mayQueue, rest), ppa[s] # NULL => d.via = Via(s)
  PROVE  Stays
<1>1. PICK S \in SUBSET Streams :
        /\ PutNext(S, d)
        /\ \A u \in S : ppa[s] # NULL /\ Via(u) = Via(s)
        /\ \/ Queue(s, rest)
           \/ mayQueue /\ ppa[s] # NULL /\ Queue(s, <<d>> \o rest)
  BY FrameRoutes
<1>2. \A u \in Streams : \A e \in head'[u] \ head[u] : u \in S /\ e = d
  BY <1>1 DEF PutNext
<1>3. QED
  BY <1>1, <1>2 DEF Stays

LEMMA StepStays ==
  ASSUME IInv, RouteInv, NEW s \in Streams, RouteStep(s)
  PROVE  Stays
<1>1. CASE PutData(s)
  <2>1. PICK d : d.via = Via(s) /\ Frame(s, d, TRUE, wq[s])
    BY <1>1 DEF PutData
  <2>2. QED
    BY <2>1, FrameStays
<1>2. CASE ServeData(s)
  <2>1. /\ wq[s] # <<>> /\ Head(wq[s]) \in Data
        /\ Frame(s, Head(wq[s]), FALSE, Tail(wq[s]))
    BY <1>2 DEF ServeData, GetQ
  <2>2. Own(s) /\ wq[s] \in Seq(Dlpi \cup Data)
    BY DEF RouteInv, RouteTypes, StreamOK
  <2>3. Head(wq[s]) = wq[s][1] /\ 1 \in 1..Len(wq[s])
    BY <2>1, <2>2, TailPlaces
  <2>4. ppa[s] # NULL => Head(wq[s]).via = Via(s)
    BY <2>1, <2>2, <2>3 DEF Own, Via
  <2>5. QED
    BY <2>1, <2>4, FrameStays
<1>3. CASE Take(s) \/ Close(s)
  BY <1>3 DEF Take, Close, Stays, RouteInv, RouteTypes
<1>4. CASE \/ Open(s) \/ RunDeferred(s) \/ PutFlush(s) \/ StartService(s)
           \/ EndService(s) \/ ServeLater(s) \/ ServeNow(s)
           \/ \E m \in Dlpi : PutDlpi(s, m)
           \/ \E r \in Requests \ Dlpi : PutIoctl(s, r)
  <2>1. head' = head
    BY <1>4 DEF Open, RunDeferred, PutFlush, StartService, EndService, ServeLater,
                ServeNow, PutDlpi, PutIoctl, queues
  <2>2. QED
    BY <2>1 DEF Stays
<1>5. QED
  BY <1>1, <1>2, <1>3, <1>4 DEF RouteStep, RunService, UnitdataReq

(* A frame gets to streams of the interface it was written to only, also if *)
(* it has waited in a queue: a stream that moves to another interface by    *)
(* DL_DETACH_REQ and DL_ATTACH_REQ has served its frames before, the        *)
(* requests having waited behind them.                                      *)
THEOREM FramesStay ==
  ASSUME Orderly, ~AllocFails
  PROVE  RouteSpec => StaysOnInterface
<1>1. /\ IInv /\ RouteInv /\ [RouteNext]_routeVars
      => [\A s \in Streams : \A d \in head'[s] \ head[s] : d.via = Via(s)]_routeVars
  BY StepStays DEF RouteNext, Stays
<1>2. QED
  BY <1>1, RouteInvariance, PTL DEF RouteSpec, StaysOnInterface
=============================================================================
