-------------------------- MODULE ByteStreamProofs --------------------------
(***************************************************************************)
(* Lemmas about streams of packets as bytes, for packets of any lengths:   *)
(* where packets end, what bytes are read next, and what TotalLen makes of *)
(* them.                                                                   *)
(***************************************************************************)
EXTENDS ByteStream, SequenceTheorems, WellFoundedInduction, TLAPS

-----------------------------------------------------------------------------
(* Induction, without an operator as a parameter. *)
LEMMA LeastElement ==
  ASSUME NEW T, T \subseteq Nat, T # {}
  PROVE  \E x \in T : \A y \in T : ~(y < x)
<1> DEFINE R == {ss \in Nat \X Nat : ss[1] < ss[2]}
<1>1. IsWellFoundedOn(R, Nat)
  BY NatLessThanWellFounded, Zenon DEF OpToRel
<1>2. \E x \in T : \A y \in T : ~(<<y, x>> \in R)
  <2> HIDE DEF R
  <2>1. QED
    BY <1>1, WFMin
<1>3. QED
  BY <1>2

LEMMA UpTo ==
  ASSUME NEW n \in Nat, NEW S,
         0 \in S, \A k \in 0..(n - 1) : k \in S => k + 1 \in S
  PROVE  0..n \subseteq S
<1> SUFFICES ASSUME 0..n \ S # {} PROVE FALSE
  OBVIOUS
<1>1. PICK x \in 0..n \ S : \A y \in 0..n \ S : ~(y < x)
  <2>1. 0..n \ S \subseteq Nat
    OBVIOUS
  <2>2. QED
    BY <2>1, LeastElement
<1>2. x - 1 \in 0..(n - 1) /\ x - 1 < x /\ (x - 1) + 1 = x /\ x - 1 \in 0..n
  BY <1>1
<1>3. QED
  BY <1>1, <1>2

-----------------------------------------------------------------------------
(* Where packets end *)

(* The function EndOf is read from, as far as packet n. *)
Sums(p, n, f) ==
  /\ f \in [0..n -> Nat] /\ f[0] = 0
  /\ \A k \in 1..n : f[k] = f[k - 1] + p[k]

LEMMA SumsExist ==
  ASSUME NEW p \in Seq(Nat), NEW n \in 0..Len(p)
  PROVE  \E f : Sums(p, n, f)
<1> DEFINE S == {m \in Nat : \E f : Sums(p, m, f)}
<1>1. 0 \in S
  <2>1. Sums(p, 0, [k \in 0..0 |-> 0])
    BY DEF Sums
  <2>2. QED
    BY <2>1
<1>2. ASSUME NEW m \in 0..(Len(p) - 1), m \in S PROVE m + 1 \in S
  <2>1. PICK f : Sums(p, m, f)
    BY <1>2
  <2> DEFINE g == [k \in 0..(m + 1) |-> IF k = m + 1 THEN f[m] + p[m + 1] ELSE f[k]]
  <2>2. p[m + 1] \in Nat /\ m \in Nat
    OBVIOUS
  <2>3. g \in [0..(m + 1) -> Nat] /\ g[0] = 0
    BY <2>1, <2>2 DEF Sums
  <2>4. ASSUME NEW k \in 1..(m + 1) PROVE g[k] = g[k - 1] + p[k]
    <3>1. CASE k = m + 1
      BY <2>2, <3>1
    <3>2. CASE k # m + 1
      <4>1. k \in 1..m /\ k \in 0..(m + 1) /\ k - 1 \in 0..(m + 1) /\ k - 1 # m + 1
        BY <2>2, <3>2
      <4>2. QED
        BY <2>1, <3>2, <4>1 DEF Sums
    <3>3. QED
      BY <3>1, <3>2
  <2> HIDE DEF g
  <2>5. Sums(p, m + 1, g)
    BY <2>3, <2>4 DEF Sums
  <2>6. QED
    BY <2>2, <2>5
<1> HIDE DEF S
<1>3. 0..Len(p) \subseteq S
  <2>1. Len(p) \in Nat
    OBVIOUS
  <2>2. QED
    BY <1>1, <1>2, <2>1, UpTo
<1>4. QED
  BY <1>3 DEF S

LEMMA EndOfSums ==
  ASSUME NEW p \in Seq(Nat)
  PROVE  /\ \A i \in 0..Len(p) : EndOf(p, i) \in Nat
         /\ EndOf(p, 0) = 0
         /\ \A i \in 1..Len(p) : EndOf(p, i) = EndOf(p, i - 1) + p[i]
<1> DEFINE Is(f) == f = [k \in 0..Len(p) |-> IF k = 0 THEN 0 ELSE f[k - 1] + p[k]]
           end == CHOOSE f : Is(f)
<1>1. PICK f : Sums(p, Len(p), f)
  BY SumsExist
<1>2. Is(f)
  BY <1>1 DEF Sums
<1>3. Is(end)
  BY <1>2
<1>4. \A i : EndOf(p, i) = end[i]
  BY DEF EndOf
<1> HIDE DEF end
<1>5. end[0] = 0 /\ \A k \in 1..Len(p) : end[k] = end[k - 1] + p[k]
  BY <1>3
<1> DEFINE S == {i \in Nat : end[i] \in Nat}
<1>6. 0..Len(p) \subseteq S
  <2>1. ASSUME NEW k \in 0..(Len(p) - 1), k \in S PROVE k + 1 \in S
    <3>1. k + 1 \in 1..Len(p) /\ (k + 1) - 1 = k /\ p[k + 1] \in Nat
      OBVIOUS
    <3>2. QED
      BY <1>5, <2>1, <3>1
  <2>2. 0 \in S
    BY <1>5
  <2>3. Len(p) \in Nat
    OBVIOUS
  <2> HIDE DEF S
  <2>4. QED
    BY <2>1, <2>2, <2>3, UpTo
<1>7. QED
  BY <1>4, <1>5, <1>6

LEMMA EndsRise ==
  ASSUME NEW p \in Seq(Nat), NEW i \in 0..Len(p), NEW j \in i..Len(p)
  PROVE  EndOf(p, i) <= EndOf(p, j)
<1> DEFINE S == {d \in Nat : EndOf(p, i) <= EndOf(p, i + d)}
           n == Len(p) - i
<1>1. n \in Nat /\ i \in Nat /\ Len(p) \in Nat
  OBVIOUS
<1>2. 0 \in S
  BY <1>1, EndOfSums
<1>3. ASSUME NEW d \in 0..(n - 1), d \in S PROVE d + 1 \in S
  <2>1. i + d + 1 \in 1..Len(p) /\ (i + d + 1) - 1 = i + d /\ i + d \in 0..Len(p)
    BY <1>1
  <2>2. EndOf(p, i + d + 1) = EndOf(p, i + d) + p[i + d + 1] /\ p[i + d + 1] \in Nat
    BY <2>1, EndOfSums
  <2>3. EndOf(p, i) \in Nat /\ EndOf(p, i + d) \in Nat
    BY <2>1, EndOfSums
  <2>4. i + (d + 1) = i + d + 1
    BY <1>1
  <2>5. QED
    BY <1>3, <2>2, <2>3, <2>4
<1> HIDE DEF S, n
<1>4. 0..n \subseteq S
  BY <1>1, <1>2, <1>3, UpTo
<1>5. j - i \in 0..n /\ i + (j - i) = j
  BY DEF n
<1>6. QED
  BY <1>4, <1>5 DEF S

(* No boundary lies inside a packet or behind the stream. *)
LEMMA BetweenBoundaries ==
  ASSUME NEW p \in Seq(Nat), NEW x \in BoundariesOf(p)
  PROVE  /\ x \in Nat /\ x <= EndOf(p, Len(p))
         /\ \A k \in 1..Len(p) : x > EndOf(p, k - 1) => x >= EndOf(p, k)
<1>1. PICK i \in 0..Len(p) : x = EndOf(p, i)
  BY DEF BoundariesOf
<1>2. x \in Nat /\ EndOf(p, Len(p)) \in Nat
  BY <1>1, EndOfSums
<1>3. x <= EndOf(p, Len(p))
  BY <1>1, EndsRise
<1>4. ASSUME NEW k \in 1..Len(p), x > EndOf(p, k - 1) PROVE x >= EndOf(p, k)
  <2>1. k - 1 \in 0..Len(p) /\ k \in 0..Len(p)
    OBVIOUS
  <2>2. EndOf(p, k - 1) \in Nat /\ EndOf(p, k) \in Nat
    BY <2>1, EndOfSums
  <2>3. CASE i <= k - 1
    <3>1. k - 1 \in i..Len(p)
      BY <2>1, <2>3
    <3>2. EndOf(p, i) <= EndOf(p, k - 1)
      BY <3>1, EndsRise
    <3>3. QED
      BY <1>1, <1>2, <1>4, <2>2, <3>2
  <2>4. CASE i >= k
    <3>1. i \in k..Len(p)
      BY <2>1, <2>4
    <3>2. EndOf(p, k) <= EndOf(p, i)
      BY <2>1, <3>1, EndsRise
    <3>3. QED
      BY <1>1, <3>2
  <2>5. QED
    BY <2>3, <2>4
<1>5. QED
  BY <1>2, <1>3, <1>4

LEMMA BoundariesFound ==
  ASSUME NEW p \in Seq(Nat)
  PROVE  /\ 0 \in BoundariesOf(p)
         /\ \A k \in 1..Len(p) :
               /\ EndOf(p, k - 1) \in BoundariesOf(p) /\ EndOf(p, k) \in BoundariesOf(p)
               /\ EndOf(p, k) = EndOf(p, k - 1) + p[k]
               /\ EndOf(p, k - 1) \in Nat /\ p[k] \in Nat
<1>1. 0 \in 0..Len(p) /\ \A k \in 1..Len(p) : k \in 0..Len(p) /\ k - 1 \in 0..Len(p)
  OBVIOUS
<1>2. QED
  BY <1>1, EndOfSums DEF BoundariesOf

-----------------------------------------------------------------------------
(* Bytes *)

LEMMA Joined ==
  ASSUME NEW a \in Seq(Nat), NEW b \in Seq(Nat), NEW c \in Seq(Nat)
  PROVE  /\ a \o b \in Seq(Nat) /\ Len(a \o b) = Len(a) + Len(b)
         /\ a \o (b \o c) = (a \o b) \o c
<1>1. a \o b \in Seq(Nat) /\ Len(a \o b) = Len(a) + Len(b)
  OBVIOUS
<1>2. b \o c \in Seq(Nat) /\ Len(b \o c) = Len(b) + Len(c)
  OBVIOUS
<1>3. /\ a \o (b \o c) \in Seq(Nat) /\ (a \o b) \o c \in Seq(Nat)
      /\ Len(a \o (b \o c)) = Len((a \o b) \o c)
  BY <1>1, <1>2
<1>4. \A i \in 1..Len(a \o (b \o c)) : (a \o (b \o c))[i] = ((a \o b) \o c)[i]
  BY <1>1, <1>2
<1>5. QED
  BY <1>1, <1>3, <1>4, SeqEqual

LEMMA CutAndJoin ==
  ASSUME NEW b \in Seq(Nat), NEW n \in 0..Len(b)
  PROVE  /\ SubSeq(b, 1, n) \in Seq(Nat) /\ Len(SubSeq(b, 1, n)) = n
         /\ SubSeq(b, n + 1, Len(b)) \in Seq(Nat)
         /\ Len(SubSeq(b, n + 1, Len(b))) = Len(b) - n
         /\ SubSeq(b, 1, n) \o SubSeq(b, n + 1, Len(b)) = b
<1>1. /\ SubSeq(b, 1, n) \in Seq(Nat) /\ Len(SubSeq(b, 1, n)) = n
      /\ SubSeq(b, n + 1, Len(b)) \in Seq(Nat)
      /\ Len(SubSeq(b, n + 1, Len(b))) = Len(b) - n
  BY SubSeqProperties
<1>2. 1 \in 1..(Len(b) + 1) /\ n \in (1 - 1)..Len(b) /\ Len(b) \in n..Len(b)
  OBVIOUS
<1>3. SubSeq(b, 1, n) \o SubSeq(b, n + 1, Len(b)) = SubSeq(b, 1, Len(b))
  BY <1>2, ConcatAdjacentSubSeq
<1>4. QED
  BY <1>1, <1>3, SubSeqFull

LEMMA Retyped ==
  ASSUME NEW T, NEW s \in Seq(Nat), \A i \in 1..Len(s) : s[i] \in T
  PROVE  s \in Seq(T)
<1>1. s \in [1..Len(s) -> T] /\ Len(s) \in Nat
  OBVIOUS
<1>2. QED
  BY <1>1

LEMMA BytesAre ==
  ASSUME NEW a \in Nat, NEW z \in Nat, a <= z
  PROVE  /\ Bytes(a, z) \in Seq(Nat) /\ Len(Bytes(a, z)) = z - a
         /\ \A i \in 1..(z - a) : Bytes(a, z)[i] = a + i
<1>1. Bytes(a, z) \in [1..(z - a) -> Nat] /\ z - a \in Nat
  BY DEF Bytes
<1>2. Bytes(a, z) \in Seq(Nat) /\ Len(Bytes(a, z)) = z - a
  BY <1>1
<1>3. QED
  BY <1>2 DEF Bytes

LEMMA BytesFollow ==
  ASSUME NEW a \in Nat, NEW b \in Nat, NEW c \in Nat, a <= b, b <= c
  PROVE  Bytes(a, b) \o Bytes(b, c) = Bytes(a, c)
<1> DEFINE x == Bytes(a, b)
           y == Bytes(b, c)
           z == Bytes(a, c)
<1>1. x \in Seq(Nat) /\ Len(x) = b - a
  BY BytesAre
<1>2. \A i \in 1..(b - a) : x[i] = a + i
  BY BytesAre
<1>3. y \in Seq(Nat) /\ Len(y) = c - b
  BY BytesAre
<1>4. \A i \in 1..(c - b) : y[i] = b + i
  BY BytesAre
<1>5. a <= c
  OBVIOUS
<1>6. z \in Seq(Nat) /\ Len(z) = c - a
  BY <1>5, BytesAre
<1>7. \A i \in 1..(c - a) : z[i] = a + i
  BY <1>5, BytesAre
<1> HIDE DEF x, y, z
<1>8. x \o y \in Seq(Nat) /\ Len(x \o y) = c - a
  BY <1>1, <1>3
<1>9. ASSUME NEW i \in 1..(c - a) PROVE (x \o y)[i] = z[i]
  <2>1. CASE i <= b - a
    <3>1. (x \o y)[i] = x[i]
      BY <1>1, <1>3, <2>1
    <3>2. QED
      BY <1>2, <1>7, <2>1, <3>1
  <2>2. CASE ~(i <= b - a)
    <3>1. (x \o y)[i] = y[i - (b - a)]
      BY <1>1, <1>3, <2>2
    <3>2. i - (b - a) \in 1..(c - b) /\ b + (i - (b - a)) = a + i
      BY <2>2
    <3>3. QED
      BY <1>4, <1>7, <3>1, <3>2
  <2>3. QED
    BY <2>1, <2>2
<1>10. QED
  BY <1>6, <1>8, <1>9, SeqEqual DEF x, y, z

(* The first g bytes, in order, cut in two. *)
Cut(x, y, g) == x \o y = Bytes(0, g)

LEMMA BytesCut ==
  ASSUME NEW x \in Seq(Nat), NEW y \in Seq(Nat), NEW g \in Nat, Cut(x, y, g)
  PROVE  /\ Len(x) + Len(y) = g
         /\ \A i \in 1..Len(x) : x[i] = i
         /\ \A i \in 1..Len(y) : y[i] = Len(x) + i
         /\ y = Bytes(Len(x), g)
<1>1. /\ Bytes(0, g) \in Seq(Nat) /\ Len(Bytes(0, g)) = g
      /\ \A i \in 1..g : Bytes(0, g)[i] = i
  <2>1. 0 \in Nat /\ 0 <= g /\ g - 0 = g /\ \A i \in 1..g : 0 + i = i
    OBVIOUS
  <2>2. QED
    BY <2>1, BytesAre
<1> USE DEF Cut
<1>2. Len(x \o y) = Len(x) + Len(y)
  BY Joined
<1>3. Len(x) + Len(y) = g
  BY <1>1, <1>2
<1>4. ASSUME NEW i \in 1..Len(x) PROVE x[i] = i
  <2>1. (x \o y)[i] = x[i] /\ i \in 1..g
    BY <1>3
  <2>2. QED
    BY <1>1, <2>1
<1>5. ASSUME NEW i \in 1..Len(y) PROVE y[i] = Len(x) + i
  <2>1. (x \o y)[Len(x) + i] = y[i] /\ Len(x) + i \in 1..g
    BY <1>3
  <2>2. QED
    BY <1>1, <2>1
<1>6. y = Bytes(Len(x), g)
  <2>1. Len(x) \in Nat /\ Len(y) \in Nat
    OBVIOUS
  <2>2. /\ Bytes(Len(x), g) \in Seq(Nat) /\ Len(Bytes(Len(x), g)) = Len(y)
        /\ \A i \in 1..Len(y) : Bytes(Len(x), g)[i] = Len(x) + i
    <3>1. Len(x) <= g /\ g - Len(x) = Len(y)
      BY <1>3, <2>1
    <3>2. QED
      BY <2>1, <3>1, BytesAre
  <2>3. QED
    BY <1>5, <2>2, SeqEqual
<1>7. QED
  BY <1>3, <1>4, <1>5, <1>6

-----------------------------------------------------------------------------
(* TotalLen *)

(* It never answers with more than it was given. *)
LEMMA LensInRange ==
  ASSUME NEW p \in Seq(Nat \ {0}), NEW b \in Seq(Nat),
         NEW l \in TotalLens(p, b) \ {Short, NotIp}
  PROVE  l \in 1..Len(b)
<1> DEFINE head == b[1] - 1
           strange == \/ head \notin BoundariesOf(p) \ {EndOf(p, Len(p))}
                      \/ \E j \in (1..Header) \cap (1..Len(b)) : b[j] # b[1] + j - 1
           i == CHOOSE k \in 1..Len(p) : EndOf(p, k - 1) = head
<1>1. b # <<>>
  BY DEF TotalLens
<1>2. CASE strange
  BY <1>1, <1>2 DEF TotalLens
<1>3. CASE ~strange
  <2>1. PICK j \in 0..Len(p) : EndOf(p, j) = head /\ j # Len(p)
    BY <1>3 DEF BoundariesOf
  <2>2. j + 1 \in 1..Len(p) /\ (j + 1) - 1 = j
    BY <2>1
  <2>3. i \in 1..Len(p)
    BY <2>1, <2>2
  <2>4. p[i] \in Nat \ {0}
    BY <2>3
  <2>5. TotalLens(p, b) = IF p[i] < Header THEN {NotIp}
                          ELSE IF Len(b) < p[i] THEN {Short} ELSE {p[i]}
    BY <1>1, <1>3 DEF TotalLens
  <2> HIDE DEF i
  <2>6. l = p[i] /\ ~(Len(b) < p[i])
    BY <2>5
  <2>7. QED
    BY <2>4, <2>6
<1>4. QED
  BY <1>2, <1>3

(* At the head of a packet it gives the length of that packet. *)
LEMMA LensAtHead ==
  ASSUME NEW p \in Seq(Nat), NEW a \in BoundariesOf(p),
         NEW b \in Seq(Nat), Len(b) # 0, a + Len(b) <= EndOf(p, Len(p)),
         \A j \in 1..Len(b) : b[j] = a + j
  PROVE  \E k \in 1..Len(p) :
           /\ EndOf(p, k - 1) = a
           /\ TotalLens(p, b) = IF p[k] < Header THEN {NotIp}
                                ELSE IF Len(b) < p[k] THEN {Short} ELSE {p[k]}
<1>1. a \in Nat /\ EndOf(p, Len(p)) \in Nat
  <2>1. Len(p) \in 0..Len(p)
    OBVIOUS
  <2>2. QED
    BY <2>1, BetweenBoundaries, EndOfSums
<1>2. b # <<>> /\ b[1] - 1 = a /\ \A j \in 1..Len(b) : b[j] = b[1] + j - 1
  <2>1. Len(b) \in Nat /\ 1 \in 1..Len(b)
    OBVIOUS
  <2>2. b[1] = a + 1
    BY <2>1
  <2>3. QED
    BY <1>1, <2>1, <2>2
<1>3. b[1] - 1 \in BoundariesOf(p) \ {EndOf(p, Len(p))}
  BY <1>1, <1>2
<1> DEFINE k == CHOOSE k \in 1..Len(p) : EndOf(p, k - 1) = a
<1>4. k \in 1..Len(p) /\ EndOf(p, k - 1) = a
  <2>1. PICK j \in 0..Len(p) : EndOf(p, j) = a /\ j # Len(p)
    BY <1>2, <1>3 DEF BoundariesOf
  <2>2. j + 1 \in 1..Len(p) /\ (j + 1) - 1 = j
    BY <2>1
  <2>3. QED
    BY <2>1, <2>2
<1>5. TotalLens(p, b) = IF p[k] < Header THEN {NotIp}
                        ELSE IF Len(b) < p[k] THEN {Short} ELSE {p[k]}
  BY <1>2, <1>3 DEF TotalLens
<1> HIDE DEF k
<1>6. QED
  BY <1>4, <1>5

LEMMA NoBytesShort == ASSUME NEW p PROVE TotalLens(p, <<>>) = {Short}
BY DEF TotalLens
=============================================================================
