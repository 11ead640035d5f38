---------------------------- MODULE ClusterRBProofs ----------------------------
(***************************************************************************)
(* The safety properties of ClusterRB, for any number and size of rings    *)
(* and any packet sizes: of an allocator whose handshake is obeyed.        *)
(***************************************************************************)
EXTENDS ClusterRB, FiniteSetTheorems, WellFoundedInduction, TLAPS

(* Slot s lies between head and tail: a slot outside is free, and with     *)
(* head = tail the pointers say nothing (the ring is full or empty).       *)
Between(h, t, s) == IF h < t THEN h <= s /\ s < t ELSE h = t \/ h <= s \/ s < t
Rings == [bitmap : SUBSET Slots, head : Slots, tail : Slots]
RingOK(b) == b \in Rings /\ \A s \in b.bitmap : Between(b.head, b.tail, s)

(* No packet crosses the end of its ring.                                  *)
InOneRing ==
  \A p \in live : (p.start % NumSlots) + p.size <= NumSlots /\ p.start \in Buffer

IInv ==
  /\ TypeOK /\ \A i \in RBs : RingOK(rb[i])
  /\ InOneRing /\ PacketsDisjoint /\ BitmapExact

-----------------------------------------------------------------------------
(* Pointers that wrap around.                                              *)
LEMMA Wrap ==
  ASSUME NEW x \in Int, NEW n \in Nat \ {0}, -n <= x, x < 2 * n
  PROVE  x % n = IF x < 0 THEN x + n ELSE IF x < n THEN x ELSE x - n
<1> DEFINE q == x \div n
           r == x % n
<1>1. /\ q \in Int /\ r \in Int /\ x = n * q + r /\ 0 <= r /\ r < n
  OBVIOUS
<1> HIDE DEF q, r
<1>2. q \in {-1, 0, 1}
  <2>1. CASE q >= 2
    BY <1>1, <2>1
  <2>2. CASE q <= -2
    BY <1>1, <2>2
  <2> QED
    BY <1>1, <2>1, <2>2
<1>3. CASE q = -1
  BY <1>1, <1>3 DEF r
<1>4. CASE q = 0
  BY <1>1, <1>4 DEF r
<1>5. CASE q = 1
  BY <1>1, <1>5 DEF r
<1> QED
  BY <1>2, <1>3, <1>4, <1>5

(* The remainder of a number less than one turn off is that number, a turn *)
(* further or a turn back.                                                 *)
LEMMA WrapOnce ==
  \A n \in Nat \ {0} : \A x \in Int :
    /\ 0 <= x /\ x < n => x % n = x
    /\ n <= x /\ x < n + n => x % n = x - n
    /\ -n <= x /\ x < 0 => x % n = x + n
<1> SUFFICES ASSUME NEW n \in Nat \ {0}, NEW x \in Int
             PROVE  /\ 0 <= x /\ x < n => x % n = x
                    /\ n <= x /\ x < n + n => x % n = x - n
                    /\ -n <= x /\ x < 0 => x % n = x + n
  OBVIOUS
<1>1. ASSUME -n <= x, x < 2 * n
      PROVE  x % n = IF x < 0 THEN x + n ELSE IF x < n THEN x ELSE x - n
  BY <1>1, Wrap
<1> QED
  BY <1>1

(* Slot s of buffer i and its place in the whole memory determine each     *)
(* other.                                                                  *)
LEMMA Places ==
  ASSUME NEW n \in Nat \ {0}, NEW i \in Nat, NEW s \in 0 .. n - 1
  PROVE  /\ (i * n + s) % n = s /\ (i * n + s) \div n = i
         /\ \A j \in Nat, t \in 0 .. n - 1 : i * n + s = j * n + t => i = j /\ s = t
<1> DEFINE x == i * n + s
           q == x \div n
           r == x % n
<1>0. \A j \in Int, t \in 0 .. n - 1 : i * n + s = j * n + t => i = j /\ s = t
  <2> SUFFICES ASSUME NEW j \in Int, NEW t \in 0 .. n - 1, i * n + s = j * n + t
               PROVE  i = j /\ s = t
    OBVIOUS
  <2>1. (i - j) * n = t - s
    OBVIOUS
  <2>2. i - j >= 1 => (i - j) * n >= n
    OBVIOUS
  <2>3. i - j <= -1 => (i - j) * n <= -n
    OBVIOUS
  <2>4. i = j
    BY <2>1, <2>2, <2>3
  <2> QED
    BY <2>1, <2>4
<1>1. /\ q \in Int /\ r \in Int /\ x = n * q + r /\ 0 <= r /\ r < n
  OBVIOUS
<1> QED
  BY <1>0, <1>1

(* What is assumed of the constants.                                       *)
LEMMA Size == NumSlots \in Nat \ {0} /\ NumRB \in Nat \ {0} /\ Sizes \subseteq 0 .. NumSlots
BY RBParams

(* A pointer that advances by at most one turn stays in the ring, and      *)
(* wraps at its end.                                                       *)
LEMMA AdvanceFacts ==
  ASSUME NEW p \in Slots, NEW k \in 0 .. NumSlots
  PROVE  /\ Advance(p, k) \in Slots
         /\ Advance(p, k) = IF p + k < NumSlots THEN p + k ELSE (p + k) - NumSlots
<1>1. p + k \in Int /\ -NumSlots <= p + k /\ p + k < NumSlots + NumSlots /\ 0 <= p + k
  BY Size DEF Slots
<1>2. (p + k) % NumSlots = IF p + k < NumSlots THEN p + k ELSE (p + k) - NumSlots
  <2>1. p + k < NumSlots => (p + k) % NumSlots = p + k
    BY <1>1, Size, WrapOnce
  <2>2. ASSUME p + k >= NumSlots
        PROVE  (p + k) % NumSlots = (p + k) - NumSlots
    <3>1. NumSlots <= p + k /\ p + k < NumSlots + NumSlots /\ p + k \in Int
      BY <1>1, <2>2, Size
    <3> QED
      BY <3>1, Size, WrapOnce, Zenon
  <2> QED
    BY <1>1, Size, <2>1, <2>2
<1> QED
  BY <1>1, <1>2, Size DEF Advance, Slots

(* A set of natural numbers that is not empty has a least member.          *)
LEMMA LeastExists ==
  ASSUME NEW S \in SUBSET Nat, S # {}
  PROVE  \E x \in S : \A y \in S : x <= y
<1> DEFINE R == {ss \in Nat \X Nat : ss[1] < ss[2]}
<1>1. R = OpToRel(<, Nat)
  BY DEF OpToRel
<1>2. IsWellFoundedOn(R, Nat)
  BY <1>1, NatLessThanWellFounded
<1> HIDE DEF R
<1>3. PICK x \in S : \A y \in S : ~ (<<y, x>> \in R)
  BY <1>2, WFMin
<1>4. \A y \in S : ~ (y < x)
  BY <1>3 DEF R
<1> QED
  BY <1>3, <1>4

(* The head moves over free slots only (cluster_rb.sv:82-110).             *)
LEMMA FreeRunFacts ==
  ASSUME NEW b \in Rings
  PROVE  /\ FreeRun(b) \in 0 .. NumSlots
         /\ \A j \in 0 .. FreeRun(b) - 1 : (b.head + j) % NumSlots \notin b.bitmap
         /\ FreeRun(b) < NumSlots => (b.head + FreeRun(b)) % NumSlots \in b.bitmap
<1> DEFINE K == {k \in 0 .. NumSlots : k < NumSlots => (b.head + k) % NumSlots \in b.bitmap}
<1>1. NumSlots \in K /\ K \in SUBSET Nat
  BY Size
<1>2. PICK k \in K : \A j \in K : k <= j
  BY <1>1, LeastExists
<1>3. \A j \in 0 .. k - 1 : (b.head + j) % NumSlots \notin b.bitmap
  <2> SUFFICES ASSUME NEW j \in 0 .. k - 1, (b.head + j) % NumSlots \in b.bitmap
               PROVE  FALSE
    OBVIOUS
  <2>1. j \in K /\ j < k
    BY <1>1, Size
  <2> QED
    BY <1>1, <1>2, <2>1
<1>4. \E x \in 0 .. NumSlots :
         /\ \A j \in 0 .. x - 1 : (b.head + j) % NumSlots \notin b.bitmap
         /\ x < NumSlots => (b.head + x) % NumSlots \in b.bitmap
  BY <1>3
<1> QED
  BY <1>4 DEF FreeRun

(* The head moves towards the tail and never past it, nor over a used      *)
(* slot.                                                                   *)
LEMMA HeadMoves ==
  ASSUME NEW b, RingOK(b)
  PROVE  LET h == Advance(b.head, HeadIncr(b))
         IN  /\ h \in Slots
             /\ b.head <= b.tail => b.head <= h /\ h <= b.tail
             /\ b.head > b.tail => b.head <= h \/ h <= b.tail
             /\ \A s \in b.bitmap : b.head = b.tail \/ (h # b.tail /\ Between(h, b.tail, s))
<1> DEFINE N == NumSlots
           a == b.head
           t == b.tail
           k == HeadIncr(b)
           m == MaxRun(b)
           f == FreeRun(b)
           h == Advance(a, k)
<1>1. a \in 0 .. N - 1 /\ t \in 0 .. N - 1 /\ N \in Nat \ {0} /\ b.bitmap \subseteq 0 .. N - 1
  BY Size DEF RingOK, Rings, Slots
<1>2. m = IF t >= a THEN t - a ELSE t - a + N
  <2>1. t - a \in Int /\ -N <= t - a /\ t - a < 2 * N
    BY <1>1
  <2>2. (t - a) % N = IF t - a < 0 THEN t - a + N ELSE IF t - a < N THEN t - a ELSE t - a - N
    BY <1>1, <2>1, Wrap
  <2> QED
    BY <1>1, <2>2 DEF MaxRun
<1>3. f \in 0 .. N /\ \A j \in 0 .. f - 1 : (a + j) % N \notin b.bitmap
  <2>1. b \in Rings
    BY DEF RingOK
  <2> QED
    BY <2>1, FreeRunFacts
<1>4. k = IF m > f THEN f ELSE m
  BY DEF HeadIncr
<1> HIDE DEF m, f, k
<1>5. k \in 0 .. N /\ k <= f /\ k <= m
  BY <1>1, <1>2, <1>3, <1>4
<1>6. h \in Slots /\ h = IF a + k < N THEN a + k ELSE a + k - N
  BY <1>1, <1>5, AdvanceFacts DEF Slots
<1>7. \A j \in 0 .. k - 1 : (IF a + j < N THEN a + j ELSE (a + j) - N) \notin b.bitmap
  <2> SUFFICES ASSUME NEW j \in 0 .. k - 1
               PROVE  (IF a + j < N THEN a + j ELSE (a + j) - N) \notin b.bitmap
    OBVIOUS
  <2>3. a \in Int /\ 0 <= a /\ a < N /\ N \in Int /\ f \in Int
    BY <1>1, <1>3
  <2>4. j \in Int /\ 0 <= j /\ j < f /\ j < N
    BY <1>1, <1>3, <1>5
  <2> HIDE DEF a, N
  <2>1. j \in 0 .. f - 1 /\ -N <= a + j /\ a + j < N + N /\ a + j \in Int /\ 0 <= a + j
    BY <2>3, <2>4
  <2> USE DEF a, N
  <2>2. (a + j) % N = IF a + j < N THEN a + j ELSE (a + j) - N
    <3>1. a + j < N => (a + j) % N = a + j
      BY <1>1, <2>1, WrapOnce
    <3>2. ASSUME a + j >= N
          PROVE  (a + j) % N = (a + j) - N
      <4>1. N <= a + j /\ a + j < N + N /\ a + j \in Int
        BY <1>1, <2>1, <3>2
      <4> QED
        BY <1>1, <4>1, WrapOnce, Zenon
    <3> QED
      BY <1>1, <2>1, <3>1, <3>2
  <2> QED
    BY <1>3, <2>1, <2>2
<1> HIDE DEF h
<1>8. a <= t => a <= h /\ h <= t
  BY <1>1, <1>2, <1>5, <1>6
<1>9. a > t => a <= h \/ h <= t
  BY <1>1, <1>2, <1>5, <1>6
<1>10. ASSUME NEW s \in b.bitmap, a # t
       PROVE  h # t /\ Between(h, t, s)
  <2>1. s \in 0 .. N - 1 /\ Between(a, t, s)
    BY <1>1 DEF RingOK
  <2>2. CASE a < t
    <3>1. a <= s /\ s < t /\ h = a + k
      BY <1>1, <1>2, <1>5, <1>6, <2>1, <2>2 DEF Between
    <3>2. ~ (s < h)
      <4>1. SUFFICES ASSUME s < h PROVE FALSE
        OBVIOUS
      <4>2. s - a \in 0 .. k - 1 /\ a + (s - a) = s
        BY <1>1, <1>5, <2>1, <3>1, <4>1
      <4> QED
        BY <1>1, <1>7, <2>1, <4>2
    <3> QED
      BY <1>1, <1>5, <2>1, <3>1, <3>2 DEF Between
  <2>3. CASE a > t
    <3>1. s >= a \/ s < t
      BY <1>1, <2>1, <2>3 DEF Between
    <3>2. CASE a + k < N
      <4>1. h = a + k
        BY <1>6, <3>2
      <4>2. ~ (a <= s /\ s < h)
        <5>1. SUFFICES ASSUME a <= s, s < h PROVE FALSE
          OBVIOUS
        <5>2. s - a \in 0 .. k - 1 /\ a + (s - a) = s
          BY <1>1, <1>5, <2>1, <4>1, <5>1
        <5> QED
          BY <1>1, <1>7, <2>1, <5>2
      <4> QED
        BY <1>1, <1>5, <2>1, <2>3, <3>1, <4>1, <4>2 DEF Between
    <3>3. CASE a + k >= N
      <4>1. h = a + k - N /\ h <= t
        BY <1>1, <1>2, <1>5, <1>6, <2>3, <3>3
      <4>2. ~ (s >= a)
        <5>1. SUFFICES ASSUME s >= a PROVE FALSE
          OBVIOUS
        <5>2. s - a \in 0 .. k - 1 /\ a + (s - a) = s
          BY <1>1, <1>5, <2>1, <3>3, <5>1
        <5> QED
          BY <1>1, <1>7, <2>1, <5>2
      <4>3. ~ (s < h)
        <5>1. SUFFICES ASSUME s < h PROVE FALSE
          OBVIOUS
        <5> DEFINE j == s - a + N
        <5>2. j \in 0 .. k - 1 /\ a + j = s + N
          BY <1>1, <1>5, <2>1, <2>3, <4>1, <5>1
        <5> HIDE DEF j
        <5>3. (IF a + j < N THEN a + j ELSE (a + j) - N) = s
          BY <1>1, <2>1, <5>2
        <5> QED
          BY <1>7, <5>2, <5>3
      <4> QED
        BY <1>1, <1>5, <2>1, <2>3, <3>1, <4>1, <4>2, <4>3 DEF Between
    <3> QED
      BY <1>1, <1>5, <3>2, <3>3
  <2> QED
    BY <1>1, <1>10, <2>2, <2>3
<1> QED
  BY <1>6, <1>8, <1>9, <1>10 DEF h, k

(* Where a packet goes there is room for it, in one piece (cluster_rb.sv:  *)
(* 128-176).                                                               *)
LEMMA PushPlace ==
  ASSUME NEW b, RingOK(b), NEW n \in 0 .. NumSlots, FreeSlots(b) >= n, DataFits(b, n)
  PROVE  LET p == PushIdx(b, n)
         IN  /\ p \in Slots /\ p + n <= NumSlots
             /\ \A s \in p .. p + n - 1 : s \in Slots /\ s \notin b.bitmap
             /\ ~ EqualFull(b)
             /\ \/ b.head <= b.tail /\ p = b.tail
                \/ b.head <= b.tail /\ p = 0 /\ n < b.head
                \/ b.head > b.tail /\ p = b.tail /\ b.tail + n <= b.head
<1> DEFINE N == NumSlots
           a == b.head
           t == b.tail
           p == PushIdx(b, n)
<1>1. a \in 0 .. N - 1 /\ t \in 0 .. N - 1 /\ N \in Nat \ {0} /\ b.bitmap \subseteq 0 .. N - 1
  BY Size DEF RingOK, Rings, Slots
<1>2. ~ EqualFull(b)
  BY DEF DataFits
<1>3. a = t => b.bitmap = {}
  BY <1>2 DEF EqualFull
<1>4. Advance(t, 0) = t
  <2>1. t \in Slots /\ 0 \in 0 .. NumSlots /\ t + 0 = t
    BY <1>1 DEF Slots
  <2> QED
    BY <1>1, <2>1, AdvanceFacts
<1>5. Advance(t, N - t) = 0
  <2>1. t \in Slots /\ N - t \in 0 .. NumSlots /\ t + (N - t) = N
    BY <1>1 DEF Slots
  <2> QED
    BY <1>1, <2>1, AdvanceFacts
<1>6. CASE a <= t /\ N - t >= n
  <2>1. p = t
    BY <1>1, <1>4, <1>6 DEF PushIdx, Padding, FitsAtStart, ToEnd
  <2>2. p + n <= N
    BY <1>1, <1>6, <2>1
  <2>3. ASSUME NEW s \in p .. p + n - 1
        PROVE  s \in Slots /\ s \notin b.bitmap
    <3>1. s \in Slots /\ s >= t
      BY <1>1, <1>6, <2>1, <2>2, <2>3 DEF Slots
    <3>2. a < t => ~ Between(a, t, s)
      BY <1>1, <3>1 DEF Between, Slots
    <3> QED
      BY <1>1, <1>3, <1>6, <3>1, <3>2 DEF RingOK
  <2> QED
    BY <1>1, <1>2, <1>6, <2>1, <2>2, <2>3 DEF Slots
<1>7. CASE a <= t /\ N - t < n
  <2>1. n < a
    BY <1>1, <1>7 DEF DataFits, FitsAtTail, FitsAtStart, ToEnd
  <2>2. p = 0
    BY <1>1, <1>2, <1>5, <1>7, <2>1 DEF PushIdx, Padding, FitsAtStart, ToEnd
  <2>3. ASSUME NEW s \in p .. p + n - 1
        PROVE  s \in Slots /\ s \notin b.bitmap
    <3>1. s \in Slots /\ s < a
      BY <1>1, <2>1, <2>2, <2>3 DEF Slots
    <3>2. a < t => ~ Between(a, t, s)
      BY <1>1, <3>1 DEF Between, Slots
    <3> QED
      BY <1>1, <1>3, <1>7, <3>1, <3>2 DEF RingOK
  <2> QED
    BY <1>1, <1>2, <1>7, <2>1, <2>2, <2>3 DEF Slots
<1>8. CASE a > t
  <2>1. n <= a - t
    BY <1>1, <1>2, <1>8 DEF FreeSlots
  <2>2. p = t
    BY <1>1, <1>4, <1>8 DEF PushIdx, Padding, FitsAtStart
  <2>3. p + n <= a
    BY <1>1, <2>1, <2>2
  <2>4. ASSUME NEW s \in p .. p + n - 1
        PROVE  s \in Slots /\ s \notin b.bitmap
    <3>1. s \in Slots /\ t <= s /\ s < a
      BY <1>1, <2>2, <2>3, <2>4 DEF Slots
    <3>2. ~ Between(a, t, s)
      BY <1>1, <1>8, <3>1 DEF Between, Slots
    <3> QED
      BY <3>1, <3>2 DEF RingOK
  <2> QED
    BY <1>1, <1>2, <1>8, <2>2, <2>3, <2>4 DEF Slots
<1> QED
  BY <1>1, <1>6, <1>7, <1>8

(* The tail moves over the packet that is placed, and the head meanwhile   *)
(* over free slots: the used slots stay between them.                      *)
LEMMA RingMoves ==
  ASSUME NEW b, RingOK(b), NEW n \in 0 .. NumSlots, FreeSlots(b) >= n, DataFits(b, n)
  PROVE  LET h == Advance(b.head, HeadIncr(b))
             p == PushIdx(b, n)
             t == Advance(p, n)
         IN  /\ t \in Slots
             /\ \A s \in b.bitmap : Between(h, t, s)
             /\ \A s \in p .. p + n - 1 : Between(h, t, s)
<1> DEFINE N == NumSlots
           a == b.head
           u == b.tail
           h == Advance(b.head, HeadIncr(b))
           p == PushIdx(b, n)
           t == Advance(p, n)
<1>1. a \in 0 .. N - 1 /\ u \in 0 .. N - 1 /\ N \in Nat \ {0} /\ b.bitmap \subseteq 0 .. N - 1
  BY Size DEF RingOK, Rings, Slots
<1>2. /\ h \in 0 .. N - 1
      /\ a <= u => a <= h /\ h <= u
      /\ a > u => a <= h \/ h <= u
      /\ \A s \in b.bitmap : a = u \/ (h # u /\ Between(h, u, s))
  BY HeadMoves DEF Slots
<1>3. /\ p \in Slots /\ p + n <= N /\ ~ EqualFull(b)
      /\ \/ a <= u /\ p = u
         \/ a <= u /\ p = 0 /\ n < a
         \/ a > u /\ p = u /\ u + n <= a
  BY PushPlace
<1>4. t \in Slots /\ t = IF p + n < N THEN p + n ELSE (p + n) - N
  BY <1>1, <1>3, AdvanceFacts
<1>5. t = IF p + n < N THEN p + n ELSE 0
  BY <1>1, <1>3, <1>4 DEF Slots
<1>6. \A s \in b.bitmap : h # u /\ Between(h, u, s) /\ s \in 0 .. N - 1
  BY <1>1, <1>2, <1>3 DEF EqualFull
<1>7. p \in 0 .. N - 1
  BY <1>3 DEF Slots
<1> HIDE DEF h, p, t
<1>8. ASSUME NEW s \in b.bitmap
      PROVE  Between(h, t, s)
  <2>1. h # u /\ Between(h, u, s) /\ s \in 0 .. N - 1
    BY <1>6
  <2> QED
    BY <1>1, <1>2, <1>3, <1>5, <1>7, <2>1 DEF Between
<1>9. ASSUME NEW s \in p .. p + n - 1
      PROVE  Between(h, t, s)
  <2>1. s \in Int /\ p <= s /\ s < p + n
    BY <1>1, <1>7
  <2> QED
    BY <1>1, <1>2, <1>3, <1>5, <1>7, <2>1 DEF Between
<1> QED
  BY <1>4, <1>8, <1>9 DEF h, p, t

(* A ring after a cycle: it holds what it held, less what is freed, plus   *)
(* what is placed.                                                         *)
Pushed(b, A) == UNION {PushIdx(b, n) .. PushIdx(b, n) + n - 1 : n \in A}
Popped(F) == UNION {p.start .. p.start + p.size - 1 : p \in F}
Takes(b, n) == n = 0 \/ (FreeSlots(b) >= n /\ DataFits(b, n))
Accepts(b, A) == A = {} \/ \E n \in Sizes : A = {n} /\ Takes(b, n)

(* A packet without slots goes to the tail, also in a full ring.           *)
LEMMA PushNothing ==
  ASSUME NEW b \in Rings
  PROVE  PushIdx(b, 0) = b.tail /\ FreeSlots(b) >= 0
<1>1. b.tail \in 0 .. NumSlots - 1 /\ b.head \in 0 .. NumSlots - 1 /\ NumSlots \in Nat \ {0}
  BY Size DEF Rings, Slots
<1>2. Padding(b, 0) = 0
  BY <1>1 DEF Padding, FitsAtStart, ToEnd
<1>3. b.tail \in Slots /\ 0 \in 0 .. NumSlots /\ b.tail + 0 = b.tail
  BY <1>1 DEF Slots
<1>4. Advance(b.tail, 0) = b.tail
  BY <1>1, <1>3, AdvanceFacts
<1>5. FreeSlots(b) >= 0
  BY <1>1 DEF FreeSlots, ToEnd
<1> QED
  BY <1>2, <1>4, <1>5 DEF PushIdx

(* A cycle of a ring takes the freed slots out of the bitmap, adds the     *)
(* granted ones, which were free, and keeps the pointers around what is    *)
(* used.                                                                   *)
LEMMA NextRing ==
  ASSUME NEW b, RingOK(b), NEW A, Accepts(b, A), NEW F, Popped(F) \subseteq b.bitmap
  PROVE  LET c == NextRB(b, A, F)
         IN  /\ RingOK(c) /\ c.bitmap = (b.bitmap \ Popped(F)) \cup Pushed(b, A)
             /\ Pushed(b, A) \subseteq Slots \ b.bitmap
<1> DEFINE P == {n \in A : DataFits(b, n)}
           quiet == P = {} /\ F = {} /\ EqualEmpty(b)
           pushed == Pushed(b, P)
           popped == Popped(F)
           flip == (pushed \cup popped) \cap Slots
           h == Advance(b.head, HeadIncr(b))
           t == IF quiet THEN 0
                ELSE IF P = {} THEN b.tail
                ELSE LET n == CHOOSE n \in P : TRUE IN Advance(PushIdx(b, n), n)
           c == NextRB(b, A, F)
           m == (b.bitmap \ flip) \cup (flip \ b.bitmap)
<1>1. c = [bitmap |-> m, head |-> IF quiet THEN 0 ELSE h, tail |-> t]
  BY Zenon DEF NextRB, Pushed, Popped
<1>2. b \in Rings /\ b.bitmap \subseteq Slots /\ b.head \in Slots /\ b.tail \in Slots /\ 0 \in Slots
  BY Size DEF RingOK, Rings, Slots
<1>3. P = {} \/ \E n \in Sizes : P = {n} /\ A = {n} /\ FreeSlots(b) >= n /\ DataFits(b, n)
  <2>1. FreeSlots(b) >= 0
    BY <1>2, PushNothing
  <2> QED
    BY <2>1 DEF Accepts, Takes
<1>4. pushed \subseteq Slots \ b.bitmap
  <2>1. ASSUME NEW n \in P
        PROVE  \A s \in PushIdx(b, n) .. PushIdx(b, n) + n - 1 : s \in Slots /\ s \notin b.bitmap
    <3>1. n \in 0 .. NumSlots /\ FreeSlots(b) >= n /\ DataFits(b, n)
      BY <1>3, Size
    <3> QED
      BY <3>1, PushPlace
  <2> QED
    BY <2>1 DEF Pushed
<1>5. m = (b.bitmap \ popped) \cup pushed
  BY <1>2, <1>4
<1>6. h \in Slots
  BY HeadMoves
<1>7. t \in Slots /\ (quiet \/ \A s \in m : Between(h, t, s))
  <2>1. CASE quiet
    BY <1>2, <2>1
  <2>2. CASE ~ quiet /\ P = {}
    <3>1. t = b.tail
      BY <2>2
    <3>2. m \subseteq b.bitmap
      BY <1>5, <2>2 DEF Pushed
    <3>3. \A s \in b.bitmap : Between(h, b.tail, s)
      <4>1. \A s \in b.bitmap : b.head = b.tail \/ (h # b.tail /\ Between(h, b.tail, s))
        BY HeadMoves
      <4>2. b.head = b.tail => h = b.tail
        <5>1. b.head <= b.tail => b.head <= h /\ h <= b.tail
          BY HeadMoves
        <5> QED
          BY <1>2, <1>6, <5>1, Size DEF Slots
      <4>3. b.head = b.tail => \A s \in b.bitmap : Between(h, b.tail, s)
        <5>1. \A x \in Slots, s \in Slots : Between(x, x, s)
          BY Size DEF Between, Slots
        <5> QED
          BY <1>2, <4>2, <5>1
      <4> QED
        BY <4>1, <4>3
    <3> QED
      BY <1>2, <3>1, <3>2, <3>3
  <2>3. CASE ~ quiet /\ P # {}
    <3>1. PICK n \in Sizes : P = {n} /\ FreeSlots(b) >= n /\ DataFits(b, n)
      BY <1>3, <2>3
    <3>2. n \in 0 .. NumSlots
      BY Size
    <3>3. (CHOOSE x \in P : TRUE) = n
      BY <3>1
    <3>4. t = Advance(PushIdx(b, n), n)
      BY <2>3, <3>3
    <3>5. pushed = PushIdx(b, n) .. PushIdx(b, n) + n - 1
      BY <3>1 DEF Pushed
    <3>6. /\ t \in Slots /\ \A s \in b.bitmap : Between(h, t, s)
          /\ \A s \in PushIdx(b, n) .. PushIdx(b, n) + n - 1 : Between(h, t, s)
      BY <3>1, <3>2, <3>4, RingMoves
    <3> QED
      BY <1>5, <3>5, <3>6
  <2> QED
    BY <2>1, <2>2, <2>3
<1>8. m \subseteq Slots
  BY <1>2, <1>4, <1>5
<1>9. pushed = Pushed(b, A) /\ popped = Popped(F)
  <2>1. CASE P = {} /\ A # {}
    <3>1. A = {0}
      BY <2>1 DEF Accepts, Takes
    <3>2. PushIdx(b, 0) \in Int
      BY <1>2, PushNothing, Size DEF Slots
    <3>3. PushIdx(b, 0) .. PushIdx(b, 0) + 0 - 1 = {}
      BY <3>2
    <3> QED
      BY <2>1, <3>1, <3>3 DEF Pushed
  <2> QED
    BY <1>3, <2>1
<1> HIDE DEF m, h, t, pushed, popped, quiet, P, c
<1>10. c \in Rings /\ c.bitmap = m
  BY <1>1, <1>2, <1>6, <1>7, <1>8 DEF Rings
<1>11. \A s \in c.bitmap : Between(c.head, c.tail, s)
  <2>1. CASE quiet
    <3>1. c.head = 0 /\ c.tail = 0
      BY <1>1, <2>1 DEF t
    <3> QED
      BY <3>1 DEF Between
  <2>2. CASE ~ quiet
    <3>1. c.head = h /\ c.tail = t
      BY <1>1, <2>2
    <3> QED
      BY <1>7, <1>10, <2>2, <3>1
  <2> QED
    BY <2>1, <2>2
<1> QED
  BY <1>4, <1>5, <1>9, <1>10, <1>11 DEF RingOK, c

-----------------------------------------------------------------------------
(* The shim: slot s of ring i is slot i * NumSlots + s of the buffer.      *)
LEMMA InBuffer ==
  ASSUME NEW i \in RBs, NEW s \in Slots
  PROVE  i * NumSlots + s \in Buffer
<1>1. i \in Nat /\ s \in Nat /\ i <= NumRB - 1 /\ s <= NumSlots - 1
  BY Size DEF RBs, Slots
<1>2. i * NumSlots <= (NumRB - 1) * NumSlots
  BY <1>1, Size
<1>3. (NumRB - 1) * NumSlots = NumRB * NumSlots - NumSlots
  BY Size
<1>4. i * NumSlots \in Nat /\ NumRB * NumSlots \in Nat
  BY <1>1, Size
<1> QED
  BY <1>1, <1>2, <1>3, <1>4, Size DEF Buffer

(* A packet in one ring occupies the slots of that ring and no others.     *)
LEMMA Placement ==
  ASSUME NEW j \in RBs, NEW r \in Slots, NEW n \in 0 .. NumSlots, r + n <= NumSlots
  PROVE  LET x == j * NumSlots + r
         IN  /\ x \in Buffer /\ x % NumSlots = r /\ x \div NumSlots = j
             /\ \A y \in x .. x + n - 1 :
                  \E s \in r .. r + n - 1 : s \in Slots /\ y = j * NumSlots + s
             /\ \A i \in RBs, s \in Slots :
                  i * NumSlots + s \in x .. x + n - 1 <=> i = j /\ s \in r .. r + n - 1
<1> DEFINE N == NumSlots
           x == j * N + r
<1>1. j \in Nat /\ r \in 0 .. N - 1 /\ N \in Nat \ {0}
  BY Size DEF RBs, Slots
<1>2. x \in Buffer
  BY InBuffer
<1>3. x % N = r /\ x \div N = j
  BY <1>1, Places
<1>4. j * N \in Nat
  BY <1>1
<1>5. ASSUME NEW y \in x .. x + n - 1
      PROVE  \E s \in r .. r + n - 1 : s \in Slots /\ y = j * N + s
  <2> DEFINE s == y - j * N
  <2>1. s \in r .. r + n - 1 /\ y = j * N + s
    BY <1>1, <1>4
  <2>2. s \in Slots
    BY <1>1, <2>1 DEF Slots
  <2> QED
    BY <2>1, <2>2
<1>6. ASSUME NEW i \in RBs, NEW s \in Slots, i * N + s \in x .. x + n - 1
      PROVE  i = j /\ s \in r .. r + n - 1
  <2>1. PICK t \in r .. r + n - 1 : t \in Slots /\ i * N + s = j * N + t
    BY <1>5, <1>6
  <2>2. i \in Nat /\ s \in 0 .. N - 1 /\ t \in 0 .. N - 1
    BY <2>1 DEF RBs, Slots
  <2>3. \A k \in Nat, u \in 0 .. N - 1 : i * N + s = k * N + u => i = k /\ s = u
    BY <1>1, <2>2, Places, Zenon
  <2>4. i = j /\ s = t
    BY <1>1, <2>1, <2>2, <2>3, Zenon
  <2> QED
    BY <2>1, <2>4
<1>7. ASSUME NEW s \in Slots, s \in r .. r + n - 1
      PROVE  j * N + s \in x .. x + n - 1
  BY <1>1, <1>4, <1>7
<1> QED
  BY <1>2, <1>3, <1>5, <1>6, <1>7

(* An address of the buffer is a slot of a ring.                           *)
LEMMA SlotOf ==
  ASSUME NEW x \in Buffer
  PROVE  /\ x \div NumSlots \in RBs /\ x % NumSlots \in Slots
         /\ x = (x \div NumSlots) * NumSlots + (x % NumSlots)
<1> DEFINE N == NumSlots
           q == x \div N
           r == x % N
<1>1. x \in Nat /\ x < NumRB * N /\ N \in Nat \ {0} /\ NumRB \in Nat
  BY Size DEF Buffer
<1>2. q \in Int /\ r \in Int /\ x = N * q + r /\ 0 <= r /\ r < N
  BY <1>1
<1> HIDE DEF q, r
<1>3. q >= 0
  <2>1. q <= -1 => N * q <= -N
    BY <1>1, <1>2
  <2> QED
    BY <1>1, <1>2, <2>1
<1>4. q < NumRB
  <2>1. q >= NumRB => N * q >= NumRB * N
    BY <1>1, <1>2
  <2> QED
    BY <1>1, <1>2, <1>3, <2>1
<1> QED
  BY <1>1, <1>2, <1>3, <1>4 DEF RBs, Slots, q, r

(* The ring a request goes to has the space it reports.                    *)
LEMMA SelFacts ==
  ASSUME NEW n \in Sizes
  PROVE  SelRB(n) \in RBs /\ (SpaceFor(n) => FreeSlots(rb[SelRB(n)]) >= n)
<1>1. CASE WithSpace(n) = {}
  BY <1>1, Size DEF SelRB, SpaceFor, RBs
<1>2. CASE WithSpace(n) # {}
  <2>1. WithSpace(n) \in SUBSET Nat /\ WithSpace(n) \subseteq RBs
    BY Size DEF WithSpace, RBs
  <2>2. \E i \in WithSpace(n) : \A j \in WithSpace(n) : i <= j
    BY <1>2, <2>1, LeastExists
  <2>3. SelRB(n) = CHOOSE i \in WithSpace(n) : \A j \in WithSpace(n) : i <= j
    BY <1>2 DEF SelRB
  <2>4. SelRB(n) \in WithSpace(n)
    BY <2>2, <2>3
  <2> QED
    BY <2>1, <2>4 DEF WithSpace
<1> QED
  BY <1>1, <1>2

(* The slots of a packet, seen from the buffer and from its ring.          *)
Fits(p) == /\ p.start \in Buffer /\ p.size \in 0 .. NumSlots
           /\ (p.start % NumSlots) + p.size <= NumSlots

(* The slots of a packet that lies within one buffer.                      *)
LEMMA PacketSlots ==
  ASSUME NEW p, Fits(p)
  PROVE  /\ Occupied(p) \subseteq Buffer /\ FreedRB(p) \in RBs
         /\ \A i \in RBs, s \in Slots :
              i * NumSlots + s \in Occupied(p)
                <=> i = FreedRB(p) /\ s \in p.start % NumSlots .. (p.start % NumSlots) + p.size - 1
         /\ p.start % NumSlots .. (p.start % NumSlots) + p.size - 1 \subseteq Slots
<1> DEFINE N == NumSlots
           j == p.start \div N
           r == p.start % N
           n == p.size
<1>1. j \in RBs /\ r \in Slots /\ p.start = j * N + r
  BY SlotOf DEF Fits
<1>2. n \in 0 .. N /\ r + n <= N
  BY DEF Fits
<1> HIDE DEF j, r, n
<1>3. /\ \A y \in j * N + r .. j * N + r + n - 1 :
           \E s \in r .. r + n - 1 : s \in Slots /\ y = j * N + s
      /\ \A i \in RBs, s \in Slots :
           i * N + s \in j * N + r .. j * N + r + n - 1 <=> i = j /\ s \in r .. r + n - 1
  BY <1>1, <1>2, Placement
<1>4. Occupied(p) = j * N + r .. j * N + r + n - 1
  BY <1>1 DEF Occupied, n
<1>5. Occupied(p) \subseteq Buffer
  BY <1>1, <1>3, <1>4, InBuffer
<1>6. r .. r + n - 1 \subseteq Slots
  BY <1>1, <1>2, Size DEF Slots
<1> QED
  BY <1>1, <1>3, <1>4, <1>5, <1>6 DEF FreedRB, j, r, n

(* What each ring is asked to free and to place, and what the whole buffer *)
(* loses and gains.                                                        *)
Freed(F, i) == {Relative(p) : p \in {q \in F : FreedRB(q) = i}}
Asked(A, i) == {n \in A : SelRB(n) = i}
Placed(A)   == {[start |-> AllocIndex(n), size |-> n] : n \in A}
Mine(i, P)  == {s \in Slots : \E p \in P : i * NumSlots + s \in Occupied(p)}

(* What the feedbacks free of buffer i are the slots that their packets    *)
(* have there.                                                             *)
LEMMA FreedSlots ==
  ASSUME NEW F, \A p \in F : p \in Packets /\ Fits(p), NEW i \in RBs
  PROVE  Popped(Freed(F, i)) = Mine(i, F)
<1>1. ASSUME NEW p \in F
      PROVE  Relative(p).start = p.start % NumSlots /\ Relative(p).size = p.size
  BY DEF Packets, Relative
<1>2. ASSUME NEW p \in F, FreedRB(p) = i
      PROVE  Relative(p).start .. Relative(p).start + Relative(p).size - 1
               = {s \in Slots : i * NumSlots + s \in Occupied(p)}
  BY <1>1, <1>2, PacketSlots
<1>3. ASSUME NEW p \in F, FreedRB(p) # i
      PROVE  \A s \in Slots : i * NumSlots + s \notin Occupied(p)
  BY <1>3, PacketSlots
<1>4. Popped(Freed(F, i)) =
        UNION {Relative(p).start .. Relative(p).start + Relative(p).size - 1 :
                 p \in {q \in F : FreedRB(q) = i}}
  BY DEF Popped, Freed
<1>5. ASSUME NEW s
      PROVE  s \in Popped(Freed(F, i)) <=> s \in Mine(i, F)
  <2>1. ASSUME s \in Popped(Freed(F, i))
        PROVE  s \in Mine(i, F)
    BY <1>2, <1>4, <2>1 DEF Mine
  <2>2. ASSUME s \in Mine(i, F)
        PROVE  s \in Popped(Freed(F, i))
    <3>1. PICK p \in F : s \in Slots /\ i * NumSlots + s \in Occupied(p)
      BY <2>2 DEF Mine
    <3>2. FreedRB(p) = i
      BY <1>3, <3>1
    <3> QED
      BY <1>2, <1>4, <3>1, <3>2
  <2> QED
    BY <2>1, <2>2
<1> QED
  BY <1>5

(* What may be placed: a request for space the allocator reports and       *)
(* grants, or for none.                                                    *)
Granted(n) == n = 0 \/ (SpaceFor(n) /\ AllocReady(n))

(* Where a granted packet is put: in one ring, over free slots.            *)
LEMMA NewPacket ==
  ASSUME IInv, NEW n \in Sizes, Granted(n)
  PROVE  LET p == [start |-> AllocIndex(n), size |-> n]
         IN  /\ p \in Packets /\ Fits(p) /\ FreedRB(p) = SelRB(n)
             /\ p.start % NumSlots = PushIdx(rb[SelRB(n)], n)
<1> DEFINE j == SelRB(n)
           r == PushIdx(rb[j], n)
           x == j * NumSlots + r
           p == [start |-> AllocIndex(n), size |-> n]
<1>1. j \in RBs /\ n \in 0 .. NumSlots /\ Takes(rb[j], n)
  BY SelFacts, Size DEF AllocReady, Granted, Takes
<1>2. RingOK(rb[j])
  BY <1>1 DEF IInv
<1>3. r \in Slots /\ r + n <= NumSlots
  <2>1. CASE n = 0
    BY <1>2, <2>1, PushNothing, Size DEF RingOK, Rings, Slots
  <2>2. CASE n # 0
    BY <1>1, <1>2, <2>2, PushPlace DEF Takes
  <2> QED
    BY <2>1, <2>2
<1> HIDE DEF j, r
<1>4. x \in Buffer /\ x % NumSlots = r /\ x \div NumSlots = j
  BY <1>1, <1>3, Placement
<1>5. p.start = x /\ p.size = n
  BY DEF AllocIndex, j, r
<1>6. x \in Nat
  BY <1>4 DEF Buffer
<1> HIDE DEF x
<1>7. p \in Packets
  BY <1>5, <1>6 DEF Packets
<1> QED
  BY <1>1, <1>3, <1>4, <1>5, <1>7 DEF Fits, FreedRB, j, r

(* What a grant takes of buffer i are the slots of the packet placed       *)
(* there.                                                                  *)
LEMMA PlacedSlots ==
  ASSUME IInv, NEW A, A \subseteq Sizes, \A n \in A : Granted(n), NEW i \in RBs
  PROVE  Pushed(rb[i], Asked(A, i)) = Mine(i, Placed(A))
<1> DEFINE new(n) == [start |-> AllocIndex(n), size |-> n]
<1>1. ASSUME NEW n \in A
      PROVE  /\ Fits(new(n)) /\ FreedRB(new(n)) = SelRB(n)
             /\ new(n).start % NumSlots = PushIdx(rb[SelRB(n)], n) /\ new(n).size = n
  BY NewPacket
<1> DEFINE run(n) == PushIdx(rb[i], n) .. PushIdx(rb[i], n) + n - 1
<1>2. ASSUME NEW n \in A, SelRB(n) = i
      PROVE  run(n) = {s \in Slots : i * NumSlots + s \in Occupied(new(n))}
  BY <1>1, <1>2, PacketSlots
<1>3. ASSUME NEW n \in A, SelRB(n) # i
      PROVE  \A s \in Slots : i * NumSlots + s \notin Occupied(new(n))
  BY <1>1, <1>3, PacketSlots
<1>4. Pushed(rb[i], Asked(A, i)) = UNION {run(n) : n \in {m \in A : SelRB(m) = i}}
  BY DEF Pushed, Asked
<1>5. Placed(A) = {new(n) : n \in A}
  BY DEF Placed
<1> HIDE DEF new, run
<1>6. ASSUME NEW s
      PROVE  s \in Pushed(rb[i], Asked(A, i)) <=> s \in Mine(i, Placed(A))
  <2>1. ASSUME s \in Pushed(rb[i], Asked(A, i))
        PROVE  s \in Mine(i, Placed(A))
    BY <1>2, <1>4, <1>5, <2>1 DEF Mine
  <2>2. ASSUME s \in Mine(i, Placed(A))
        PROVE  s \in Pushed(rb[i], Asked(A, i))
    <3>1. PICK n \in A : s \in Slots /\ i * NumSlots + s \in Occupied(new(n))
      BY <1>5, <2>2 DEF Mine
    <3>2. SelRB(n) = i
      BY <1>3, <3>1
    <3> QED
      BY <1>2, <1>4, <3>1, <3>2
  <2> QED
    BY <2>1, <2>2
<1> QED
  BY <1>6

(* What may be freed: a live packet, or one without slots.                 *)
Frees(F) == \A p \in F : p \in live \/ (p \in Packets /\ Fits(p) /\ p.size = 0)

(* A feedback is that of a packet placed in one buffer, still there unless *)
(* it is empty.                                                            *)
LEMMA FreesFacts ==
  ASSUME IInv, NEW F, Frees(F)
  PROVE  /\ \A p \in F : p \in Packets /\ Fits(p)
         /\ \A p \in F : p \in live \/ Occupied(p) = {}
<1>1. \A p \in live : p \in Packets /\ Fits(p)
  BY Size DEF IInv, TypeOK, InOneRing, Fits, Packets
<1>2. ASSUME NEW p \in Packets, p.size = 0
      PROVE  Occupied(p) = {}
  BY <1>2 DEF Packets, Occupied
<1> QED
  BY <1>1, <1>2 DEF Frees

(* A cycle that places only what the allocator grants and frees only live  *)
(* packets keeps the books: the rings, the bitmaps and the packets agree.  *)
LEMMA CycleStep ==
  ASSUME IInv, NEW A, A = {} \/ \E n \in Sizes : A = {n} /\ Granted(n),
         NEW F, Frees(F), RBCycle(A, F)
  PROVE  IInv' /\ \A p \in live, q \in Placed(A) : Occupied(p) \cap Occupied(q) = {}
<1> DEFINE b(i) == rb[i]
           c(i) == NextRB(rb[i], Asked(A, i), Freed(F, i))
           G == Placed(A)
<1>1. /\ rb' = [i \in RBs |-> c(i)] /\ live' = (live \ F) \cup G
  BY DEF RBCycle, Asked, Freed, Placed
<1>2. A \subseteq Sizes /\ \A n \in A : Granted(n)
  OBVIOUS
<1>3. \A p \in live : p \in Packets /\ Fits(p)
  BY Size DEF IInv, TypeOK, InOneRing, Fits, Packets
<1>4. /\ \A p \in F : p \in Packets /\ Fits(p)
      /\ \A p \in F : p \in live \/ Occupied(p) = {}
  BY FreesFacts
<1>5. \A p \in G : p \in Packets /\ Fits(p)
  BY <1>2, NewPacket DEF Placed
<1>6. \A p, q \in G : p = q
  BY DEF Placed
<1>7. ASSUME NEW i \in RBs
      PROVE  /\ RingOK(c(i)) /\ c(i).bitmap = (rb[i].bitmap \ Mine(i, F)) \cup Mine(i, G)
             /\ Mine(i, G) \subseteq Slots \ rb[i].bitmap /\ rb[i].bitmap = Mine(i, live)
  <2>1. RingOK(rb[i]) /\ rb[i].bitmap = Mine(i, live)
    BY DEF IInv, BitmapExact, Mine
  <2>2. Accepts(rb[i], Asked(A, i))
    <3>1. CASE Asked(A, i) = {}
      BY <3>1 DEF Accepts
    <3>2. CASE Asked(A, i) # {}
      <4>1. PICK n \in Sizes : A = {n} /\ Granted(n)
        BY <3>2 DEF Asked
      <4>2. SelRB(n) = i /\ Asked(A, i) = {n}
        BY <3>2, <4>1 DEF Asked
      <4>3. Takes(rb[i], n)
        BY <4>1, <4>2, SelFacts DEF AllocReady, Granted, Takes
      <4> QED
        BY <4>2, <4>3 DEF Accepts
    <3> QED
      BY <3>1, <3>2
  <2>3. Popped(Freed(F, i)) = Mine(i, F)
    BY <1>4, FreedSlots
  <2>4. Pushed(rb[i], Asked(A, i)) = Mine(i, G)
    BY <1>2, PlacedSlots
  <2>5. Popped(Freed(F, i)) \subseteq rb[i].bitmap
    BY <1>4, <2>1, <2>3 DEF Mine
  <2> QED
    BY <2>1, <2>2, <2>3, <2>4, <2>5, NextRing
<1> HIDE DEF c, G
<1>8. \A p \in live' : p \in Packets /\ Fits(p)
  BY <1>1, <1>3, <1>5
<1>9. \A i \in RBs : RingOK(rb'[i]) /\ rb'[i].bitmap = (rb[i].bitmap \ Mine(i, F)) \cup Mine(i, G)
  BY <1>1, <1>7
<1>10. TypeOK'
  <2>1. rb' \in [RBs -> Rings]
    BY <1>1, <1>7 DEF RingOK
  <2> QED
    BY <1>8, <2>1 DEF TypeOK, Rings
<1>11. InOneRing'
  BY <1>8 DEF InOneRing, Fits
<1>12. \A p, q \in live : p # q => Occupied(p) \cap Occupied(q) = {}
  BY DEF IInv, PacketsDisjoint
<1>13. \A p \in live, q \in G : Occupied(p) \cap Occupied(q) = {}
  <2> SUFFICES ASSUME NEW p \in live, NEW q \in G, NEW x \in Occupied(p), x \in Occupied(q)
               PROVE  FALSE
    OBVIOUS
  <2>1. x \in Buffer
    BY <1>3, PacketSlots
  <2> DEFINE i == x \div NumSlots
             s == x % NumSlots
  <2>2. i \in RBs /\ s \in Slots /\ x = i * NumSlots + s
    BY <2>1, SlotOf
  <2> HIDE DEF i, s
  <2>3. s \in Mine(i, live) /\ s \in Mine(i, G)
    BY <2>2 DEF Mine
  <2> QED
    BY <1>7, <2>2, <2>3
<1>14. PacketsDisjoint'
  <2>1. \A p \in live' : Occupied(p) \subseteq Buffer
    BY <1>8, PacketSlots
  <2>2. \A p, q \in live' : p # q => Occupied(p) \cap Occupied(q) = {}
    BY <1>1, <1>6, <1>12, <1>13
  <2> QED
    BY <2>1, <2>2 DEF PacketsDisjoint, Occupied
<1>15. BitmapExact'
  <2> SUFFICES ASSUME NEW i \in RBs
               PROVE  rb'[i].bitmap = Mine(i, live')
    BY DEF BitmapExact, Mine, Occupied
  <2>1. rb'[i].bitmap = (Mine(i, live) \ Mine(i, F)) \cup Mine(i, G)
    BY <1>7, <1>9
  <2>2. Mine(i, live) \ Mine(i, F) = Mine(i, live \ F)
    BY <1>12, <1>4 DEF Mine
  <2>3. Mine(i, live') = Mine(i, live \ F) \cup Mine(i, G)
    BY <1>1 DEF Mine
  <2> QED
    BY <2>1, <2>2, <2>3
<1>16. IInv'
  BY <1>9, <1>10, <1>11, <1>14, <1>15 DEF IInv, RingOK, Between
<1> QED
  BY <1>13, <1>16 DEF G

(* The buffers start empty.                                                *)
LEMMA InitInv == Init => IInv
<1> SUFFICES ASSUME Init PROVE IInv
  OBVIOUS
<1>1. 0 \in Slots
  BY Size DEF Slots
<1>2. TypeOK
  BY <1>1 DEF Init, TypeOK
<1>3. \A i \in RBs : RingOK(rb[i])
  BY <1>1 DEF Init, RingOK, Rings
<1>4. InOneRing /\ PacketsDisjoint
  BY DEF Init, InOneRing, PacketsDisjoint
<1>5. BitmapExact
  BY DEF Init, BitmapExact
<1> QED
  BY <1>2, <1>3, <1>4, <1>5 DEF IInv

-----------------------------------------------------------------------------
(* Packets of one size that divides the ring: every place is a multiple of *)
(* that size, nothing is skipped at the end of a ring, and what a ring     *)
(* reports as free fits.                                                   *)
Uniform(u) == u \in 1 .. NumSlots /\ NumSlots % u = 0 /\ Sizes \subseteq {0, u}
Grid(u) == {k * u : k \in Int}
Block(u, S) == \A g \in Grid(u) \cap Slots : \A s \in g .. g + u - 1 : s \in S <=> g \in S
RingAligned(u, b) == b.head \in Grid(u) /\ b.tail \in Grid(u) /\ Block(u, b.bitmap)
Aligned(u) ==
  /\ \A i \in RBs : RingAligned(u, rb[i])
  /\ \A p \in live : p.size = 0 \/ p.start % NumSlots \in Grid(u)

(* When all packets are multiples of u slots, the multiples of u contain   *)
(* the start and the end of a ring, are closed under sum and difference,   *)
(* and any two of them are u apart.                                        *)
LEMMA GridFacts ==
  ASSUME NEW u, Uniform(u)
  PROVE  /\ u \in Nat \ {0} /\ Grid(u) \subseteq Int
         /\ 0 \in Grid(u) /\ u \in Grid(u) /\ NumSlots \in Grid(u)
         /\ \A x, y \in Grid(u) : x + y \in Grid(u) /\ x - y \in Grid(u)
         /\ \A x, y \in Grid(u) : x < y => x + u <= y
         /\ \A x \in Int : \E g \in Grid(u) : g <= x /\ x < g + u
<1>1. u \in Nat \ {0} /\ NumSlots \in Nat \ {0} /\ NumSlots % u = 0
  BY Size DEF Uniform
<1>2. Grid(u) \subseteq Int
  BY <1>1 DEF Grid
<1>3. 0 \in Grid(u) /\ u \in Grid(u)
  <2>1. 0 * u = 0 /\ 1 * u = u
    BY <1>1
  <2> QED
    BY <2>1 DEF Grid
<1>4. NumSlots \in Grid(u)
  <2> DEFINE q == NumSlots \div u
  <2>1. q \in Int /\ NumSlots = u * q + (NumSlots % u)
    BY <1>1
  <2> HIDE DEF q
  <2>2. NumSlots = q * u
    BY <1>1, <2>1
  <2> QED
    BY <2>1, <2>2 DEF Grid
<1>5. ASSUME NEW x \in Grid(u), NEW y \in Grid(u)
      PROVE  x + y \in Grid(u) /\ x - y \in Grid(u) /\ (x < y => x + u <= y)
  <2>1. PICK k \in Int, l \in Int : x = k * u /\ y = l * u
    BY <1>5 DEF Grid
  <2>2. x + y = (k + l) * u /\ k + l \in Int
    BY <1>1, <2>1
  <2>3. x - y = (k - l) * u /\ k - l \in Int
    BY <1>1, <2>1
  <2>4. x < y => x + u <= y
    <3>1. k >= l => (k - l) * u >= 0
      BY <1>1, <2>1
    <3>2. k < l => (l - k - 1) * u >= 0
      BY <1>1, <2>1
    <3>3. (l - k - 1) * u = y - x - u
      BY <1>1, <2>1
    <3> QED
      BY <1>1, <1>2, <2>3, <3>1, <3>2, <3>3
  <2> QED
    BY <2>2, <2>3, <2>4 DEF Grid
<1>6. ASSUME NEW x \in Int
      PROVE  \E g \in Grid(u) : g <= x /\ x < g + u
  <2> DEFINE q == x \div u
             r == x % u
  <2>1. q \in Int /\ r \in Int /\ x = u * q + r /\ 0 <= r /\ r < u
    BY <1>1
  <2> HIDE DEF q, r
  <2>2. q * u \in Int /\ q * u = u * q
    BY <1>1, <2>1
  <2>3. q * u <= x /\ x < q * u + u
    BY <1>1, <2>1, <2>2
  <2> QED
    BY <2>1, <2>3 DEF Grid
<1> QED
  BY <1>1, <1>2, <1>3, <1>4, <1>5, <1>6

(* A pointer on the grid that advances by a multiple of u stays on it.     *)
LEMMA AdvanceOnGrid ==
  ASSUME NEW u, Uniform(u), NEW p \in Slots, NEW k \in 0 .. NumSlots, p \in Grid(u), k \in Grid(u)
  PROVE  Advance(p, k) \in Grid(u)
<1>1. p + k \in Grid(u) /\ (p + k) - NumSlots \in Grid(u)
  BY GridFacts
<1> QED
  BY <1>1, AdvanceFacts

(* The head stays on the grid: it stops at a block of u slots that is used *)
(* as a whole.                                                             *)
LEMMA HeadOnGrid ==
  ASSUME NEW u, Uniform(u), NEW b, RingOK(b), RingAligned(u, b)
  PROVE  Advance(b.head, HeadIncr(b)) \in Grid(u)
<1> DEFINE N == NumSlots
           a == b.head
           t == b.tail
           m == MaxRun(b)
           f == FreeRun(b)
           k == HeadIncr(b)
           G == Grid(u)
           at(j) == IF a + j < N THEN a + j ELSE (a + j) - N
<1>1. /\ a \in 0 .. N - 1 /\ t \in 0 .. N - 1 /\ N \in Nat \ {0} /\ b.bitmap \subseteq 0 .. N - 1
      /\ b \in Rings
  BY Size DEF RingOK, Rings, Slots
<1>2. /\ u \in Nat \ {0} /\ G \subseteq Int /\ 0 \in G /\ N \in G
      /\ \A x, y \in G : x + y \in G /\ x - y \in G
      /\ \A x, y \in G : x < y => x + u <= y
      /\ \A x \in Int : \E g \in G : g <= x /\ x < g + u
  BY GridFacts
<1>3. a \in G /\ t \in G /\ Block(u, b.bitmap)
  BY DEF RingAligned
<1>4. m = IF t >= a THEN t - a ELSE t - a + N
  <2>1. t - a \in Int /\ -N <= t - a /\ t - a < 2 * N
    BY <1>1
  <2>2. (t - a) % N = IF t - a < 0 THEN t - a + N ELSE IF t - a < N THEN t - a ELSE t - a - N
    BY <1>1, <2>1, Wrap
  <2> QED
    BY <1>1, <2>2 DEF MaxRun
<1>5. ASSUME NEW j \in 0 .. N - 1
      PROVE  (a + j) % N = at(j)
  <2>1. -N <= a + j /\ a + j < N + N /\ a + j \in Int /\ 0 <= a + j
    BY <1>1, <1>5
  <2>2. a + j < N => (a + j) % N = a + j
    BY <1>1, <2>1, WrapOnce
  <2>3. a + j >= N => N <= a + j
    BY <1>1, <2>1
  <2>4. a + j >= N => (a + j) % N = (a + j) - N
    BY <1>1, <2>1, <2>3, WrapOnce, Zenon
  <2> QED
    BY <1>1, <2>1, <2>2, <2>4
<1>6. /\ f \in 0 .. N /\ \A j \in 0 .. f - 1 : at(j) \notin b.bitmap
      /\ f < N => at(f) \in b.bitmap
  <2>1. /\ f \in 0 .. N /\ \A j \in 0 .. f - 1 : (a + j) % N \notin b.bitmap
        /\ f < N => (a + f) % N \in b.bitmap
    BY <1>1, FreeRunFacts, Zenon
  <2>2. f < N => f \in 0 .. N - 1
    BY <1>1, <2>1
  <2>3. \A j \in 0 .. f - 1 : j \in 0 .. N - 1
    BY <1>1, <2>1
  <2> HIDE DEF at
  <2> QED
    BY <1>5, <2>1, <2>2, <2>3
<1>7. k = IF m > f THEN f ELSE m
  BY DEF HeadIncr
<1> HIDE DEF m, f, k, G
<1>8. k \in 0 .. N
  BY <1>1, <1>4, <1>6, <1>7
<1>9. Advance(a, k) = at(k)
  BY <1>1, <1>8, AdvanceFacts DEF Slots
<1>10. CASE k = m
  <2>1. at(k) = t
    BY <1>1, <1>4, <1>10
  <2> QED
    BY <1>3, <1>9, <2>1 DEF G, k
<1>11. CASE k = f /\ f < m
  <2> DEFINE s == at(f)
  <2>1. f < N /\ s \in b.bitmap /\ s \in 0 .. N - 1
    BY <1>1, <1>4, <1>6, <1>11
  <2>10. \E g \in G : g <= s /\ s < g + u
    <3>1. s \in Int
      BY <2>1
    <3> HIDE DEF s
    <3> QED
      BY <1>2, <3>1, Zenon
  <2> HIDE DEF s
  <2>2. PICK g \in G : g <= s /\ s < g + u
    BY <2>10
  <2>3. g \in Int /\ u \in Nat
    BY <1>2
  <2>9. s \in Int /\ a \in Int
    BY <1>1, <2>1
  <2>4. 0 <= g
    <3>1. g < 0 => g + u <= 0
      BY <1>2, Zenon
    <3> QED
      BY <1>2, <2>1, <2>2, <2>3, <3>1
  <2>5. g \in Slots /\ s \in g .. g + u - 1
    <3>1. s \in 0 .. N - 1 /\ u \in Nat /\ N \in Nat
      BY <1>1, <1>2, <2>1
    <3> QED
      BY <2>2, <2>3, <2>4, <3>1 DEF Slots
  <2>6. g \in b.bitmap
    BY <1>3, <2>1, <2>5 DEF Block, G
  <2>7. ~ (g < s)
    <3> SUFFICES ASSUME g < s PROVE FALSE
      OBVIOUS
    <3>1. CASE a + f < N
      <4>1. s = a + f
        BY <3>1 DEF s
      <4>2. a <= g
        <5>1. g < a => g + u <= a
          BY <1>2, <1>3, Zenon DEF G
        <5>2. s >= a
          BY <1>1, <1>6, <4>1
        <5> QED
          BY <2>2, <2>3, <2>9, <5>1, <5>2
      <4>3. g - a \in 0 .. f - 1 /\ a + (g - a) = g
        BY <1>1, <1>6, <2>3, <4>1, <4>2
      <4>4. at(g - a) = g
        BY <1>1, <2>1, <2>3, <4>1, <4>3
      <4> HIDE DEF at
      <4> QED
        BY <1>6, <2>6, <4>3, <4>4
    <3>2. CASE a + f >= N
      <4>1. s = (a + f) - N
        BY <1>1, <1>6, <3>2 DEF s
      <4> DEFINE j == (g - a) + N
      <4>2. j \in 0 .. f - 1 /\ a + j = g + N
        BY <1>1, <1>6, <2>3, <2>4, <4>1, <2>1
      <4>3. j \in 0 .. f - 1 /\ at(j) = g
        BY <1>1, <2>3, <2>4, <4>2
      <4> HIDE DEF at, j
      <4> QED
        BY <1>6, <2>6, <4>3
    <3> QED
      BY <1>1, <1>6, <3>1, <3>2
  <2>8. s = g
    BY <2>1, <2>2, <2>3, <2>7
  <2> HIDE DEF at
  <2> QED
    BY <1>9, <1>11, <2>8, Zenon DEF G, s, k
<1>12. m \in Int /\ f \in Int
  BY <1>1, <1>4, <1>6
<1>13. k = m \/ (k = f /\ f < m)
  BY <1>7, <1>12
<1> QED
  BY <1>10, <1>11, <1>13

(* What a ring reports as free for a packet fits, at the tail.             *)
LEMMA UniformFits ==
  ASSUME NEW u, Uniform(u), NEW b, RingOK(b), RingAligned(u, b), FreeSlots(b) >= u
  PROVE  DataFits(b, u) /\ PushIdx(b, u) = b.tail
<1> DEFINE G == Grid(u)
<1>1. b.tail \in 0 .. NumSlots - 1 /\ b.head \in 0 .. NumSlots - 1 /\ NumSlots \in Nat \ {0}
  BY Size DEF RingOK, Rings, Slots
<1>2. u \in Nat \ {0} /\ NumSlots \in G /\ b.tail \in G /\ \A x, y \in G : x < y => x + u <= y
  BY GridFacts DEF RingAligned
<1> HIDE DEF G
<1>3. ~ EqualFull(b)
  BY <1>2 DEF FreeSlots
<1>4. b.tail + u <= NumSlots
  BY <1>1, <1>2
<1>5. DataFits(b, u) /\ Padding(b, u) = 0
  BY <1>1, <1>2, <1>3, <1>4 DEF DataFits, FitsAtTail, FitsAtStart, Padding, ToEnd
<1>6. b.tail \in Slots /\ 0 \in 0 .. NumSlots /\ b.tail + 0 = b.tail
  BY <1>1 DEF Slots
<1>7. Advance(b.tail, 0) = b.tail
  BY <1>1, <1>6, AdvanceFacts
<1> QED
  BY <1>5, <1>7 DEF PushIdx

(* The u slots from a point of the grid are one block of it.               *)
LEMMA BlockOfOne ==
  ASSUME NEW u, Uniform(u), NEW p \in Slots, p \in Grid(u)
  PROVE  Block(u, p .. p + u - 1)
<1> SUFFICES ASSUME NEW g \in Grid(u) \cap Slots, NEW s \in g .. g + u - 1
             PROVE  s \in p .. p + u - 1 <=> g \in p .. p + u - 1
  BY DEF Block
<1>1. /\ u \in Nat \ {0} /\ Grid(u) \subseteq Int
      /\ \A x, y \in Grid(u) : x < y => x + u <= y
  BY GridFacts
<1>2. (p < g => p + u <= g) /\ (g < p => g + u <= p) /\ p \in Int /\ g \in Int
  BY <1>1
<1> QED
  BY <1>1, <1>2

(* A cycle of a ring on the grid leaves it on the grid.                    *)
LEMMA NextAligned ==
  ASSUME NEW u, Uniform(u), NEW b, RingOK(b), RingAligned(u, b), NEW A, Accepts(b, A),
         NEW F, Popped(F) \subseteq b.bitmap, Block(u, Popped(F))
  PROVE  RingAligned(u, NextRB(b, A, F))
<1> DEFINE P == {n \in A : DataFits(b, n)}
           quiet == P = {} /\ F = {} /\ EqualEmpty(b)
           h == Advance(b.head, HeadIncr(b))
           t == IF quiet THEN 0
                ELSE IF P = {} THEN b.tail
                ELSE LET n == CHOOSE n \in P : TRUE IN Advance(PushIdx(b, n), n)
           c == NextRB(b, A, F)
<1>1. c.head = (IF quiet THEN 0 ELSE h) /\ c.tail = t
  BY DEF NextRB
<1>2. c.bitmap = (b.bitmap \ Popped(F)) \cup Pushed(b, A)
  BY NextRing
<1>3. /\ b \in Rings /\ b.tail \in Slots /\ b.tail \in Grid(u) /\ b.bitmap \subseteq Slots
      /\ 0 \in Grid(u) /\ u \in Grid(u) /\ u \in 0 .. NumSlots /\ 0 \in 0 .. NumSlots
  BY GridFacts, Size DEF RingOK, RingAligned, Rings, Uniform
<1>4. h \in Grid(u)
  BY HeadOnGrid
<1>5. ASSUME NEW n \in A, n # 0
      PROVE  n = u /\ DataFits(b, n) /\ PushIdx(b, n) = b.tail /\ A = {n}
  <2>1. n \in Sizes /\ A = {n} /\ Takes(b, n)
    BY <1>5 DEF Accepts
  <2>2. n = u /\ FreeSlots(b) >= u
    BY <1>5, <2>1 DEF Uniform, Takes
  <2> QED
    BY <2>1, <2>2, UniformFits
<1>6. PushIdx(b, 0) = b.tail
  BY <1>3, PushNothing
<1>7. t \in Grid(u)
  <2>1. CASE quiet \/ P = {}
    BY <1>3, <2>1
  <2>2. CASE ~ quiet /\ P # {}
    <3> DEFINE n == CHOOSE n \in P : TRUE
    <3>1. n \in A
      BY <2>2
    <3>2. t = Advance(PushIdx(b, n), n)
      BY <2>2
    <3> HIDE DEF n
    <3>3. PushIdx(b, n) = b.tail /\ (n = u \/ n = 0)
      BY <1>5, <1>6, <3>1
    <3> QED
      BY <1>3, <3>2, <3>3, AdvanceOnGrid
  <2> QED
    BY <2>1, <2>2
<1>8. Block(u, Pushed(b, A))
  <2>1. CASE \A n \in A : n = 0
    <3>1. \A n \in A : PushIdx(b, n) .. PushIdx(b, n) + n - 1 = {}
      BY <1>3, <1>6, <2>1, Size DEF Slots
    <3>2. Pushed(b, A) = {}
      BY <3>1 DEF Pushed
    <3> QED
      BY <3>2 DEF Block
  <2>2. CASE \E n \in A : n # 0
    <3>1. A = {u} /\ PushIdx(b, u) = b.tail
      BY <1>5, <2>2
    <3>2. Pushed(b, A) = b.tail .. b.tail + u - 1
      BY <3>1 DEF Pushed
    <3> QED
      BY <1>3, <3>2, BlockOfOne
  <2> QED
    BY <2>1, <2>2
<1>9. Block(u, b.bitmap)
  BY DEF RingAligned
<1>10. Block(u, c.bitmap)
  BY <1>2, <1>8, <1>9 DEF Block
<1> HIDE DEF h, t, quiet, P, c
<1> QED
  BY <1>1, <1>3, <1>4, <1>7, <1>10 DEF RingAligned, c

(* A packet is put on the grid.                                            *)
LEMMA UniformPlace ==
  ASSUME IInv, NEW u, Uniform(u), Aligned(u), NEW n \in Sizes, Granted(n)
  PROVE  PushIdx(rb[SelRB(n)], n) \in Grid(u)
<1> DEFINE b == rb[SelRB(n)]
<1>1. SelRB(n) \in RBs /\ Takes(b, n)
  BY SelFacts DEF AllocReady, Granted, Takes
<1>2. RingOK(b) /\ RingAligned(u, b) /\ b \in Rings
  BY <1>1 DEF IInv, Aligned, RingOK
<1> HIDE DEF b
<1>3. PushIdx(b, n) = b.tail
  BY <1>1, <1>2, PushNothing, UniformFits DEF Takes, Uniform
<1> QED
  BY <1>2, <1>3 DEF RingAligned, b

(* On the grid a request that is reported as fitting is granted.           *)
LEMMA UniformGrants ==
  ASSUME IInv, NEW u, Uniform(u), Aligned(u), NEW n \in Sizes, SpaceFor(n)
  PROVE  Granted(n) /\ (n # 0 => AllocReady(n))
<1>1. SelRB(n) \in RBs /\ FreeSlots(rb[SelRB(n)]) >= n
  BY SelFacts
<1>2. RingOK(rb[SelRB(n)]) /\ RingAligned(u, rb[SelRB(n)])
  BY <1>1 DEF IInv, Aligned
<1>3. n # 0 => AllocReady(n)
  BY <1>1, <1>2, UniformFits DEF Uniform, AllocReady
<1> QED
  BY <1>3 DEF Granted

(* A cycle of the allocator leaves all rings on the grid.                  *)
LEMMA AlignedStep ==
  ASSUME IInv, NEW u, Uniform(u), Aligned(u),
         NEW A, A = {} \/ \E n \in Sizes : A = {n} /\ Granted(n),
         NEW F, Frees(F), \A p, q \in F : p = q, RBCycle(A, F)
  PROVE  Aligned(u)'
<1> DEFINE c(i) == NextRB(rb[i], Asked(A, i), Freed(F, i))
<1>1. /\ rb' = [i \in RBs |-> c(i)] /\ live' = (live \ F) \cup Placed(A)
  BY DEF RBCycle, Asked, Freed, Placed
<1>2. \A p \in live : p \in Packets /\ Fits(p) /\ (p.size = 0 \/ p.start % NumSlots \in Grid(u))
  BY Size DEF IInv, TypeOK, InOneRing, Fits, Packets, Aligned
<1>3. /\ \A p \in F : p \in Packets /\ Fits(p)
      /\ \A p \in F : p \in live \/ Occupied(p) = {}
  BY FreesFacts
<1>4. ASSUME NEW i \in RBs
      PROVE  RingAligned(u, c(i))
  <2>1. RingOK(rb[i]) /\ rb[i].bitmap = Mine(i, live) /\ RingAligned(u, rb[i])
    BY DEF IInv, BitmapExact, Mine, Aligned
  <2>2. Accepts(rb[i], Asked(A, i))
    <3>1. CASE Asked(A, i) = {}
      BY <3>1 DEF Accepts
    <3>2. CASE Asked(A, i) # {}
      <4>1. PICK n \in Sizes : A = {n} /\ Granted(n)
        BY <3>2 DEF Asked
      <4>2. SelRB(n) = i /\ Asked(A, i) = {n}
        BY <3>2, <4>1 DEF Asked
      <4>3. Takes(rb[i], n)
        BY <4>1, <4>2, SelFacts DEF AllocReady, Granted, Takes
      <4> QED
        BY <4>2, <4>3 DEF Accepts
    <3> QED
      BY <3>1, <3>2
  <2>3. Popped(Freed(F, i)) = Mine(i, F)
    BY <1>3, FreedSlots
  <2>4. Popped(Freed(F, i)) \subseteq rb[i].bitmap
    BY <1>3, <2>1, <2>3 DEF Mine
  <2>5. Block(u, Mine(i, F))
    <3>1. CASE Mine(i, F) = {}
      BY <3>1 DEF Block
    <3>2. CASE Mine(i, F) # {}
      <4>1. PICK s \in Slots, p \in F : i * NumSlots + s \in Occupied(p)
        BY <3>2 DEF Mine
      <4>2. Fits(p) /\ p \in Packets /\ (p.size = 0 \/ p.start % NumSlots \in Grid(u))
        BY <1>2, <1>3, <4>1
      <4> DEFINE r == p.start % NumSlots
      <4>3. FreedRB(p) = i /\ s \in r .. r + p.size - 1
        BY <4>1, <4>2, PacketSlots
      <4>4. r \in Slots
        BY <4>2, SlotOf DEF Fits
      <4>5. p.size = u
        <5>1. p.size \in {0, u}
          BY <4>2 DEF Packets, Uniform
        <5> HIDE DEF r
        <5> QED
          BY <4>3, <4>4, <5>1, Size DEF Slots
      <4>6. r \in Grid(u)
        BY <4>2, <4>5, GridFacts
      <4>7. Mine(i, F) = {x \in Slots : i * NumSlots + x \in Occupied(p)}
        BY DEF Mine
      <4>8. Mine(i, F) = r .. r + p.size - 1
        BY <4>2, <4>3, <4>7, PacketSlots
      <4> HIDE DEF r
      <4> QED
        BY <4>4, <4>5, <4>6, <4>8, BlockOfOne
    <3> QED
      BY <3>1, <3>2
  <2> QED
    BY <2>1, <2>2, <2>3, <2>4, <2>5, NextAligned
<1>5. \A p \in Placed(A) : p.size = 0 \/ p.start % NumSlots \in Grid(u)
  <2> SUFFICES ASSUME NEW n \in A
               PROVE  [start |-> AllocIndex(n), size |-> n].start % NumSlots \in Grid(u)
    BY DEF Placed
  <2>1. n \in Sizes /\ Granted(n)
    OBVIOUS
  <2>2. [start |-> AllocIndex(n), size |-> n].start % NumSlots = PushIdx(rb[SelRB(n)], n)
    BY <2>1, NewPacket
  <2> QED
    BY <2>1, <2>2, UniformPlace
<1>6. \A i \in RBs : RingAligned(u, rb'[i])
  BY <1>1, <1>4
<1>7. \A p \in live' : p.size = 0 \/ p.start % NumSlots \in Grid(u)
  BY <1>1, <1>2, <1>5
<1> QED
  BY <1>6, <1>7 DEF Aligned, RingAligned, Block

-----------------------------------------------------------------------------
(* Whatever the requester does, the pointers stay in the ring.             *)
LEMMA CycleType ==
  ASSUME TypeOK, NEW A \in SUBSET Sizes, NEW F, RBCycle(A, F)
  PROVE  TypeOK'
<1> DEFINE c(i) == NextRB(rb[i], Asked(A, i), Freed(F, i))
<1>1. rb' = [i \in RBs |-> c(i)] /\ live' = (live \ F) \cup Placed(A)
  BY DEF RBCycle, Asked, Freed, Placed
<1>2. \A i \in RBs : rb[i] \in Rings
  BY DEF TypeOK, Rings
<1>3. \A p \in Int, k \in Int : Advance(p, k) \in Slots
  BY Size DEF Advance, Slots
<1>4. ASSUME NEW b \in Rings, NEW n \in Nat
      PROVE  PushIdx(b, n) \in Slots
  <2>1. b.tail \in Int /\ Padding(b, n) \in Int
    BY <1>4, Size DEF Rings, Slots, Padding, ToEnd
  <2> QED
    BY <1>3, <2>1 DEF PushIdx
<1>5. ASSUME NEW i \in RBs
      PROVE  c(i) \in Rings
  <2> DEFINE b == rb[i]
             P == {n \in Asked(A, i) : DataFits(b, n)}
             pushed == UNION {PushIdx(b, n) .. PushIdx(b, n) + n - 1 : n \in P}
             popped == UNION {p.start .. p.start + p.size - 1 : p \in Freed(F, i)}
             flip == (pushed \cup popped) \cap Slots
             quiet == P = {} /\ Freed(F, i) = {} /\ EqualEmpty(b)
             h == IF quiet THEN 0 ELSE Advance(b.head, HeadIncr(b))
             t == IF quiet THEN 0
                  ELSE IF P = {} THEN b.tail
                  ELSE LET n == CHOOSE n \in P : TRUE IN Advance(PushIdx(b, n), n)
             m == (b.bitmap \ flip) \cup (flip \ b.bitmap)
  <2>1. c(i) = [bitmap |-> m, head |-> h, tail |-> t]
    BY Zenon DEF NextRB
  <2>2. b \in Rings /\ b.bitmap \subseteq Slots /\ b.head \in Slots /\ b.tail \in Slots
    BY <1>2 DEF Rings
  <2>3. h \in Slots
    <3>1. FreeRun(b) \in Int
      BY <2>2, FreeRunFacts
    <3>2. MaxRun(b) \in Int /\ b.head \in Int
      BY <2>2, Size DEF MaxRun, Slots
    <3>3. HeadIncr(b) \in Int
      BY <3>1, <3>2 DEF HeadIncr
    <3>4. Advance(b.head, HeadIncr(b)) \in Slots
      BY <1>3, <3>2, <3>3
    <3> QED
      BY <3>4, Size DEF Slots
  <2>4. t \in Slots
    <3>1. CASE P = {}
      BY <2>2, <3>1, Size DEF Slots
    <3>2. CASE P # {}
      <4>1. (CHOOSE n \in P : TRUE) \in P
        BY <3>2
      <4>2. P \subseteq Nat
        <5>1. A \subseteq Nat
          BY Size
        <5> QED
          BY <5>1 DEF Asked
      <4>3. \A n \in P : Advance(PushIdx(b, n), n) \in Slots
        <5>1. \A n \in P : PushIdx(b, n) \in Int /\ n \in Int
          BY <1>4, <2>2, <4>2 DEF Slots
        <5> QED
          BY <1>3, <5>1
      <4> QED
        BY <3>2, <4>1, <4>3
    <3> QED
      BY <3>1, <3>2
  <2>5. m \subseteq Slots
    BY <2>2
  <2> HIDE DEF m, h, t, c
  <2> QED
    BY <2>1, <2>3, <2>4, <2>5 DEF Rings
<1> HIDE DEF c
<1>6. Placed(A) \subseteq Packets
  <2>1. ASSUME NEW n \in A
        PROVE  [start |-> AllocIndex(n), size |-> n] \in Packets
    <3>1. n \in Sizes /\ n \in Nat
      BY Size
    <3>2. SelRB(n) \in RBs
      BY <3>1, SelFacts
    <3>3. PushIdx(rb[SelRB(n)], n) \in Nat /\ SelRB(n) \in Nat
      BY <1>2, <1>4, <3>1, <3>2 DEF Slots, RBs
    <3>4. AllocIndex(n) \in Nat
      <4>1. SelRB(n) * NumSlots \in Nat
        BY <3>3, Size
      <4> QED
        BY <3>3, <4>1 DEF AllocIndex
    <3> QED
      BY <3>1, <3>4 DEF Packets
  <2> QED
    BY <2>1 DEF Placed
<1>7. live' \subseteq Packets
  BY <1>1, <1>6 DEF TypeOK
<1>8. rb' \in [RBs -> Rings]
  BY <1>1, <1>5
<1> QED
  BY <1>7, <1>8 DEF TypeOK, Rings, Packets

(* Every step keeps the types, however the allocator is used.              *)
LEMMA TypeStep == TypeOK /\ [Next]_vars => TypeOK'
<1> SUFFICES ASSUME TypeOK, [Next]_vars
             PROVE  TypeOK'
  OBVIOUS
<1>1. CASE UNCHANGED vars
  BY <1>1 DEF vars, TypeOK, Packets
<1>2. ASSUME NEW A \in {{}} \cup {{n} : n \in Sizes}, NEW F \in {{}} \cup {{p} : p \in live},
             RBCycle(A, F)
      PROVE  TypeOK'
  BY <1>2, CycleType
<1> QED
  BY <1>1, <1>2 DEF Next

(* The allocator's pointers and its packets keep their types.              *)
THEOREM TypeCorrect == Spec => []TypeOK
<1>1. Init => TypeOK
  BY InitInv DEF IInv
<1>2. TypeOK /\ [Next]_vars => TypeOK'
  BY TypeStep
<1> QED
  BY <1>1, <1>2, PTL DEF Spec

(* When the allocator may be trusted: its handshake is obeyed, or, as      *)
(* cluster_scheduler.sv uses it, all packets have one size that divides    *)
(* the ring.                                                               *)
UsedSafely == Handshake \/ \E u \in Nat : Uniform(u)

AllocInv == IInv /\ \A u \in Nat : Uniform(u) => Aligned(u)

(* A cycle in which the allocator is used safely keeps its invariant, and  *)
(* places nothing over a packet that is there.                             *)
LEMMA AllocStep ==
  ASSUME UsedSafely, AllocInv, NEW A, A = {} \/ \E n \in Sizes : A = {n} /\ MayAlloc(n),
         NEW F, Frees(F), \A p, q \in F : p = q, RBCycle(A, F)
  PROVE  AllocInv' /\ \A p \in live, q \in Placed(A) : Occupied(p) \cap Occupied(q) = {}
<1>1. IInv /\ \A u \in Nat : Uniform(u) => Aligned(u)
  BY DEF AllocInv
<1>2. ASSUME NEW n \in Sizes, MayAlloc(n)
      PROVE  Granted(n)
  BY <1>1, <1>2, UniformGrants DEF UsedSafely, MayAlloc, Granted
<1>3. A = {} \/ \E n \in Sizes : A = {n} /\ Granted(n)
  BY <1>2
<1>4. IInv' /\ \A p \in live, q \in Placed(A) : Occupied(p) \cap Occupied(q) = {}
  BY <1>1, <1>3, CycleStep
<1>5. \A u \in Nat : Uniform(u) => Aligned(u)'
  BY <1>1, <1>3, AlignedStep
<1> QED
  BY <1>4, <1>5 DEF AllocInv, Uniform

(* The invariant of the allocator holds at first.                          *)
LEMMA AllocInit == Init => AllocInv
<1> SUFFICES ASSUME Init, NEW u \in Nat, Uniform(u)
             PROVE  Aligned(u)
  BY InitInv DEF AllocInv
<1>1. 0 \in Grid(u)
  BY GridFacts
<1> QED
  BY <1>1 DEF Init, Aligned, RingAligned, Block

(* It depends on nothing but the state of the allocator.                   *)
LEMMA AllocIdle == AllocInv /\ UNCHANGED vars => AllocInv'
<1> SUFFICES ASSUME AllocInv, rb' = rb, live' = live
             PROVE  AllocInv'
  BY DEF vars
<1>1. IInv'
  BY DEF AllocInv, IInv, TypeOK, Packets, RingOK, Between, InOneRing, PacketsDisjoint,
         Occupied, BitmapExact
<1>2. \A u \in Nat : Uniform(u) => Aligned(u)'
  BY DEF AllocInv, Aligned
<1> QED
  BY <1>1, <1>2 DEF AllocInv, Uniform

(* Every packet lies in one ring over slots of its own, the bitmaps say    *)
(* which, and the used slots of a ring lie between its head and its tail   *)
(* (cluster_rb.sv:82-176).                                                 *)
THEOREM AllocInvariance ==
  ASSUME UsedSafely
  PROVE  Spec => []AllocInv
<1>1. Init => AllocInv
  BY AllocInit
<1>2. AllocInv /\ [Next]_vars => AllocInv'
  <2> SUFFICES ASSUME AllocInv, [Next]_vars
               PROVE  AllocInv'
    OBVIOUS
  <2>1. CASE UNCHANGED vars
    BY <2>1, AllocIdle
  <2>2. ASSUME NEW A \in {{}} \cup {{n} : n \in Sizes}, NEW F \in {{}} \cup {{p} : p \in live},
               \A n \in A : MayAlloc(n), RBCycle(A, F)
        PROVE  AllocInv'
    <3>1. A = {} \/ \E n \in Sizes : A = {n} /\ MayAlloc(n)
      BY <2>2
    <3>2. Frees(F) /\ \A p, q \in F : p = q
      BY <2>2 DEF Frees
    <3> QED
      BY <2>2, <3>1, <3>2, AllocStep
  <2> QED
    BY <2>1, <2>2 DEF Next
<1> QED
  BY <1>1, <1>2, PTL DEF Spec

(* No slot of the packet buffer belongs to two packets.                    *)
THEOREM PacketsAreDisjoint ==
  ASSUME UsedSafely
  PROVE  Spec => []PacketsDisjoint
<1>1. AllocInv => PacketsDisjoint
  BY DEF AllocInv, IInv
<1> QED
  BY <1>1, AllocInvariance, PTL

(* The bitmaps say exactly which slots are taken.                          *)
THEOREM BitmapsAreExact ==
  ASSUME UsedSafely
  PROVE  Spec => []BitmapExact
<1>1. AllocInv => BitmapExact
  BY DEF AllocInv, IInv
<1> QED
  BY <1>1, AllocInvariance, PTL

(* The space a ring reports is there, in one piece, where the next packet  *)
(* goes (cluster_rb.sv:128-139).                                           *)
THEOREM SpaceIsThere ==
  ASSUME UsedSafely
  PROVE  Spec => []ReportedSpaceIsFree
<1>1. AllocInv => ReportedSpaceIsFree
  <2> SUFFICES ASSUME AllocInv, NEW i \in RBs, NEW n \in Sizes,
                      FreeSlots(rb[i]) >= n, DataFits(rb[i], n)
               PROVE  /\ PushIdx(rb[i], n) + n <= NumSlots
                      /\ (PushIdx(rb[i], n) .. PushIdx(rb[i], n) + n - 1) \cap rb[i].bitmap = {}
    BY DEF ReportedSpaceIsFree
  <2>1. RingOK(rb[i]) /\ n \in 0 .. NumSlots
    BY Size DEF AllocInv, IInv
  <2> QED
    BY <2>1, PushPlace
<1> QED
  BY <1>1, AllocInvariance, PTL

(* With packets of one size that divides the ring, space that is reported  *)
(* is granted, so that cluster_scheduler.sv may ignore alloc_ready_o       *)
(* (lines 94 and 205).  Run RBGrant shows that another size breaks it.     *)
THEOREM SpaceIsGranted ==
  ASSUME \E u \in Nat : Uniform(u)
  PROVE  Spec => []ReportedSpaceIsGranted
<1>1. AllocInv => ReportedSpaceIsGranted
  BY UniformGrants DEF AllocInv, ReportedSpaceIsGranted
<1>2. UsedSafely
  BY DEF UsedSafely
<1> QED
  BY <1>1, <1>2, AllocInvariance, PTL

=============================================================================
