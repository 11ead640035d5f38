--------------------------- MODULE NicInboundProofs ---------------------------
(***************************************************************************)
(* The ring of L2 memory of NicInbound never overlaps, loses or leaks a    *)
(* packet: for any size of the buffer and of the packets, any number of    *)
(* them and of MPQs, and any order of feedbacks.                           *)
(***************************************************************************)
EXTENDS NicInbound, Integers, FiniteSetTheorems, WellFoundedInduction, TLAPS

(* A tile: a part of the buffer that is in use, by a packet or by one that *)
(* was freed and waits for the head.                                       *)
Tile == [at : Nat, size : Nat \ {0}]
Covers(t, x) == t.at <= x /\ x < t.at + t.size

FreedOf(req) == {o \in Offsets : req[o] # 0}
TilesOf(a, live, req) ==
  {[at |-> a[p], size |-> trace[p].size] : p \in live}
    \cup {[at |-> o, size |-> req[o]] : o \in FreedOf(req)}

InRing(r, x) == IF r.cut THEN (r.head <= x /\ x < r.cutPtr) \/ x < r.tail
                ELSE r.head <= x /\ x < r.tail

(* The pointers go around exactly the tiles of T, which do not overlap.    *)
(* After a cut the tail is behind the head, which it may reach, and no     *)
(* tile lies across both.                                                  *)
RingType == [head : Offsets, tail : Offsets, cutPtr : Offsets, cut : BOOLEAN, inFlight : Nat]

RingOK(r, T) ==
  /\ r \in RingType
  /\ T \subseteq Tile
  /\ \A t, u \in T : \A x \in Nat : Covers(t, x) /\ Covers(u, x) => t = u
  /\ \A x \in Nat : InRing(r, x) <=> \E t \in T : Covers(t, x)
  /\ r.cut => 0 < r.tail /\ r.tail <= r.head /\ r.head <= r.cutPtr
  /\ r.cut => \A t \in T : r.head <= t.at \/ t.at + t.size <= r.tail
  /\ ~ r.cut => r.head <= r.tail

(* The ring accounts for the packets of live, at the addresses a, and for  *)
(* those freed; n packets are still to come.                               *)
Accounted(r, req, a, live, n) ==
  /\ req \in [Offsets -> {0} \cup Sizes] /\ a \in [Ids -> Offsets] /\ live \subseteq Ids
  /\ RingOK(r, TilesOf(a, live, req))
  /\ \A p, q \in live : a[p] = a[q] => p = q
  /\ \A p \in live : req[a[p]] = 0
  /\ r.inFlight = Cardinality(live) + Cardinality(FreedOf(req))
  /\ r.inFlight + n <= NumPkts

(* A packet is in one place at a time: to come, being written, ready, or   *)
(* sent and not fed back; and of these, on the HER ports, in the FIFO of   *)
(* its MPQ, or running.                                                    *)
Once(s) == \A j, k \in DOMAIN s : s[j] = s[k] => j = k
Holds(s) == {s[k].el : k \in DOMAIN s}
Apart(s) == \A j, k \in DOMAIN s : s[j].el = s[k].el => j = k

NicOnce ==
  /\ Once(incoming) /\ Once(queued) /\ Once(ready)
  /\ InSeq(incoming) \cap Live = {}
  /\ InSeq(queued) \cap InSeq(ready) = {}
  /\ (InSeq(queued) \cup InSeq(ready)) \cap pktmap = {}

PsPINOnce ==
  /\ running \subseteq pktmap
  /\ her.valid => her.pkt \in pktmap \ running
  /\ \A m \in Msgs : Apart(fifo[m])
  /\ \A m \in Msgs : \A p \in Holds(fifo[m]) :
        p \in pktmap \ running /\ trace[p].msg = m /\ (her.valid => p # her.pkt)

IInv ==
  /\ TypeOK
  /\ Accounted(ring, freeReq, addr, Live, Len(incoming))
  /\ NicOnce
  /\ PsPINOnce

-----------------------------------------------------------------------------
(* What is assumed of the constants.                                       *)
LEMMA Params ==
  /\ Size \in Nat \ {0} /\ NumPkts \in Nat \ {0} /\ NumMsgs \in Nat \ {0}
  /\ \A s \in Sizes : s \in Nat \ {0} /\ s <= Size
BY NicParams

(* In ring r with tiles T a packet of s segments that fits gets the tile t *)
(* at address a, and w is the ring afterwards.                             *)
Placed(r, T, s, w, a, t) ==
  /\ CanAllocate(r, s) /\ (r.inFlight = 0 => T = {})
  /\ w = Allocate(r, s) /\ a = Wrap(r, s).tail /\ t = [at |-> a, size |-> s]

(* A packet that fits is placed where the ring uses nothing, and the       *)
(* pointers go around it afterwards.                                       *)
LEMMA AllocateKeeps ==
  ASSUME NEW r, NEW T, RingOK(r, T), NEW s \in Sizes, NEW w, NEW a, NEW t,
         Placed(r, T, s, w, a, t)
  PROVE  /\ a \in Offsets /\ a + s <= Size
         /\ \A x \in Nat : Covers(t, x) => ~ InRing(r, x)
         /\ RingOK(w, T \cup {t}) /\ w.inFlight = r.inFlight + 1
<1> DEFINE hd == r.head
           tl == r.tail
           cp == r.cutPtr
           U == T \cup {t}
<1>0. /\ CanAllocate(r, s) /\ (r.inFlight = 0 => T = {})
      /\ w = Allocate(r, s) /\ a = Wrap(r, s).tail /\ t = [at |-> a, size |-> s]
  BY DEF Placed
<1>1. /\ hd \in Nat /\ tl \in Nat /\ cp \in Nat /\ hd <= Size /\ tl <= Size /\ cp <= Size
      /\ r.cut \in BOOLEAN /\ r.inFlight \in Nat
  BY Params DEF RingOK, RingType, Offsets
<1>2. r = [head |-> hd, tail |-> tl, cutPtr |-> cp, cut |-> r.cut, inFlight |-> r.inFlight]
  BY DEF RingOK, RingType
<1>3. s \in Nat \ {0} /\ s <= Size /\ Size \in Nat
  BY Params
<1>4. /\ T \subseteq Tile
      /\ \A u, v \in T : \A x \in Nat : Covers(u, x) /\ Covers(v, x) => u = v
      /\ \A x \in Nat : InRing(r, x) <=> \E u \in T : Covers(u, x)
      /\ r.cut => 0 < tl /\ tl <= hd /\ hd <= cp
      /\ r.cut => \A u \in T : hd <= u.at \/ u.at + u.size <= tl
      /\ ~ r.cut => hd <= tl
  BY DEF RingOK
<1>5. \A x \in Nat : InRing(r, x) <=> IF r.cut THEN (hd <= x /\ x < cp) \/ x < tl
                                      ELSE hd <= x /\ x < tl
  BY DEF InRing
<1>6. \A x \in Nat : Covers(t, x) <=> a <= x /\ x < a + s
  BY <1>0 DEF Covers
<1>7. r.cut => T # {}
  <2> SUFFICES ASSUME r.cut PROVE T # {}
    OBVIOUS
  <2>1. InRing(r, 0)
    BY <1>1, <1>4, <1>5
  <2> QED
    BY <1>4, <2>1
<1>8. r.cut => ~ Linear(r)
  BY <1>0, <1>1, <1>4, <1>7 DEF Linear
<1> HIDE DEF hd, tl, cp
<1>9. \/ FitsAtEnd(r, s) /\ ~ r.cut /\ tl + s <= Size
      \/ FitsAtStart(r, s) /\ ~ r.cut /\ s <= hd
      \/ ~ FitsAtStart(r, s) /\ r.cut /\ tl + s <= hd
  <2>1. CASE FitsAtEnd(r, s)
    BY <1>1, <1>3, <1>8, <2>1 DEF FitsAtEnd, tl
  <2>2. CASE FitsAtStart(r, s)
    BY <1>1, <1>3, <1>8, <2>2 DEF FitsAtStart, hd
  <2>3. CASE FitsBelowHead(r, s) /\ ~ FitsAtStart(r, s)
    BY <1>1, <1>3, <1>4, <2>3 DEF FitsBelowHead, tl, hd
  <2> QED
    BY <1>0, <2>1, <2>2, <2>3 DEF CanAllocate
<1>10. r \in RingType
  BY DEF RingOK
<1>11. CASE ~ FitsAtStart(r, s)
  <2>1. a = tl /\ w = [[r EXCEPT !.tail = @ + s] EXCEPT !.inFlight = @ + 1]
    BY <1>0, <1>11 DEF Wrap, Allocate, tl
  <2>2. tl + s \in Offsets
    BY <1>1, <1>3, <1>9, <1>11 DEF Offsets
  <2>3. /\ w \in RingType /\ w.head = hd /\ w.tail = tl + s /\ w.cutPtr = cp
        /\ w.cut = r.cut /\ w.inFlight = r.inFlight + 1
    <3> DEFINE v == [r EXCEPT !.tail = @ + s]
    <3>1. /\ v \in RingType /\ v.head = hd /\ v.tail = tl + s /\ v.cutPtr = cp
          /\ v.cut = r.cut /\ v.inFlight = r.inFlight
      BY <1>10, <2>2 DEF RingType, tl, hd, cp
    <3>2. w = [v EXCEPT !.inFlight = @ + 1]
      BY <2>1
    <3>3. v.inFlight + 1 \in Nat
      BY <1>1, <3>1
    <3> HIDE DEF v
    <3> QED
      BY <3>1, <3>2, <3>3 DEF RingType
  <2>4. \A x \in Nat : InRing(w, x) <=> IF r.cut THEN (hd <= x /\ x < cp) \/ x < tl + s
                                        ELSE hd <= x /\ x < tl + s
    BY <2>3 DEF InRing
  <2>5. tl + s <= Size /\ (r.cut => tl + s <= hd)
    BY <1>1, <1>3, <1>9, <1>11
  <2>6. \A x \in Nat : Covers(t, x) => ~ InRing(r, x)
    BY <1>1, <1>3, <1>4, <1>5, <1>6, <2>1, <2>5
  <2>7. \A x \in Nat : InRing(w, x) <=> InRing(r, x) \/ Covers(t, x)
    BY <1>1, <1>3, <1>4, <1>5, <1>6, <2>1, <2>4, <2>5
  <2>8. t.at = tl /\ t.size = s /\ t \in Tile
    BY <1>0, <1>1, <1>3, <2>1 DEF Tile
  <2>9. \A u, v \in U : \A x \in Nat : Covers(u, x) /\ Covers(v, x) => u = v
    BY <1>4, <2>6
  <2>10. \A x \in Nat : InRing(w, x) <=> \E u \in U : Covers(u, x)
    BY <1>4, <2>7
  <2>11. w.cut => \A u \in U : w.head <= u.at \/ u.at + u.size <= w.tail
    <3> SUFFICES ASSUME r.cut, NEW u \in U PROVE hd <= u.at \/ u.at + u.size <= tl + s
      BY <2>3
    <3>1. CASE u = t
      BY <1>1, <1>3, <2>8, <3>1
    <3>2. CASE u \in T
      <4>1. u.at \in Nat /\ u.size \in Nat /\ (hd <= u.at \/ u.at + u.size <= tl)
        BY <1>4, <3>2 DEF Tile
      <4> QED
        BY <1>1, <1>3, <4>1
    <3> QED
      BY <3>1, <3>2
  <2>12. /\ w.cut => 0 < w.tail /\ w.tail <= w.head /\ w.head <= w.cutPtr
         /\ ~ w.cut => w.head <= w.tail
    BY <1>1, <1>3, <1>4, <2>3, <2>5
  <2>13. RingOK(w, U)
    BY <1>4, <2>3, <2>8, <2>9, <2>10, <2>11, <2>12 DEF RingOK
  <2> QED
    BY <1>1, <1>3, <2>1, <2>3, <2>5, <2>6, <2>13 DEF Offsets
<1>12. CASE FitsAtStart(r, s)
  <2>1. a = 0 /\ w = [[r EXCEPT !.cutPtr = r.tail, !.cut = TRUE, !.tail = 0]
                        EXCEPT !.tail = @ + s, !.inFlight = @ + 1]
    BY <1>0, <1>12, <1>10 DEF Wrap, Allocate, RingType
  <2>2. s \in Offsets /\ tl \in Offsets
    BY <1>1, <1>3 DEF Offsets
  <2>3. /\ w \in RingType /\ w.head = hd /\ w.tail = s /\ w.cutPtr = tl
        /\ w.cut = TRUE /\ w.inFlight = r.inFlight + 1
    <3> DEFINE v == [r EXCEPT !.cutPtr = r.tail, !.cut = TRUE, !.tail = 0]
    <3>1. /\ v \in RingType /\ v.head = hd /\ v.tail = 0 /\ v.cutPtr = tl
          /\ v.cut = TRUE /\ v.inFlight = r.inFlight
      <4>1. 0 \in Offsets
        BY <1>3 DEF Offsets
      <4>2. v \in RingType
        BY <1>10, <4>1 DEF RingType
      <4> QED
        BY <1>10, <4>2 DEF RingType, tl, hd
    <3>2. w = [v EXCEPT !.tail = @ + s, !.inFlight = @ + 1]
      BY <2>1
    <3>3. v.inFlight + 1 \in Nat /\ v.tail + s = s
      BY <1>1, <1>3, <3>1
    <3> HIDE DEF v
    <3> QED
      BY <2>2, <3>1, <3>2, <3>3 DEF RingType
  <2>4. \A x \in Nat : InRing(w, x) <=> (hd <= x /\ x < tl) \/ x < s
    BY <2>3 DEF InRing
  <2>5. ~ r.cut /\ s <= hd /\ hd <= tl
    BY <1>1, <1>3, <1>4, <1>9, <1>12 DEF FitsAtStart
  <2>6. \A x \in Nat : Covers(t, x) => ~ InRing(r, x)
    BY <1>1, <1>3, <1>5, <1>6, <2>1, <2>5
  <2>7. \A x \in Nat : InRing(w, x) <=> InRing(r, x) \/ Covers(t, x)
    BY <1>1, <1>3, <1>5, <1>6, <2>1, <2>4, <2>5
  <2>8. t.at = 0 /\ t.size = s /\ t \in Tile
    BY <1>0, <1>1, <1>3, <2>1 DEF Tile
  <2>9. \A u, v \in U : \A x \in Nat : Covers(u, x) /\ Covers(v, x) => u = v
    BY <1>4, <2>6
  <2>10. \A x \in Nat : InRing(w, x) <=> \E u \in U : Covers(u, x)
    BY <1>4, <2>7
  <2>11. w.cut => \A u \in U : w.head <= u.at \/ u.at + u.size <= w.tail
    <3> SUFFICES ASSUME NEW u \in U PROVE hd <= u.at \/ u.at + u.size <= s
      BY <2>3
    <3>1. CASE u = t
      BY <1>1, <1>3, <2>8, <3>1
    <3>2. CASE u \in T
      <4>1. u.at \in Nat /\ u.size \in Nat \ {0}
        BY <1>4, <3>2 DEF Tile
      <4>2. Covers(u, u.at)
        BY <4>1 DEF Covers
      <4>3. InRing(r, u.at)
        BY <1>4, <3>2, <4>1, <4>2
      <4> QED
        BY <1>1, <1>5, <2>5, <4>1, <4>3
    <3> QED
      BY <3>1, <3>2
  <2>12. /\ w.cut => 0 < w.tail /\ w.tail <= w.head /\ w.head <= w.cutPtr
         /\ ~ w.cut => w.head <= w.tail
    BY <1>1, <1>3, <2>3, <2>5
  <2>13. RingOK(w, U)
    BY <1>4, <2>3, <2>8, <2>9, <2>10, <2>11, <2>12 DEF RingOK
  <2> QED
    BY <1>1, <1>3, <2>1, <2>3, <2>5, <2>6, <2>13 DEF Offsets
<1> QED
  BY <1>11, <1>12

(* The tile at the head, which is freed, leaves the ring.                  *)
LEMMA AdvanceKeeps ==
  ASSUME NEW r, NEW T, RingOK(r, T), NEW t \in T, t.at = r.head, r.inFlight # 0,
         NEW req, t.size = req[r.head], NEW w, w = Advance(r, req)[1]
  PROVE  RingOK(w, T \ {t}) /\ w.inFlight = r.inFlight - 1
<1> DEFINE hd == r.head
           tl == r.tail
           cp == r.cutPtr
           s == t.size
           U == T \ {t}
           back == r.cut /\ hd + s = cp
<1>1. /\ hd \in Nat /\ tl \in Nat /\ cp \in Nat /\ hd <= Size /\ tl <= Size /\ cp <= Size
      /\ r.cut \in BOOLEAN /\ r.inFlight \in Nat /\ Size \in Nat
  BY Params DEF RingOK, RingType, Offsets
<1>2. /\ T \subseteq Tile
      /\ \A u, v \in T : \A x \in Nat : Covers(u, x) /\ Covers(v, x) => u = v
      /\ \A x \in Nat : InRing(r, x) <=> \E u \in T : Covers(u, x)
      /\ r.cut => 0 < tl /\ tl <= hd /\ hd <= cp
      /\ r.cut => \A u \in T : hd <= u.at \/ u.at + u.size <= tl
      /\ ~ r.cut => hd <= tl
  BY DEF RingOK
<1>3. \A x \in Nat : InRing(r, x) <=> IF r.cut THEN (hd <= x /\ x < cp) \/ x < tl
                                      ELSE hd <= x /\ x < tl
  BY DEF InRing
<1>4. s \in Nat \ {0} /\ \A x \in Nat : Covers(t, x) <=> hd <= x /\ x < hd + s
  BY <1>2 DEF Tile, Covers
<1>5. r \in RingType
  BY DEF RingOK
<1>6. w = [r EXCEPT !.head = IF back THEN 0 ELSE hd + s, !.cut = r.cut /\ ~ back,
                    !.inFlight = @ - 1]
  BY DEF Advance
<1> HIDE DEF hd, tl, cp, s
<1>7. hd + s <= (IF r.cut THEN cp ELSE tl)
  <2>1. hd + s - 1 \in Nat /\ Covers(t, hd + s - 1)
    BY <1>1, <1>4
  <2>2. InRing(r, hd + s - 1)
    BY <1>2, <2>1
  <2> QED
    BY <1>1, <1>2, <1>3, <1>4, <2>1, <2>2
<1>8. back \in BOOLEAN /\ (back => r.cut /\ hd + s = cp)
  BY <1>1
<1>9. hd + s \in Offsets /\ 0 \in Offsets /\ r.inFlight - 1 \in Nat
  BY <1>1, <1>4, <1>7 DEF Offsets
<1> HIDE DEF back
<1>10. /\ w \in RingType /\ w.head = (IF back THEN 0 ELSE hd + s) /\ w.tail = tl /\ w.cutPtr = cp
       /\ w.cut = (r.cut /\ ~ back) /\ w.inFlight = r.inFlight - 1
  <2>1. w \in RingType
    BY <1>1, <1>5, <1>6, <1>8, <1>9 DEF RingType
  <2> QED
    BY <1>5, <1>6, <2>1 DEF RingType, tl, cp
<1>11. \A x \in Nat : InRing(w, x) <=> InRing(r, x) /\ ~ Covers(t, x)
  <2> SUFFICES ASSUME NEW x \in Nat PROVE InRing(w, x) <=> InRing(r, x) /\ ~ Covers(t, x)
    OBVIOUS
  <2>1. Covers(t, x) <=> hd <= x /\ x < hd + s
    BY <1>4
  <2>2. CASE back
    <3>1. InRing(w, x) <=> 0 <= x /\ x < tl
      BY <1>10, <2>2 DEF InRing
    <3>2. InRing(r, x) <=> (hd <= x /\ x < hd + s) \/ x < tl
      BY <1>3, <1>8, <2>2
    <3> QED
      BY <1>1, <1>2, <1>4, <1>8, <2>1, <2>2, <3>1, <3>2
  <2>3. CASE ~ back /\ r.cut
    <3>1. InRing(w, x) <=> (hd + s <= x /\ x < cp) \/ x < tl
      BY <1>10, <2>3 DEF InRing
    <3>2. InRing(r, x) <=> (hd <= x /\ x < cp) \/ x < tl
      BY <1>3, <2>3
    <3> QED
      BY <1>1, <1>2, <1>4, <1>7, <2>1, <2>3, <3>1, <3>2
  <2>4. CASE ~ back /\ ~ r.cut
    <3>1. InRing(w, x) <=> hd + s <= x /\ x < tl
      BY <1>10, <2>4 DEF InRing
    <3>2. InRing(r, x) <=> hd <= x /\ x < tl
      BY <1>3, <2>4
    <3> QED
      BY <1>1, <1>4, <1>7, <2>1, <2>4, <3>1, <3>2
  <2> QED
    BY <2>2, <2>3, <2>4
<1>12. \A u, v \in U : \A x \in Nat : Covers(u, x) /\ Covers(v, x) => u = v
  BY <1>2
<1>13. \A x \in Nat : InRing(w, x) <=> \E u \in U : Covers(u, x)
  BY <1>2, <1>11
<1>14. w.cut => \A u \in U : w.head <= u.at \/ u.at + u.size <= w.tail
  <2> SUFFICES ASSUME w.cut, NEW u \in U PROVE hd + s <= u.at \/ u.at + u.size <= tl
    BY <1>10
  <2>1. u.at \in Nat /\ u.size \in Nat \ {0} /\ u \in T /\ u # t
    BY <1>2 DEF Tile
  <2>2. hd <= u.at \/ u.at + u.size <= tl
    BY <1>2, <1>10, <2>1
  <2>3. Covers(u, u.at)
    BY <2>1 DEF Covers
  <2>4. ~ Covers(t, u.at)
    BY <1>2, <2>1, <2>3
  <2> QED
    BY <1>1, <1>4, <2>1, <2>2, <2>4
<1>15. /\ w.cut => 0 < w.tail /\ w.tail <= w.head /\ w.head <= w.cutPtr
       /\ ~ w.cut => w.head <= w.tail
  <2>1. CASE back
    <3>1. ~ w.cut /\ w.head = 0 /\ w.tail = tl
      BY <1>10, <2>1
    <3> QED
      BY <1>1, <3>1
  <2>2. CASE ~ back /\ r.cut
    <3>1. w.cut /\ w.head = hd + s /\ w.tail = tl /\ w.cutPtr = cp
      BY <1>10, <2>2
    <3>2. hd + s <= cp /\ 0 < tl /\ tl <= hd
      BY <1>2, <1>7, <2>2
    <3>3. tl <= hd + s
      BY <1>1, <1>4, <3>2
    <3> QED
      BY <3>1, <3>2, <3>3
  <2>3. CASE ~ back /\ ~ r.cut
    BY <1>1, <1>7, <1>10, <2>3
  <2> QED
    BY <2>1, <2>2, <2>3
<1>16. RingOK(w, U)
  BY <1>2, <1>10, <1>12, <1>13, <1>14, <1>15 DEF RingOK
<1> QED
  BY <1>10, <1>16

-----------------------------------------------------------------------------
TraceOK == trace \in [Ids -> [msg : Msgs, size : Sizes]]

(* The packets and the freed places are counted; with none of them there   *)
(* is no tile.                                                             *)
LEMMA CountFacts ==
  ASSUME NEW r, NEW req, NEW a, NEW live, NEW n, Accounted(r, req, a, live, n)
  PROVE  /\ IsFiniteSet(live) /\ IsFiniteSet(FreedOf(req))
         /\ Cardinality(live) \in Nat /\ Cardinality(FreedOf(req)) \in Nat
         /\ r.inFlight = 0 => TilesOf(a, live, req) = {}
         /\ live # {} \/ FreedOf(req) # {} => r.inFlight # 0
<1>1. /\ live \subseteq Ids /\ FreedOf(req) \subseteq Offsets
      /\ r.inFlight = Cardinality(live) + Cardinality(FreedOf(req))
  BY DEF Accounted, FreedOf
<1>2. IsFiniteSet(Ids) /\ IsFiniteSet(Offsets)
  BY Params, FS_Interval DEF Ids, Offsets
<1>3. IsFiniteSet(live) /\ IsFiniteSet(FreedOf(req))
  BY <1>1, <1>2, FS_Subset
<1>4. /\ Cardinality(live) \in Nat /\ (Cardinality(live) = 0 <=> live = {})
      /\ Cardinality(FreedOf(req)) \in Nat /\ (Cardinality(FreedOf(req)) = 0 <=> FreedOf(req) = {})
  BY <1>3, FS_CardinalityType, FS_EmptySet
<1>5. r.inFlight = 0 <=> live = {} /\ FreedOf(req) = {}
  BY <1>1, <1>4
<1>6. live = {} /\ FreedOf(req) = {} => TilesOf(a, live, req) = {}
  BY DEF TilesOf
<1> QED
  BY <1>3, <1>4, <1>5, <1>6

(* A packet is stored.                                                     *)
LEMMA AccountStored ==
  ASSUME NEW r, NEW req, NEW a, NEW live, NEW n \in Nat \ {0}, Accounted(r, req, a, live, n),
         TraceOK, NEW p \in Ids \ live, CanAllocate(r, trace[p].size),
         NEW w, w = Allocate(r, trace[p].size),
         NEW b, b = [a EXCEPT ![p] = Wrap(r, trace[p].size).tail]
  PROVE  Accounted(w, req, b, live \cup {p}, n - 1)
<1> DEFINE s == trace[p].size
           c == Wrap(r, s).tail
           t == [at |-> c, size |-> s]
           T == TilesOf(a, live, req)
           L == live \cup {p}
<1>1. s \in Sizes /\ s \in Nat \ {0}
  BY Params DEF TraceOK
<1>2. /\ req \in [Offsets -> {0} \cup Sizes] /\ a \in [Ids -> Offsets] /\ live \subseteq Ids
      /\ RingOK(r, T)
      /\ \A x, y \in live : a[x] = a[y] => x = y
      /\ \A x \in live : req[a[x]] = 0
      /\ r.inFlight = Cardinality(live) + Cardinality(FreedOf(req))
      /\ r.inFlight + n <= NumPkts
  BY DEF Accounted
<1>3. /\ r.inFlight = 0 => T = {}
      /\ IsFiniteSet(live) /\ Cardinality(live) \in Nat /\ Cardinality(FreedOf(req)) \in Nat
  BY CountFacts
<1>14. /\ w = Allocate(r, s) /\ c = Wrap(r, s).tail /\ CanAllocate(r, s)
       /\ t = [at |-> c, size |-> s]
  OBVIOUS
<1> HIDE DEF T, c, t, s
<1>4. /\ c \in Offsets
      /\ \A x \in Nat : Covers(t, x) => ~ InRing(r, x)
      /\ RingOK(w, T \cup {t}) /\ w.inFlight = r.inFlight + 1
  <2>1. Placed(r, T, s, w, c, t)
    BY <1>3, <1>14 DEF Placed
  <2> QED
    BY <1>1, <1>2, <2>1, AllocateKeeps
<1>5. c \in Nat /\ Covers(t, c)
  BY <1>1, <1>4, <1>14, Params DEF Covers, Offsets
<1>6. \A u \in T : u.at # c
  <2> SUFFICES ASSUME NEW u \in T, u.at = c PROVE FALSE
    OBVIOUS
  <2>1. u.at \in Nat /\ u.size \in Nat \ {0}
    BY <1>2 DEF RingOK, Tile
  <2>2. Covers(u, c)
    BY <2>1 DEF Covers
  <2>3. InRing(r, c)
    BY <1>2, <1>5, <2>2 DEF RingOK
  <2> QED
    BY <1>4, <1>5, <2>3
<1>7. /\ b \in [Ids -> Offsets] /\ b[p] = c
      /\ \A x \in live : b[x] = a[x] /\ a[x] # c
  <2>1. b \in [Ids -> Offsets] /\ b[p] = c
    BY <1>2, <1>4 DEF c, s
  <2>2. \A x \in live : b[x] = a[x]
    BY <1>2
  <2>3. \A x \in live : [at |-> a[x], size |-> trace[x].size] \in T
    BY DEF T, TilesOf
  <2> QED
    BY <1>6, <2>1, <2>2, <2>3
<1>8. req[c] = 0
  <2> SUFFICES ASSUME req[c] # 0 PROVE FALSE
    OBVIOUS
  <2>1. [at |-> c, size |-> req[c]] \in T
    BY <1>4 DEF T, TilesOf, FreedOf
  <2> QED
    BY <1>6, <2>1
<1>9. TilesOf(b, L, req) = T \cup {t}
  <2>1. {[at |-> b[x], size |-> trace[x].size] : x \in L}
          = {[at |-> a[x], size |-> trace[x].size] : x \in live} \cup {t}
    BY <1>7 DEF t, s
  <2> QED
    BY <2>1 DEF T, TilesOf
<1>10. Cardinality(L) = Cardinality(live) + 1
  BY <1>3, FS_AddElement
<1>11. /\ \A x, y \in L : b[x] = b[y] => x = y
       /\ \A x \in L : req[b[x]] = 0
  BY <1>2, <1>7, <1>8
<1>12. /\ w.inFlight = Cardinality(L) + Cardinality(FreedOf(req))
       /\ w.inFlight + (n - 1) <= NumPkts
  <2>1. r.inFlight \in Nat /\ NumPkts \in Nat
    BY <1>2, <1>3, Params
  <2> QED
    BY <1>2, <1>3, <1>4, <1>10, <2>1
<1>13. RingOK(w, TilesOf(b, L, req)) /\ L \subseteq Ids
  BY <1>2, <1>4, <1>9
<1> QED
  BY <1>2, <1>7, <1>11, <1>12, <1>13 DEF Accounted

(* A packet is fed back: its place is freed, and still a tile.             *)
LEMMA AccountFreed ==
  ASSUME NEW r, NEW req, NEW a, NEW live, NEW n, Accounted(r, req, a, live, n),
         TraceOK, NEW p \in live, NEW q, q = [req EXCEPT ![a[p]] = trace[p].size]
  PROVE  Accounted(r, q, a, live \ {p}, n)
<1> DEFINE s == trace[p].size
           L == live \ {p}
<1>1. /\ req \in [Offsets -> {0} \cup Sizes] /\ a \in [Ids -> Offsets] /\ live \subseteq Ids
      /\ RingOK(r, TilesOf(a, live, req))
      /\ \A x, y \in live : a[x] = a[y] => x = y
      /\ \A x \in live : req[a[x]] = 0
      /\ r.inFlight = Cardinality(live) + Cardinality(FreedOf(req))
      /\ r.inFlight + n <= NumPkts
  BY DEF Accounted
<1>2. s \in Sizes /\ s \in Nat \ {0} /\ p \in Ids /\ a[p] \in Offsets /\ req[a[p]] = 0
  BY <1>1, Params DEF TraceOK
<1> HIDE DEF s
<1>3. q \in [Offsets -> {0} \cup Sizes] /\ q[a[p]] = s /\ \A o \in Offsets : o # a[p] => q[o] = req[o]
  BY <1>1, <1>2 DEF s
<1>4. FreedOf(q) = FreedOf(req) \cup {a[p]} /\ a[p] \notin FreedOf(req)
  BY <1>2, <1>3 DEF FreedOf
<1>5. TilesOf(a, L, q) = TilesOf(a, live, req)
  <2>1. {[at |-> o, size |-> q[o]] : o \in FreedOf(q)}
          = {[at |-> o, size |-> req[o]] : o \in FreedOf(req)} \cup {[at |-> a[p], size |-> s]}
    <3>1. \A o \in FreedOf(req) : q[o] = req[o]
      BY <1>3, <1>4 DEF FreedOf
    <3>2. {[at |-> o, size |-> q[o]] : o \in FreedOf(q)}
            = {[at |-> o, size |-> q[o]] : o \in FreedOf(req)} \cup {[at |-> a[p], size |-> q[a[p]]]}
      BY <1>4
    <3>3. {[at |-> o, size |-> q[o]] : o \in FreedOf(req)}
            = {[at |-> o, size |-> req[o]] : o \in FreedOf(req)}
      BY <3>1
    <3> QED
      BY <1>3, <3>2, <3>3, Zenon
  <2>2. {[at |-> a[x], size |-> trace[x].size] : x \in live}
          = {[at |-> a[x], size |-> trace[x].size] : x \in L} \cup {[at |-> a[p], size |-> s]}
    BY DEF s
  <2> QED
    BY <2>1, <2>2 DEF TilesOf
<1>6. /\ \A x, y \in L : a[x] = a[y] => x = y
      /\ \A x \in L : q[a[x]] = 0 /\ L \subseteq Ids
  BY <1>1, <1>3
<1>7. Cardinality(L) + Cardinality(FreedOf(q)) = Cardinality(live) + Cardinality(FreedOf(req))
  <2>1. /\ IsFiniteSet(live) /\ IsFiniteSet(FreedOf(req))
        /\ Cardinality(live) \in Nat /\ Cardinality(FreedOf(req)) \in Nat
    BY CountFacts
  <2>2. Cardinality(L) = Cardinality(live) - 1
    BY <2>1, FS_RemoveElement
  <2>3. Cardinality(FreedOf(q)) = Cardinality(FreedOf(req)) + 1
    BY <1>4, <2>1, FS_AddElement
  <2> QED
    BY <2>1, <2>2, <2>3
<1> QED
  BY <1>1, <1>3, <1>5, <1>6, <1>7 DEF Accounted

(* The head moves over a freed place.                                      *)
LEMMA AccountAdvance ==
  ASSUME NEW r, NEW req, NEW a, NEW live, NEW n \in Nat, Accounted(r, req, a, live, n),
         req[r.head] # 0, NEW w, w = Advance(r, req)[1], NEW q, q = Advance(r, req)[2]
  PROVE  Accounted(w, q, a, live, n)
<1> DEFINE h == r.head
           t == [at |-> h, size |-> req[h]]
           T == TilesOf(a, live, req)
<1>1. /\ req \in [Offsets -> {0} \cup Sizes] /\ a \in [Ids -> Offsets] /\ live \subseteq Ids
      /\ RingOK(r, T)
      /\ \A x, y \in live : a[x] = a[y] => x = y
      /\ \A x \in live : req[a[x]] = 0
      /\ r.inFlight = Cardinality(live) + Cardinality(FreedOf(req))
      /\ r.inFlight + n <= NumPkts
  BY DEF Accounted
<1>2. h \in Offsets /\ h \in FreedOf(req) /\ t \in T
  BY <1>1 DEF RingOK, RingType, FreedOf, TilesOf
<1>3. r.inFlight # 0
  <2>1. live # {} \/ FreedOf(req) # {} => r.inFlight # 0
    BY CountFacts
  <2> QED
    BY <1>2, <2>1
<1>4. RingOK(w, T \ {t}) /\ w.inFlight = r.inFlight - 1
  <2>1. t \in T /\ t.at = r.head /\ t.size = req[r.head]
    BY <1>2
  <2> HIDE DEF t, T
  <2> QED
    BY <1>1, <1>3, <2>1, AdvanceKeeps
<1>5. q = [req EXCEPT ![h] = 0]
  BY DEF Advance
<1>6. q \in [Offsets -> {0} \cup Sizes] /\ q[h] = 0 /\ \A o \in Offsets : o # h => q[o] = req[o]
  BY <1>1, <1>2, <1>5
<1>7. FreedOf(q) = FreedOf(req) \ {h}
  BY <1>6 DEF FreedOf
<1>8. TilesOf(a, live, q) = T \ {t}
  <2>1. \A x \in live : a[x] # h
    BY <1>1
  <2>2. t \notin {[at |-> a[x], size |-> trace[x].size] : x \in live}
    BY <2>1
  <2>3. {[at |-> o, size |-> q[o]] : o \in FreedOf(q)}
          = {[at |-> o, size |-> req[o]] : o \in FreedOf(req)} \ {t}
    <3>1. \A o \in FreedOf(q) : q[o] = req[o] /\ o # h
      BY <1>6, <1>7 DEF FreedOf
    <3>2. \A o \in FreedOf(req) : o # h => o \in FreedOf(q)
      BY <1>7
    <3> QED
      BY <1>7, <3>1, <3>2
  <2> QED
    BY <2>2, <2>3 DEF TilesOf
<1>9. \A x \in live : q[a[x]] = 0
  BY <1>1, <1>6
<1>10. /\ w.inFlight = Cardinality(live) + Cardinality(FreedOf(q))
       /\ w.inFlight + n <= NumPkts
  <2>1. /\ IsFiniteSet(FreedOf(req)) /\ Cardinality(live) \in Nat
        /\ Cardinality(FreedOf(req)) \in Nat
    BY CountFacts
  <2>2. Cardinality(FreedOf(q)) = Cardinality(FreedOf(req)) - 1
    BY <1>2, <1>7, <2>1, FS_RemoveElement
  <2>3. NumPkts \in Nat
    BY Params
  <2> QED
    BY <1>1, <1>4, <2>1, <2>2, <2>3
<1> QED
  BY <1>1, <1>4, <1>6, <1>8, <1>9, <1>10 DEF Accounted

-----------------------------------------------------------------------------
(* A set of natural numbers that is not empty has a least member.          *)
LEMMA LeastExists ==
  ASSUME NEW S \in SUBSET Nat, S # {}
  PROVE  \E x \in S : \A y \in S : x <= y
<1> DEFINE R == {ss \in Nat \X Nat : ss[1] < ss[2]}
<1>1. R = OpToRel(<, Nat)
  BY DEF OpToRel
<1>2. IsWellFoundedOn(R, Nat)
  BY <1>1, NatLessThanWellFounded
<1> HIDE DEF R
<1>3. PICK x \in S : \A y \in S : ~ (<<y, x>> \in R)
  BY <1>2, WFMin
<1>4. \A y \in S : ~ (y < x)
  BY <1>3 DEF R
<1> QED
  BY <1>3, <1>4

(* One turn of the loop of free_pkt_space, and the states it goes through. *)
Turn(s) == IF s[2][s[1].head] # 0 THEN Advance(s[1], s[2]) ELSE s
Turns(g, n, first) == g = [k \in 0 .. n |-> IF k = 0 THEN first ELSE Turn(g[k - 1])]

(* The loop can be gone through any number of times,                       *)
LEMMA TurnsExist ==
  ASSUME NEW n \in Nat, NEW first
  PROVE  \E g : Turns(g, n, first)
<1> DEFINE S == {m \in Nat : ~ \E g : Turns(g, m, first)}
<1>1. \E g : Turns(g, 0, first)
  <2> DEFINE g == [k \in 0 .. 0 |-> first]
  <2>1. g = [k \in 0 .. 0 |-> IF k = 0 THEN first ELSE Turn(g[k - 1])]
    OBVIOUS
  <2> QED
    BY <2>1 DEF Turns
<1>2. ASSUME NEW m \in Nat, NEW g, Turns(g, m, first)
      PROVE  \E f : Turns(f, m + 1, first)
  <2> DEFINE f == [k \in 0 .. m + 1 |-> IF k = m + 1 THEN Turn(g[m]) ELSE g[k]]
  <2>1. \A k \in 0 .. m : g[k] = IF k = 0 THEN first ELSE Turn(g[k - 1])
    BY <1>2 DEF Turns
  <2>2. ASSUME NEW k \in 0 .. m + 1
        PROVE  f[k] = IF k = 0 THEN first ELSE Turn(f[k - 1])
    <3>1. CASE k = m + 1
      <4>1. f[m] = g[m] /\ k # 0 /\ k - 1 = m /\ f[k] = Turn(g[m])
        BY <3>1
      <4> QED
        BY <4>1
    <3>2. CASE k # m + 1
      <4>1. k \in 0 .. m /\ f[k] = g[k]
        BY <3>2
      <4>2. k # 0 => f[k - 1] = g[k - 1]
        BY <4>1
      <4> QED
        BY <2>1, <4>1, <4>2
    <3> QED
      BY <3>1, <3>2
  <2>3. f = [k \in 0 .. m + 1 |-> IF k = 0 THEN first ELSE Turn(f[k - 1])]
    BY <2>2
  <2> QED
    BY <2>3 DEF Turns
<1>3. S = {}
  <2> SUFFICES ASSUME S # {} PROVE FALSE
    OBVIOUS
  <2>1. PICK m \in S : \A y \in S : m <= y
    <3>1. S \subseteq Nat
      OBVIOUS
    <3> QED
      BY <3>1, LeastExists
  <2>2. m # 0 /\ m - 1 \in Nat /\ m - 1 \notin S /\ (m - 1) + 1 = m
    BY <1>1, <2>1
  <2>3. PICK g : Turns(g, m - 1, first)
    BY <2>2
  <2>4. \E f : Turns(f, (m - 1) + 1, first)
    BY <1>2, <2>2, <2>3
  <2> QED
    BY <2>1, <2>2, <2>4
<1> QED
  BY <1>3

(* and accounts for the same packets after each.                           *)
LEMMA AccountReclaimed ==
  ASSUME NEW r, NEW req, NEW a, NEW live, NEW n \in Nat, Accounted(r, req, a, live, n),
         NEW s, s = Reclaim(r, req)
  PROVE  Accounted(s[1], s[2], a, live, n)
<1> DEFINE first == <<r, req>>
           after == CHOOSE g : g = [k \in 0 .. NumPkts |->
                      IF k = 0 THEN <<r, req>>
                      ELSE LET t == g[k - 1]
                           IN  IF t[2][t[1].head] # 0 THEN Advance(t[1], t[2]) ELSE t]
           OK(t) == Accounted(t[1], t[2], a, live, n)
<1>1. s = after[NumPkts]
  BY DEF Reclaim
<1>2. \E g : Turns(g, NumPkts, first)
  BY TurnsExist, Params
<1>3. Turns(after, NumPkts, first)
  BY <1>2 DEF Turns, Turn
<1> HIDE DEF after
<1>4. after[0] = first /\ \A k \in 1 .. NumPkts : after[k] = Turn(after[k - 1])
  <2>1. \A k \in 0 .. NumPkts : after[k] = IF k = 0 THEN first ELSE Turn(after[k - 1])
    BY <1>3 DEF Turns
  <2>2. 0 \in 0 .. NumPkts /\ \A k \in 1 .. NumPkts : k \in 0 .. NumPkts /\ k # 0
    BY Params
  <2> QED
    BY <2>1, <2>2
<1>5. ASSUME NEW t, OK(t)
      PROVE  OK(Turn(t))
  <2>1. CASE t[2][t[1].head] # 0
    BY <1>5, <2>1, AccountAdvance DEF Turn
  <2>2. CASE t[2][t[1].head] = 0
    BY <1>5, <2>2 DEF Turn
  <2> QED
    BY <2>1, <2>2
<1>6. OK(first)
  OBVIOUS
<1> HIDE DEF OK, first
<1> DEFINE Bad == {k \in 0 .. NumPkts : ~ OK(after[k])}
<1>7. Bad = {}
  <2> SUFFICES ASSUME Bad # {} PROVE FALSE
    OBVIOUS
  <2>1. PICK k \in Bad : \A y \in Bad : k <= y
    <3>1. Bad \subseteq Nat
      BY Params
    <3> QED
      BY <3>1, LeastExists
  <2>2. k # 0 /\ k \in 1 .. NumPkts
    BY <1>4, <1>6, <2>1, Params
  <2>3. k - 1 \in 0 .. NumPkts /\ k - 1 \notin Bad
    BY <2>1, <2>2, Params
  <2> QED
    BY <1>4, <1>5, <2>1, <2>2, <2>3
<1>8. NumPkts \in 0 .. NumPkts
  BY Params
<1>9. OK(after[NumPkts])
  BY <1>7, <1>8
<1> QED
  BY <1>1, <1>9 DEF OK

-----------------------------------------------------------------------------
(* What a push adds to a sequence of identities;                           *)
LEMMA PushId ==
  ASSUME NEW S, NEW s \in Seq(S), NEW x \in S
  PROVE  /\ Append(s, x) \in Seq(S) /\ InSeq(Append(s, x)) = InSeq(s) \cup {x}
         /\ Once(s) /\ x \notin InSeq(s) => Once(Append(s, x))
<1> DEFINE t == Append(s, x)
           n == Len(s)
<1>1. /\ t \in Seq(S) /\ n \in Nat /\ DOMAIN t = 1 .. n + 1 /\ DOMAIN s = 1 .. n
      /\ t[n + 1] = x /\ \A k \in DOMAIN s : t[k] = s[k]
  OBVIOUS
<1> HIDE DEF t, n
<1>2. /\ \A k \in DOMAIN t : k \in DOMAIN s \/ k = n + 1
      /\ \A k \in DOMAIN s : k \in DOMAIN t
      /\ n + 1 \in DOMAIN t
  BY <1>1
<1>3. InSeq(t) = InSeq(s) \cup {x}
  BY <1>1, <1>2 DEF InSeq
<1>4. Once(s) /\ x \notin InSeq(s) => Once(t)
  BY <1>1, <1>2 DEF Once, InSeq
<1> QED
  BY <1>1, <1>3, <1>4 DEF t

(* The identity at the head of a sequence leaves it.                       *)
LEMMA PopId ==
  ASSUME NEW S, NEW s \in Seq(S), s # <<>>
  PROVE  /\ Tail(s) \in Seq(S) /\ Head(s) \in S /\ InSeq(s) = InSeq(Tail(s)) \cup {Head(s)}
         /\ Once(s) => Once(Tail(s)) /\ Head(s) \notin InSeq(Tail(s))
         /\ Len(s) \in Nat \ {0} /\ Len(Tail(s)) = Len(s) - 1
<1> DEFINE t == Tail(s)
           n == Len(s)
<1>1. /\ t \in Seq(S) /\ Len(t) = n - 1 /\ n \in Nat \ {0} /\ Head(s) \in S /\ Head(s) = s[1]
      /\ DOMAIN t = 1 .. n - 1 /\ DOMAIN s = 1 .. n
      /\ \A k \in 1 .. n - 1 : t[k] = s[k + 1]
  OBVIOUS
<1> HIDE DEF t, n
<1>2. /\ 1 \in DOMAIN s
      /\ \A k \in DOMAIN t : k + 1 \in DOMAIN s /\ t[k] = s[k + 1] /\ k + 1 # 1 /\ k \in Nat
      /\ \A k \in DOMAIN s : k = 1 \/ (k - 1 \in DOMAIN t /\ s[k] = t[k - 1])
  BY <1>1
<1>3. InSeq(s) = InSeq(t) \cup {Head(s)}
  <2>1. Head(s) = s[1]
    BY <1>1
  <2>2. \A k \in DOMAIN t : t[k] \in InSeq(s)
    BY <1>2 DEF InSeq
  <2>3. \A k \in DOMAIN s : s[k] = Head(s) \/ s[k] \in InSeq(t)
    BY <1>2, <2>1 DEF InSeq
  <2>4. Head(s) \in InSeq(s)
    BY <1>2, <2>1 DEF InSeq
  <2> QED
    BY <2>2, <2>3, <2>4 DEF InSeq
<1>4. ASSUME Once(s)
      PROVE  Once(t) /\ Head(s) \notin InSeq(t)
  <2>1. ASSUME NEW j \in DOMAIN t, NEW k \in DOMAIN t, t[j] = t[k]
        PROVE  j = k
    <3>1. j + 1 = k + 1
      BY <1>2, <1>4, <2>1 DEF Once
    <3> QED
      BY <1>2, <3>1
  <2>2. ASSUME NEW k \in DOMAIN t
        PROVE  t[k] # Head(s)
    BY <1>1, <1>2, <1>4 DEF Once
  <2> QED
    BY <2>1, <2>2 DEF Once, InSeq
<1>5. Len(Tail(s)) = Len(s) - 1 /\ Len(s) \in Nat \ {0}
  BY <1>1 DEF t, n
<1> QED
  BY <1>1, <1>3, <1>4, <1>5 DEF t

(* and of cells.                                                           *)
LEMMA PushHeld ==
  ASSUME NEW S, NEW s \in Seq(S), NEW x \in S
  PROVE  /\ Append(s, x) \in Seq(S) /\ Holds(Append(s, x)) = Holds(s) \cup {x.el}
         /\ Apart(s) /\ x.el \notin Holds(s) => Apart(Append(s, x))
<1> DEFINE t == Append(s, x)
           n == Len(s)
<1>1. /\ t \in Seq(S) /\ n \in Nat /\ DOMAIN t = 1 .. n + 1 /\ DOMAIN s = 1 .. n
      /\ t[n + 1] = x /\ \A k \in DOMAIN s : t[k] = s[k]
  OBVIOUS
<1> HIDE DEF t, n
<1>2. /\ \A k \in DOMAIN t : k \in DOMAIN s \/ k = n + 1
      /\ \A k \in DOMAIN s : k \in DOMAIN t
      /\ n + 1 \in DOMAIN t
  BY <1>1
<1>3. Holds(t) = Holds(s) \cup {x.el}
  BY <1>1, <1>2 DEF Holds
<1>4. Apart(s) /\ x.el \notin Holds(s) => Apart(t)
  BY <1>1, <1>2 DEF Apart, Holds
<1> QED
  BY <1>1, <1>3, <1>4 DEF t

(* The packet in the oldest cell leaves its FIFO.                         *)
LEMMA PopHeld ==
  ASSUME NEW S, NEW s \in Seq(S), s # <<>>
  PROVE  /\ Tail(s) \in Seq(S) /\ Head(s) \in S /\ Holds(s) = Holds(Tail(s)) \cup {Head(s).el}
         /\ Apart(s) => Apart(Tail(s)) /\ Head(s).el \notin Holds(Tail(s))
<1> DEFINE t == Tail(s)
           n == Len(s)
<1>1. /\ t \in Seq(S) /\ Len(t) = n - 1 /\ n \in Nat \ {0} /\ Head(s) \in S /\ Head(s) = s[1]
      /\ DOMAIN t = 1 .. n - 1 /\ DOMAIN s = 1 .. n
      /\ \A k \in 1 .. n - 1 : t[k] = s[k + 1]
  OBVIOUS
<1> HIDE DEF t, n
<1>2. /\ 1 \in DOMAIN s
      /\ \A k \in DOMAIN t : k + 1 \in DOMAIN s /\ t[k] = s[k + 1] /\ k + 1 # 1 /\ k \in Nat
      /\ \A k \in DOMAIN s : k = 1 \/ (k - 1 \in DOMAIN t /\ s[k] = t[k - 1])
  BY <1>1
<1>3. Holds(s) = Holds(t) \cup {Head(s).el}
  BY <1>1, <1>2 DEF Holds
<1>4. ASSUME Apart(s)
      PROVE  Apart(t) /\ Head(s).el \notin Holds(t)
  <2>1. ASSUME NEW j \in DOMAIN t, NEW k \in DOMAIN t, t[j].el = t[k].el
        PROVE  j = k
    <3>1. /\ j + 1 \in DOMAIN s /\ k + 1 \in DOMAIN s
          /\ s[j + 1].el = s[k + 1].el
      BY <1>2, <2>1
    <3>2. j + 1 = k + 1
      BY <1>4, <3>1 DEF Apart
    <3> QED
      BY <1>2, <3>2
  <2>2. ASSUME NEW k \in DOMAIN t
        PROVE  t[k].el # Head(s).el
    <3>1. k + 1 \in DOMAIN s /\ t[k] = s[k + 1] /\ k + 1 # 1 /\ 1 \in DOMAIN s
      BY <1>2
    <3>2. s[k + 1].el # s[1].el
      BY <1>4, <3>1 DEF Apart
    <3>3. Head(s) = s[1]
      BY <1>1
    <3> QED
      BY <3>1, <3>2, <3>3
  <2> QED
    BY <2>1, <2>2 DEF Apart, Holds
<1> QED
  BY <1>1, <1>3, <1>4 DEF t

-----------------------------------------------------------------------------
(* The posedge handler, in the order of its steps: the answer to a write,  *)
(* the packet stored, the HER sent.                                        *)
Ready1(written) == IF written THEN Append(ready, Head(queued)) ELSE ready
Rest(written)   == IF written THEN Tail(queued) ELSE queued
IsStored(arrives)  == arrives /\ CanAllocate(ring, trace[Head(incoming)].size)
NewIds(arrives)    == IF IsStored(arrives) THEN {Head(incoming)} ELSE {}
IsSent(written)    == HerReady /\ Ready1(written) # <<>>
SentIds(written)   == IF IsSent(written) THEN {Head(Ready1(written))} ELSE {}

(* A write is answered: a packet goes from the queued ones to the ready.   *)
LEMMA AnswerFacts ==
  ASSUME IInv, NEW written \in BOOLEAN, written => queued # <<>>
  PROVE  /\ Ready1(written) \in Seq(Ids) /\ Rest(written) \in Seq(Ids)
         /\ Once(Ready1(written)) /\ Once(Rest(written))
         /\ InSeq(Ready1(written)) \cap InSeq(Rest(written)) = {}
         /\ InSeq(Ready1(written)) \cup InSeq(Rest(written)) = InSeq(ready) \cup InSeq(queued)
<1>1. /\ queued \in Seq(Ids) /\ ready \in Seq(Ids) /\ Once(queued) /\ Once(ready)
      /\ InSeq(queued) \cap InSeq(ready) = {}
  BY DEF IInv, TypeOK, NicOnce
<1>2. CASE written
  <2> DEFINE x == Head(queued)
             q == Tail(queued)
             s == Append(ready, x)
  <2>1. /\ q \in Seq(Ids) /\ x \in Ids /\ InSeq(queued) = InSeq(q) \cup {x}
        /\ Once(q) /\ x \notin InSeq(q)
    BY <1>1, <1>2, PopId
  <2>2. s \in Seq(Ids) /\ InSeq(s) = InSeq(ready) \cup {x} /\ Once(s)
    <3> HIDE DEF x
    <3>1. x \notin InSeq(ready)
      BY <1>1, <2>1
    <3> QED
      BY <1>1, <2>1, <3>1, PushId
  <2>3. Ready1(written) = s /\ Rest(written) = q
    BY <1>2 DEF Ready1, Rest
  <2> HIDE DEF x, q, s
  <2> QED
    BY <1>1, <2>1, <2>2, <2>3
<1>3. CASE ~ written
  BY <1>1, <1>3 DEF Ready1, Rest
<1> QED
  BY <1>2, <1>3

(* A packet is stored: it goes from those to come to the queued ones.      *)
LEMMA StoreFacts ==
  ASSUME IInv, NEW written \in BOOLEAN, NEW arrives \in BOOLEAN, NEW fb,
         Posedge(written, arrives, fb)
  PROVE  /\ incoming' \in Seq(Ids) /\ Once(incoming') /\ queued' \in Seq(Ids) /\ Once(queued')
         /\ InSeq(incoming) = InSeq(incoming') \cup NewIds(arrives)
         /\ InSeq(incoming') \cap NewIds(arrives) = {}
         /\ InSeq(queued') = InSeq(Rest(written)) \cup NewIds(arrives)
         /\ NewIds(arrives) \subseteq Ids \ Live
         /\ ~ IsStored(arrives) => incoming' = incoming
         /\ IsStored(arrives) => Len(incoming) \in Nat \ {0} /\ Len(incoming') = Len(incoming) - 1
<1> DEFINE p == Head(incoming)
           rest == Rest(written)
<1>1. /\ incoming \in Seq(Ids) /\ Once(incoming) /\ InSeq(incoming) \cap Live = {}
      /\ written => queued # <<>>
      /\ arrives => incoming # <<>>
  BY DEF IInv, TypeOK, NicOnce, Posedge
<1>2. /\ rest \in Seq(Ids) /\ Once(rest) /\ InSeq(rest) \subseteq InSeq(ready) \cup InSeq(queued)
  <2>1. written => queued # <<>>
    BY DEF Posedge
  <2> QED
    BY <2>1, AnswerFacts
<1>3. /\ incoming' = IF IsStored(arrives) THEN Tail(incoming) ELSE incoming
      /\ queued' = IF IsStored(arrives) THEN Append(rest, p) ELSE rest
  BY DEF Posedge, IsStored, Rest
<1>4. InSeq(rest) \subseteq Live
  BY <1>2 DEF Live
<1> HIDE DEF rest
<1>5. CASE IsStored(arrives)
  <2>1. incoming # <<>>
    BY <1>5 DEF IsStored, Posedge
  <2>2. /\ Tail(incoming) \in Seq(Ids) /\ p \in Ids /\ InSeq(incoming) = InSeq(Tail(incoming)) \cup {p}
        /\ Once(Tail(incoming)) /\ p \notin InSeq(Tail(incoming))
        /\ Len(incoming) \in Nat \ {0} /\ Len(Tail(incoming)) = Len(incoming) - 1
    BY <1>1, <2>1, PopId
  <2>3. incoming' = Tail(incoming) /\ NewIds(arrives) = {p} /\ queued' = Append(rest, p)
    BY <1>3, <1>5 DEF NewIds
  <2> HIDE DEF p
  <2>4. p \notin Live /\ p \notin InSeq(rest)
    BY <1>1, <1>4, <2>2
  <2>5. /\ Append(rest, p) \in Seq(Ids) /\ InSeq(Append(rest, p)) = InSeq(rest) \cup {p}
        /\ Once(Append(rest, p))
    BY <1>2, <2>2, <2>4, PushId
  <2>6. /\ incoming' \in Seq(Ids) /\ Once(incoming') /\ queued' \in Seq(Ids) /\ Once(queued')
        /\ Len(incoming) \in Nat \ {0} /\ Len(incoming') = Len(incoming) - 1
    BY <2>2, <2>3, <2>5, Zenon
  <2>7. /\ InSeq(incoming) = InSeq(incoming') \cup {p} /\ p \notin InSeq(incoming')
        /\ InSeq(queued') = InSeq(rest) \cup {p}
    BY <2>2, <2>3, <2>5, Zenon
  <2> QED
    BY <1>5, <2>2, <2>3, <2>4, <2>6, <2>7 DEF rest
<1>6. CASE ~ IsStored(arrives)
  <2>1. incoming' = incoming /\ queued' = rest /\ NewIds(arrives) = {}
    BY <1>3, <1>6 DEF NewIds
  <2> QED
    BY <1>1, <1>2, <1>6, <2>1 DEF rest
<1> QED
  BY <1>5, <1>6

(* A HER is sent: its packet goes from the ready ones to PsPIN.            *)
LEMMA SendFacts ==
  ASSUME IInv, NEW written \in BOOLEAN, NEW arrives \in BOOLEAN, NEW fb,
         Posedge(written, arrives, fb)
  PROVE  /\ ready' \in Seq(Ids) /\ Once(ready')
         /\ InSeq(Ready1(written)) = InSeq(ready') \cup SentIds(written)
         /\ InSeq(ready') \cap SentIds(written) = {}
         /\ pktmap' = (pktmap \cup SentIds(written)) \ fb
         /\ her' \in [valid : BOOLEAN, pkt : Ids]
         /\ her'.valid => SentIds(written) = {her'.pkt}
<1> DEFINE s == Ready1(written)
<1>1. s \in Seq(Ids) /\ Once(s)
  <2>1. written => queued # <<>>
    BY DEF Posedge
  <2> QED
    BY <2>1, AnswerFacts
<1>2. /\ ready' = IF IsSent(written) THEN Tail(s) ELSE s
      /\ her' = IF IsSent(written) THEN [valid |-> TRUE, pkt |-> Head(s)]
                ELSE [her EXCEPT !.valid = FALSE]
      /\ pktmap' = (pktmap \cup SentIds(written)) \ fb
  BY DEF Posedge, IsSent, SentIds, Ready1
<1>3. her \in [valid : BOOLEAN, pkt : Ids]
  BY DEF IInv, TypeOK
<1> HIDE DEF s
<1>4. CASE IsSent(written)
  <2>1. s # <<>>
    BY <1>4 DEF IsSent, s
  <2>2. /\ Tail(s) \in Seq(Ids) /\ Head(s) \in Ids /\ InSeq(s) = InSeq(Tail(s)) \cup {Head(s)}
        /\ Once(Tail(s)) /\ Head(s) \notin InSeq(Tail(s))
    BY <1>1, <2>1, PopId
  <2>3. SentIds(written) = {Head(s)} /\ ready' = Tail(s)
    BY <1>2, <1>4 DEF SentIds, s
  <2>4. her' = [valid |-> TRUE, pkt |-> Head(s)]
    BY <1>2, <1>4
  <2>5. her' \in [valid : BOOLEAN, pkt : Ids] /\ her'.pkt = Head(s)
    BY <2>2, <2>4
  <2>6. /\ ready' \in Seq(Ids) /\ Once(ready') /\ InSeq(s) = InSeq(ready') \cup {Head(s)}
        /\ Head(s) \notin InSeq(ready')
    BY <2>2, <2>3, Zenon
  <2> QED
    BY <1>2, <2>3, <2>5, <2>6 DEF s
<1>5. CASE ~ IsSent(written)
  <2>1. SentIds(written) = {} /\ ready' = s /\ her' = [her EXCEPT !.valid = FALSE]
    BY <1>2, <1>5 DEF SentIds
  <2>2. her' \in [valid : BOOLEAN, pkt : Ids] /\ ~ her'.valid
    BY <1>3, <2>1
  <2> QED
    BY <1>1, <1>2, <2>1, <2>2 DEF s
<1> QED
  BY <1>4, <1>5

-----------------------------------------------------------------------------
(* The packets in the buffer after a cycle; each is still in one place.    *)
LEMMA LiveStep ==
  ASSUME IInv, NEW written \in BOOLEAN, NEW arrives \in BOOLEAN, NEW fb, fb \subseteq running,
         Posedge(written, arrives, fb)
  PROVE  Live' = (Live \cup NewIds(arrives)) \ fb /\ NicOnce'
<1> DEFINE New == NewIds(arrives)
           Sent == SentIds(written)
           Q == InSeq(queued)
           R == InSeq(ready)
           Q1 == InSeq(Rest(written))
           R1 == InSeq(Ready1(written))
           I2 == InSeq(incoming')
           Q2 == InSeq(queued')
           R2 == InSeq(ready')
<1>1. /\ InSeq(incoming) \cap Live = {} /\ Q \cap R = {} /\ (Q \cup R) \cap pktmap = {}
      /\ fb \subseteq pktmap /\ Live = Q \cup R \cup pktmap
  BY DEF IInv, NicOnce, PsPINOnce, Live
<1>2. R1 \cap Q1 = {} /\ R1 \cup Q1 = R \cup Q
  <2>1. written => queued # <<>>
    BY DEF Posedge
  <2> QED
    BY <2>1, AnswerFacts
<1>3. /\ Once(incoming') /\ Once(queued')
      /\ InSeq(incoming) = I2 \cup New /\ I2 \cap New = {}
      /\ Q2 = Q1 \cup New /\ New \subseteq Ids \ Live
  BY StoreFacts
<1>4. /\ Once(ready') /\ R1 = R2 \cup Sent /\ R2 \cap Sent = {}
      /\ pktmap' = (pktmap \cup Sent) \ fb
  BY SendFacts
<1>5. Live' = Q2 \cup R2 \cup pktmap'
  BY DEF Live, InSeq
<1>6. NicOnce' <=> /\ Once(incoming') /\ Once(queued') /\ Once(ready') /\ I2 \cap Live' = {}
                   /\ Q2 \cap R2 = {} /\ (Q2 \cup R2) \cap pktmap' = {}
  BY DEF NicOnce, InSeq, Once
<1> HIDE DEF New, Sent, Q, R, Q1, R1, I2, Q2, R2
<1>7. Live' = (Live \cup New) \ fb
  <2>1. \A x : x \in Live' => x \in (Live \cup New) \ fb
    BY <1>1, <1>2, <1>3, <1>4, <1>5
  <2>2. \A x : x \in (Live \cup New) \ fb => x \in Live'
    BY <1>1, <1>2, <1>3, <1>4, <1>5
  <2> QED
    BY <2>1, <2>2
<1>8. I2 \cap Live' = {}
  BY <1>1, <1>3, <1>7
<1>9. Q2 \cap R2 = {} /\ (Q2 \cup R2) \cap pktmap' = {}
  BY <1>1, <1>2, <1>3, <1>4
<1> QED
  BY <1>3, <1>4, <1>6, <1>7, <1>8, <1>9 DEF New

(* The ring accounts for them.                                             *)
LEMMA RingStep ==
  ASSUME IInv, NEW written \in BOOLEAN, NEW arrives \in BOOLEAN, NEW fb, fb \subseteq running,
         fb = {} \/ \E x : fb = {x}, Posedge(written, arrives, fb), UNCHANGED trace
  PROVE  Accounted(ring, freeReq, addr, Live, Len(incoming))'
<1> DEFINE p == Head(incoming)
           s == trace[p].size
           L == Live \cup NewIds(arrives)
           ring1 == IF IsStored(arrives) THEN Allocate(ring, s) ELSE ring
           freed == Free(ring1, freeReq, fb)
           n == Len(incoming')
<1>1. /\ addr' = IF IsStored(arrives) THEN [addr EXCEPT ![p] = Wrap(ring, s).tail] ELSE addr
      /\ ring' = freed[1] /\ freeReq' = freed[2]
  BY DEF Posedge, IsStored
<1>2. /\ Accounted(ring, freeReq, addr, Live, Len(incoming)) /\ TraceOK
      /\ incoming \in Seq(Ids) /\ fb \subseteq Live
  BY DEF IInv, TypeOK, TraceOK, PsPINOnce, Live
<1>3. /\ incoming' \in Seq(Ids)
      /\ NewIds(arrives) \subseteq Ids \ Live
      /\ ~ IsStored(arrives) => incoming' = incoming
      /\ IsStored(arrives) => Len(incoming) \in Nat \ {0} /\ n = Len(incoming) - 1
  BY StoreFacts
<1>4. Live' = L \ fb
  BY LiveStep
<1>5. n \in Nat
  BY <1>3
<1> HIDE DEF n
<1>6. Accounted(ring1, freeReq, addr', L, n) /\ \A x \in Live : addr'[x] = addr[x]
  <2>1. CASE IsStored(arrives)
    <3>1. /\ NewIds(arrives) = {p} /\ L = Live \cup {p} /\ CanAllocate(ring, s)
          /\ ring1 = Allocate(ring, s) /\ addr' = [addr EXCEPT ![p] = Wrap(ring, s).tail]
      BY <1>1, <2>1 DEF NewIds, IsStored
    <3>2. p \in Ids \ Live /\ Len(incoming) \in Nat \ {0} /\ n = Len(incoming) - 1
      BY <1>3, <2>1, <3>1
    <3> HIDE DEF ring1, p
    <3>3. Accounted(ring1, freeReq, addr', Live \cup {p}, Len(incoming) - 1)
      BY <1>2, <3>1, <3>2, AccountStored
    <3>4. \A x \in Live : addr'[x] = addr[x]
      <4>1. addr \in [Ids -> Offsets] /\ Live \subseteq Ids
        BY <1>2 DEF Accounted
      <4> QED
        BY <3>1, <3>2, <4>1
    <3> QED
      BY <3>1, <3>2, <3>3, <3>4, Zenon
  <2>2. CASE ~ IsStored(arrives)
    <3>1. ring1 = ring /\ addr' = addr /\ L = Live /\ n = Len(incoming)
      BY <1>1, <1>3, <2>2 DEF NewIds, n
    <3> HIDE DEF ring1, L
    <3> QED
      BY <1>2, <3>1
  <2> QED
    BY <2>1, <2>2
<1> HIDE DEF ring1, L
<1>7. Accounted(ring', freeReq', addr', L \ fb, n)
  <2>1. CASE fb = {}
    <3>1. ring' = ring1 /\ freeReq' = freeReq /\ L \ fb = L
      BY <1>1, <2>1 DEF Free
    <3> QED
      BY <1>6, <3>1
  <2>2. CASE \E x : fb = {x}
    <3>1. PICK x : fb = {x}
      BY <2>2
    <3>2. x \in Live /\ x \in L /\ addr'[x] = addr[x]
      BY <1>2, <1>6, <3>1 DEF L
    <3> DEFINE q == [freeReq EXCEPT ![addr[x]] = trace[x].size]
               t == Reclaim(ring1, q)
    <3>3. freed = t
      <4>1. fb # {} /\ (CHOOSE y \in fb : TRUE) = x
        BY <3>1
      <4> QED
        BY <4>1 DEF Free
    <3>4. q = [freeReq EXCEPT ![addr'[x]] = trace[x].size]
      BY <3>2
    <3> HIDE DEF q, freed
    <3>5. Accounted(ring1, q, addr', L \ {x}, n)
      BY <1>2, <1>6, <3>2, <3>4, AccountFreed
    <3>6. Accounted(t[1], t[2], addr', L \ {x}, n)
      <4>1. t = Reclaim(ring1, q)
        OBVIOUS
      <4> HIDE DEF t
      <4> QED
        BY <1>5, <3>5, <4>1, AccountReclaimed
    <3> QED
      BY <1>1, <3>1, <3>3, <3>6
  <2> QED
    BY <2>1, <2>2
<1>8. Accounted(ring', freeReq', addr', Live', n)
  BY <1>4, <1>7
<1> QED
  BY <1>8 DEF Accounted, RingOK, TilesOf, FreedOf, n

(* The clock edge of PsPIN: the HER on the ports is taken or lost, packets *)
(* leave the FIFOs, and one may be fed back.                               *)
LEMMA EdgeStep ==
  ASSUME IInv, NEW written \in BOOLEAN, NEW arrives \in BOOLEAN, NEW pop, pop \subseteq Msgs,
         NEW fb, fb \subseteq running, Edge(pop, fb), Posedge(written, arrives, fb),
         UNCHANGED trace
  PROVE  /\ PsPINOnce' /\ fifo' \in [Msgs -> Seq(PsPIN!Cell)] /\ running' \subseteq Ids
<1> DEFINE Rest1(m) == IF m \in pop THEN Tail(fifo[m]) ELSE fifo[m]
           Gain(m) == IF Taken /\ trace[her.pkt].msg = m THEN {her.pkt} ELSE {}
           Lose(m) == IF m \in pop THEN {Head(fifo[m]).el} ELSE {}
           Sent == SentIds(written)
           C == PsPIN!Cell
<1>1. /\ running \subseteq pktmap /\ pktmap \subseteq Ids /\ her.pkt \in Ids
      /\ her.valid => her.pkt \in pktmap \ running
      /\ \A m \in Msgs : Apart(fifo[m]) /\ fifo[m] \in Seq(C)
      /\ \A m \in Msgs : \A p \in Holds(fifo[m]) :
            p \in pktmap \ running /\ trace[p].msg = m /\ (her.valid => p # her.pkt)
  BY DEF IInv, TypeOK, PsPINOnce
<1>2. /\ \A m \in pop : fifo[m] # <<>>
      /\ \A m \in Msgs : fifo'[m] = IF Taken /\ trace[her.pkt].msg = m
                                   THEN Append(Rest1(m), PsPIN!NewCell(m, her.pkt)) ELSE Rest1(m)
      /\ DOMAIN fifo' = Msgs
      /\ running' = (running \ fb) \cup {Head(fifo[m]).el : m \in pop}
  BY DEF Edge
<1>3. /\ pktmap' = (pktmap \cup Sent) \ fb
      /\ her'.valid => Sent = {her'.pkt}
  BY SendFacts
<1>4. Sent \cap pktmap = {}
  <2>1. written => queued # <<>>
    BY DEF Posedge
  <2>2. InSeq(Ready1(written)) \subseteq InSeq(ready) \cup InSeq(queued)
    BY <2>1, AnswerFacts
  <2>3. Sent \subseteq InSeq(Ready1(written))
    BY SendFacts
  <2> QED
    BY <2>2, <2>3 DEF IInv, NicOnce
<1>5. ASSUME NEW m \in Msgs
      PROVE  /\ Rest1(m) \in Seq(C) /\ Apart(Rest1(m)) /\ Holds(fifo[m]) = Holds(Rest1(m)) \cup Lose(m)
             /\ Holds(Rest1(m)) \cap Lose(m) = {}
  <2>1. CASE m \in pop
    <3>1. /\ Tail(fifo[m]) \in Seq(C) /\ Apart(Tail(fifo[m]))
          /\ Holds(fifo[m]) = Holds(Tail(fifo[m])) \cup {Head(fifo[m]).el}
          /\ Head(fifo[m]).el \notin Holds(Tail(fifo[m]))
      BY <1>1, <1>2, <2>1, PopHeld
    <3> QED
      BY <2>1, <3>1
  <2>2. CASE m \notin pop
    BY <1>1, <2>2
  <2> QED
    BY <2>1, <2>2
<1>6. ASSUME NEW m \in Msgs
      PROVE  /\ fifo'[m] \in Seq(C) /\ Apart(fifo'[m])
             /\ Holds(fifo'[m]) = Holds(Rest1(m)) \cup Gain(m)
  <2> HIDE DEF Rest1
  <2>1. CASE Taken /\ trace[her.pkt].msg = m
    <3> DEFINE c == PsPIN!NewCell(m, her.pkt)
    <3>1. c \in C /\ c.el = her.pkt
      BY <1>1 DEF PsPIN!NewCell, PsPIN!Cell
    <3>2. her.pkt \notin Holds(Rest1(m))
      BY <1>1, <1>5, <2>1 DEF Taken
    <3>3. fifo'[m] = Append(Rest1(m), c)
      BY <1>2, <2>1
    <3> HIDE DEF c
    <3>4. /\ Append(Rest1(m), c) \in Seq(C) /\ Apart(Append(Rest1(m), c))
          /\ Holds(Append(Rest1(m), c)) = Holds(Rest1(m)) \cup {c.el}
      BY <1>5, <3>1, <3>2, PushHeld
    <3> QED
      BY <2>1, <3>1, <3>3, <3>4
  <2>2. CASE ~ (Taken /\ trace[her.pkt].msg = m)
    BY <1>2, <1>5, <2>2
  <2> QED
    BY <2>1, <2>2
<1>7. running' \subseteq pktmap'
  <2>1. \A m \in pop : Head(fifo[m]).el \in Holds(fifo[m])
    BY <1>5
  <2> QED
    BY <1>1, <1>2, <1>3, <2>1
<1>8. ASSUME NEW m \in Msgs, NEW p \in Holds(fifo'[m])
      PROVE  p \in pktmap /\ p \notin running' /\ trace[p].msg = m
  <2> HIDE DEF Rest1
  <2>1. CASE p \in Holds(Rest1(m))
    <3>1. p \in Holds(fifo[m]) /\ p \notin Lose(m)
      BY <1>5, <2>1
    <3>2. p \in pktmap \ running /\ trace[p].msg = m
      BY <1>1, <3>1
    <3>3. \A k \in pop : p # Head(fifo[k]).el
      <4> SUFFICES ASSUME NEW k \in pop, p = Head(fifo[k]).el PROVE FALSE
        OBVIOUS
      <4>1. p \in Holds(fifo[k])
        BY <1>5
      <4>2. k = m
        BY <1>1, <3>2, <4>1
      <4> QED
        BY <3>1, <4>2
    <3> QED
      BY <1>2, <3>2, <3>3
  <2>2. CASE p \in Gain(m)
    <3>1. p = her.pkt /\ her.valid /\ trace[p].msg = m
      BY <2>2 DEF Taken
    <3>2. \A k \in pop : p # Head(fifo[k]).el
      <4>1. \A k \in pop : Head(fifo[k]).el \in Holds(fifo[k])
        BY <1>5
      <4> QED
        BY <1>1, <3>1, <4>1
    <3> QED
      BY <1>1, <1>2, <3>1, <3>2
  <2> QED
    BY <1>6, <2>1, <2>2
<1>9. \A m \in Msgs : \A p \in Holds(fifo'[m]) :
         p \in pktmap' \ running' /\ trace'[p].msg = m /\ (her'.valid => p # her'.pkt)
  <2> SUFFICES ASSUME NEW m \in Msgs, NEW p \in Holds(fifo'[m])
               PROVE  p \in pktmap' /\ p \notin running' /\ trace[p].msg = m /\ (her'.valid => p # her'.pkt)
    BY DEF Holds
  <2>1. p \in pktmap /\ p \notin running' /\ trace[p].msg = m
    BY <1>8
  <2>2. p \notin running
    <3> HIDE DEF Rest1
    <3>1. p \in Holds(fifo[m]) \/ (p = her.pkt /\ her.valid)
      BY <1>5, <1>6 DEF Taken
    <3> QED
      BY <1>1, <3>1
  <2> QED
    BY <1>3, <1>4, <2>1, <2>2
<1>10. her'.valid => her'.pkt \in pktmap' \ running'
  <2>1. her'.valid => her'.pkt \in Sent
    BY <1>3
  <2>2. Sent \subseteq pktmap' /\ Sent \cap running' = {}
    <3>1. \A m \in pop : Head(fifo[m]).el \in Holds(fifo[m])
      BY <1>5
    <3>2. running' \subseteq pktmap
      BY <1>1, <1>2, <3>1
    <3> QED
      BY <1>1, <1>3, <1>4, <3>2
  <2> QED
    BY <2>1, <2>2
<1>11. PsPINOnce'
  BY <1>6, <1>7, <1>9, <1>10 DEF PsPINOnce, Holds, Apart
<1>12. fifo' \in [Msgs -> Seq(C)]
  <2>1. fifo' = [m \in Msgs |-> fifo'[m]]
    BY DEF Edge
  <2> QED
    BY <1>6, <2>1
<1>13. running' \subseteq Ids
  <2>1. \A m \in pop : Head(fifo[m]).el \in Holds(fifo[m])
    BY <1>5
  <2> QED
    BY <1>1, <1>2, <2>1
<1> QED
  BY <1>11, <1>12, <1>13


(* The type invariant after a cycle.                                       *)
LEMMA TypeStep ==
  ASSUME IInv, NEW written \in BOOLEAN, NEW arrives \in BOOLEAN, NEW pop, pop \subseteq Msgs,
         NEW fb, fb \subseteq running, fb = {} \/ \E x : fb = {x}, Edge(pop, fb),
         Posedge(written, arrives, fb), UNCHANGED trace
  PROVE  TypeOK'
<1>1. trace' \in [Ids -> [msg : Msgs, size : Sizes]]
  BY DEF IInv, TypeOK
<1>2. /\ incoming' \in Seq(Ids) /\ queued' \in Seq(Ids) /\ ready' \in Seq(Ids)
      /\ her' \in [valid : BOOLEAN, pkt : Ids]
  BY StoreFacts, SendFacts
<1>3. /\ addr' \in [Ids -> Offsets] /\ freeReq' \in [Offsets -> {0} \cup Sizes]
      /\ ring' \in RingType /\ ring'.inFlight + Len(incoming') <= NumPkts
      /\ Live' \subseteq Ids
  BY RingStep DEF Accounted, RingOK
<1>4. ring' \in [head : Offsets, tail : Offsets, cutPtr : Offsets, cut : BOOLEAN,
                 inFlight : 0 .. NumPkts]
  <2> DEFINE n == Len(incoming')
             f == ring'.inFlight
  <2>1. n \in Nat /\ f \in Nat /\ f + n <= NumPkts /\ NumPkts \in Nat
    BY <1>2, <1>3, Params DEF RingType
  <2> HIDE DEF n, f
  <2>2. f \in 0 .. NumPkts
    BY <2>1
  <2>3. ring'.inFlight \in 0 .. NumPkts
    BY <2>2 DEF f
  <2> QED
    BY <1>3, <2>3 DEF RingType
<1>5. pktmap' \subseteq Ids
  BY <1>3 DEF Live
<1>6. eos' \in BOOLEAN
  BY DEF Posedge
<1>7. fifo' \in [Msgs -> Seq(PsPIN!Cell)] /\ running' \subseteq Ids
  BY EdgeStep
<1> QED
  BY <1>1, <1>2, <1>3, <1>4, <1>5, <1>6, <1>7 DEF TypeOK

(* The invariant holds in every initial state,                             *)
LEMMA InitInv == Init => IInv
<1> SUFFICES ASSUME Init PROVE IInv
  OBVIOUS
<1>1. NumPkts \in Nat \ {0} /\ Size \in Nat \ {0} /\ 1 \in Ids /\ 0 \in Offsets /\ Ids \subseteq Nat
  BY Params DEF Ids, Offsets
<1>2. incoming \in Seq(Ids) /\ Len(incoming) = NumPkts /\ Once(incoming)
  BY <1>1 DEF Init, Ids, Once
<1>3. Live = {}
  BY DEF Init, Live, InSeq
<1>4. TypeOK
  <2>1. ring \in [head : Offsets, tail : Offsets, cutPtr : Offsets, cut : BOOLEAN,
                  inFlight : 0 .. NumPkts]
    BY <1>1 DEF Init
  <2>2. her \in [valid : BOOLEAN, pkt : Ids]
    BY <1>1 DEF Init
  <2>3. /\ queued \in Seq(Ids) /\ ready \in Seq(Ids)
        /\ fifo \in [Msgs -> Seq(PsPIN!Cell)]
    BY DEF Init
  <2>4. /\ addr \in [Ids -> Offsets] /\ freeReq \in [Offsets -> {0} \cup Sizes]
    BY <1>1 DEF Init
  <2> QED
    BY <1>2, <2>1, <2>2, <2>3, <2>4 DEF Init, TypeOK
<1>5. Accounted(ring, freeReq, addr, Live, Len(incoming))
  <2>1. FreedOf(freeReq) = {} /\ TilesOf(addr, Live, freeReq) = {}
    BY <1>3 DEF Init, FreedOf, TilesOf
  <2>2. RingOK(ring, {})
    BY <1>1 DEF Init, RingOK, RingType, InRing
  <2>3. ring.inFlight = Cardinality({}) + Cardinality({}) /\ ring.inFlight + NumPkts <= NumPkts
    BY <1>1, FS_EmptySet DEF Init
  <2> QED
    BY <1>2, <1>3, <1>4, <2>1, <2>2, <2>3 DEF Accounted, TypeOK
<1>6. NicOnce
  BY <1>2, <1>3 DEF Init, NicOnce, InSeq, Once
<1>7. PsPINOnce
  BY DEF Init, PsPINOnce, Apart, Holds
<1> QED
  BY <1>4, <1>5, <1>6, <1>7 DEF IInv

(* and every cycle keeps it.                                               *)
LEMMA CycleStep == IInv /\ [Next]_vars => IInv'
<1> SUFFICES ASSUME IInv, [Next]_vars PROVE IInv'
  OBVIOUS
<1>1. CASE Next
  <2>1. PICK pop \in AtMostOne(Msgs), fb \in AtMostOne(running), written \in BOOLEAN,
             arrives \in BOOLEAN : Cycle(pop, fb, written, arrives)
    BY <1>1 DEF Next
  <2>2. pop \subseteq Msgs /\ fb \subseteq running /\ (fb = {} \/ \E x : fb = {x})
    BY DEF AtMostOne
  <2>3. Edge(pop, fb) /\ Posedge(written, arrives, fb) /\ UNCHANGED trace
    BY <2>1 DEF Cycle
  <2>4. TypeOK'
    BY <2>2, <2>3, TypeStep
  <2>5. NicOnce'
    BY <2>2, <2>3, LiveStep
  <2>6. Accounted(ring, freeReq, addr, Live, Len(incoming))'
    BY <2>2, <2>3, RingStep
  <2>7. PsPINOnce'
    BY <2>2, <2>3, EdgeStep
  <2> QED
    BY <2>4, <2>5, <2>6, <2>7 DEF IInv
<1>2. CASE UNCHANGED vars
  <2>1. TypeOK'
    <3>1. TypeOK
      BY DEF IInv
    <3> QED
      BY <1>2, <3>1, Zenon DEF vars, TypeOK
  <2>2. NicOnce'
    <3>1. NicOnce
      BY DEF IInv
    <3>2. incoming' = incoming /\ queued' = queued /\ ready' = ready /\ pktmap' = pktmap
      BY <1>2 DEF vars
    <3>3. /\ InSeq(incoming)' = InSeq(incoming) /\ InSeq(queued)' = InSeq(queued)
          /\ InSeq(ready)' = InSeq(ready)
      BY <3>2 DEF InSeq
    <3>4. Once(incoming)' /\ Once(queued)' /\ Once(ready)'
      BY <3>1, <3>2 DEF NicOnce, Once
    <3> QED
      BY <3>1, <3>2, <3>3, <3>4, Zenon DEF NicOnce, Live
  <2>3. Accounted(ring, freeReq, addr, Live, Len(incoming))'
    BY <1>2 DEF vars, IInv, Accounted, RingOK, TilesOf, FreedOf, Live, InSeq
  <2>4. PsPINOnce'
    BY <1>2 DEF vars, IInv, PsPINOnce, Apart, Holds
  <2> QED
    BY <2>1, <2>2, <2>3, <2>4 DEF IInv
<1> QED
  BY <1>1, <1>2

-----------------------------------------------------------------------------
(* A packet in the buffer and its place.                                   *)
LEMMA PlaceCovered ==
  ASSUME IInv, NEW p \in Live, NEW t, t = [at |-> addr[p], size |-> trace[p].size]
  PROVE  /\ t \in TilesOf(addr, Live, freeReq)
         /\ Place(p) \subseteq Nat /\ \A x \in Nat : x \in Place(p) <=> Covers(t, x)
<1>1. t \in TilesOf(addr, Live, freeReq)
  BY DEF TilesOf
<1>2. t \in Tile
  BY <1>1 DEF IInv, Accounted, RingOK
<1> DEFINE o == addr[p]
           s == trace[p].size
<1>3. o \in Nat /\ s \in Nat \ {0} /\ t.at = o /\ t.size = s
  BY <1>2 DEF Tile
<1> HIDE DEF o, s
<1>4. Segments(o, s) \subseteq Nat /\ \A x \in Nat : x \in Segments(o, s) <=> o <= x /\ x < o + s
  <2>1. \A x \in Nat : o <= x /\ x < o + s => x - o \in 0 .. s - 1 /\ x = o + (x - o)
    BY <1>3
  <2> QED
    BY <1>3, <2>1 DEF Segments
<1> QED
  BY <1>1, <1>3, <1>4 DEF Place, Covers, o, s

(* The tiles of two packets share no segment,                              *)
LEMMA InvDisjoint == IInv => PacketsDisjoint
<1> SUFFICES ASSUME IInv PROVE PacketsDisjoint
  OBVIOUS
<1> DEFINE T == TilesOf(addr, Live, freeReq)
           t(p) == [at |-> addr[p], size |-> trace[p].size]
<1>1. /\ \A u, v \in T : \A x \in Nat : Covers(u, x) /\ Covers(v, x) => u = v
      /\ \A x \in Nat : InRing(ring, x) <=> \E u \in T : Covers(u, x)
      /\ \A p, q \in Live : addr[p] = addr[q] => p = q
      /\ \A p \in Live : freeReq[addr[p]] = 0
      /\ ring \in RingType
  BY DEF IInv, Accounted, RingOK
<1>2. \A p \in Live : /\ t(p) \in T /\ Place(p) \subseteq Nat
                      /\ \A x \in Nat : x \in Place(p) <=> Covers(t(p), x)
  BY PlaceCovered
<1>3. \A x \in Nat : InRing(ring, x) => x \in 0 .. Size - 1
  <2>1. /\ ring.head \in 0 .. Size /\ ring.tail \in 0 .. Size /\ ring.cutPtr \in 0 .. Size
        /\ Size \in Nat \ {0}
    BY <1>1, Params DEF RingType, Offsets
  <2> QED
    BY <2>1 DEF InRing
<1>4. \A p, q \in Live : t(p) = t(q) => p = q
  BY <1>1
<1> HIDE DEF t, T
<1>5. ASSUME NEW p \in Live PROVE Place(p) \subseteq 0 .. Size - 1
  BY <1>1, <1>2, <1>3
<1>6. ASSUME NEW p \in Live, NEW q \in Live, p # q PROVE Place(p) \cap Place(q) = {}
  <2> SUFFICES ASSUME NEW x, x \in Place(p), x \in Place(q) PROVE FALSE
    OBVIOUS
  <2>1. x \in Nat /\ Covers(t(p), x) /\ Covers(t(q), x)
    BY <1>2
  <2> QED
    BY <1>1, <1>2, <1>4, <1>6, <2>1
<1> QED
  BY <1>1, <1>5, <1>6 DEF PacketsDisjoint

(* and the pointers of the ring go around the tiles only.                  *)
LEMMA InvAccounted == IInv => SpaceAccounted
<1> SUFFICES ASSUME IInv PROVE SpaceAccounted
  OBVIOUS
<1> DEFINE T == TilesOf(addr, Live, freeReq)
           P == {Place(p) : p \in Live}
           F == {Segments(o, freeReq[o]) : o \in Freed}
<1>1. /\ \A x \in Nat : InRing(ring, x) <=> \E u \in T : Covers(u, x)
      /\ ring \in RingType /\ T \subseteq Tile
      /\ ring.inFlight = Cardinality(Live) + Cardinality(FreedOf(freeReq))
  BY DEF IInv, Accounted, RingOK
<1>2. Freed = FreedOf(freeReq)
  BY DEF Freed, FreedOf
<1>3. ASSUME NEW o \in Freed
      PROVE  /\ [at |-> o, size |-> freeReq[o]] \in T /\ Segments(o, freeReq[o]) \subseteq Nat
             /\ \A x \in Nat : x \in Segments(o, freeReq[o])
                                 <=> Covers([at |-> o, size |-> freeReq[o]], x)
  <2> DEFINE t == [at |-> o, size |-> freeReq[o]]
             s == freeReq[o]
  <2>1. t \in T
    BY <1>2 DEF TilesOf
  <2>2. o \in Nat /\ s \in Nat \ {0} /\ t.at = o /\ t.size = s
    BY <1>1, <2>1 DEF Tile
  <2>3. Segments(o, s) \subseteq Nat /\ \A x \in Nat : x \in Segments(o, s) <=> o <= x /\ x < o + s
    <3> HIDE DEF s
    <3>1. \A x \in Nat : o <= x /\ x < o + s => x - o \in 0 .. s - 1 /\ x = o + (x - o)
      BY <2>2
    <3> QED
      BY <2>2, <3>1 DEF Segments
  <2> QED
    BY <2>1, <2>2, <2>3 DEF Covers
<1>4. ASSUME NEW p \in Live
      PROVE  /\ [at |-> addr[p], size |-> trace[p].size] \in T /\ Place(p) \subseteq Nat
             /\ \A x \in Nat : x \in Place(p)
                                 <=> Covers([at |-> addr[p], size |-> trace[p].size], x)
  BY PlaceCovered
<1>5. \A u \in T : \/ \E p \in Live : u = [at |-> addr[p], size |-> trace[p].size]
                   \/ \E o \in Freed : u = [at |-> o, size |-> freeReq[o]]
  BY <1>2 DEF TilesOf
<1> HIDE DEF T
<1>6. UNION (P \cup F) = {x \in Nat : InRing(ring, x)}
  <2>1. ASSUME NEW x \in UNION (P \cup F) PROVE x \in Nat /\ InRing(ring, x)
    <3>1. (\E p \in Live : x \in Place(p)) \/ (\E o \in Freed : x \in Segments(o, freeReq[o]))
      BY <2>1
    <3> QED
      BY <1>1, <1>3, <1>4, <3>1
  <2>2. ASSUME NEW x \in Nat, InRing(ring, x) PROVE x \in UNION (P \cup F)
    <3>1. PICK u \in T : Covers(u, x)
      BY <1>1, <2>2
    <3>2. CASE \E p \in Live : u = [at |-> addr[p], size |-> trace[p].size]
      <4>1. \E p \in Live : x \in Place(p)
        BY <1>4, <3>1, <3>2
      <4> QED
        BY <4>1
    <3>3. CASE \E o \in Freed : u = [at |-> o, size |-> freeReq[o]]
      <4>1. \E o \in Freed : x \in Segments(o, freeReq[o])
        BY <1>3, <3>1, <3>3
      <4> QED
        BY <4>1
    <3> QED
      BY <1>5, <3>2, <3>3
  <2> QED
    BY <2>1, <2>2
<1>7. Region(ring) = {x \in Nat : InRing(ring, x)}
  <2>1. /\ ring.head \in Nat /\ ring.tail \in Nat /\ ring.cutPtr \in Nat /\ ring.cut \in BOOLEAN
    BY <1>1, Params DEF RingType, Offsets
  <2> QED
    BY <2>1 DEF Region, InRing
<1> QED
  BY <1>1, <1>2, <1>6, <1>7 DEF SpaceAccounted

-----------------------------------------------------------------------------
(* IInv holds in every reachable state of NICInbound.hpp's model.          *)
THEOREM NicInvariance == Spec => []IInv
<1>1. Init => IInv
  BY InitInv
<1>2. IInv /\ [Next]_vars => IInv'
  BY CycleStep
<1> QED
  BY <1>1, <1>2, PTL DEF Spec

(* Every variable keeps its type: the pointers of the ring stay inside the *)
(* buffer and in_flight_packets never falls below zero nor counts more     *)
(* packets than there are (NICInbound.hpp:247-317).                        *)
THEOREM TypeCorrect == Spec => []TypeOK
<1>1. IInv => TypeOK
  BY DEF IInv
<1> QED
  BY <1>1, NicInvariance, PTL

(* No packet is stored over another one that is still in the buffer, nor   *)
(* is an offset freed twice (the assertion at NICInbound.hpp:298).         *)
THEOREM PacketsAreDisjoint == Spec => []PacketsDisjoint
<1>1. IInv => PacketsDisjoint
  BY InvDisjoint
<1> QED
  BY <1>1, NicInvariance, PTL

(* The space between the pointers is that of the packets stored and of     *)
(* those freed out of order: allocate_pkt_space and free_pkt_space lose no *)
(* segment, whatever the order of the feedbacks.                           *)
THEOREM SpaceIsAccounted == Spec => []SpaceAccounted
<1>1. IInv => SpaceAccounted
  BY InvAccounted
<1> QED
  BY <1>1, NicInvariance, PTL
=============================================================================
