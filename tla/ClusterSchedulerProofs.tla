------------------------ MODULE ClusterSchedulerProofs ------------------------
(***************************************************************************)
(* The safety properties of ClusterScheduler, for any number of HPUs and   *)
(* tasks, any depth of the FIFO and any packet buffer.                     *)
(***************************************************************************)
EXTENDS ClusterScheduler, ClusterRBProofs

Copied(t) == t.size > 0

(* Transfers in the order of the FIFO f: e lists the places of its tasks   *)
(* that have a packet; the first n of them have arrived, those in d follow *)
(* in order, and the one that waits for the DMA is the last.               *)
Marks(e, L, f) ==
  /\ e \in [1 .. L -> 1 .. Len(f)]
  /\ \A i, j \in 1 .. L : i < j => e[i] < e[j]
  /\ \A k \in 1 .. Len(f) : Copied(f[k]) <=> \E i \in 1 .. L : e[i] = k
Transfers(e, L, f, d, P, n) ==
  /\ \A l \in 1 .. Len(d) : n + l \in 1 .. L /\ d[l] = f[e[n + l]]
  /\ \/ P = {} /\ L = n + Len(d)
     \/ L = n + Len(d) + 1 /\ P = {f[e[L]]}
Track(f, d, P, n) ==
  \E L \in Nat : \E e : Marks(e, L, f) /\ Transfers(e, L, f, d, P, n)

(* The places of f whose packet has come, T being in transfer.             *)
Issued(d) == {d[k] : k \in DOMAIN d}
Distinct(f) == \A j, k \in 1 .. Len(f) : f[j] = f[k] => j = k
Arrived(f, T) == {k \in DOMAIN f : Copied(f[k]) /\ f[k] \notin T}

-----------------------------------------------------------------------------
(* The oldest task leaves: one of the arrived packets is no more waiting,  *)
(* if the task has a packet.                                               *)
LEMMA TrackPop ==
  ASSUME NEW X, NEW f \in Seq(X), f # <<>>, NEW d \in Seq(X), NEW P, NEW n \in Nat,
         Track(f, d, P, n), Copied(Head(f)) => n > 0
  PROVE  Track(Tail(f), d, P, IF Copied(Head(f)) THEN n - 1 ELSE n)
<1> DEFINE m == Len(f)
           w == Len(d)
           g == Tail(f)
<1>1. m \in Nat \ {0} /\ w \in Nat /\ Len(g) = m - 1 /\ \A k \in 1 .. m - 1 : g[k] = f[k + 1]
  OBVIOUS
<1>40. m \in Nat /\ w \in Nat
  BY <1>1
<1>2. Head(f) = f[1]
  OBVIOUS
<1>30. PICK L \in Nat : \E e : Marks(e, L, f) /\ Transfers(e, L, f, d, P, n)
  BY DEF Track
<1>3. PICK e : Marks(e, L, f) /\ Transfers(e, L, f, d, P, n)
  BY <1>30
<1>4. /\ e \in [1 .. L -> 1 .. m]
      /\ \A i, j \in 1 .. L : i < j => e[i] < e[j]
      /\ \A k \in 1 .. m : Copied(f[k]) <=> \E i \in 1 .. L : e[i] = k
      /\ \A l \in 1 .. w : n + l \in 1 .. L /\ d[l] = f[e[n + l]]
      /\ (P = {} /\ L = n + w) \/ (L = n + w + 1 /\ P = {f[e[L]]})
  BY <1>3 DEF Marks, Transfers
<1> HIDE DEF m, w, g
<1>5. CASE Copied(f[1])
  <2>1. L \in Nat \ {0} /\ e[1] = 1 /\ n \in Nat \ {0}
    <3>1. PICK i \in 1 .. L : e[i] = 1
      BY <1>1, <1>4, <1>5
    <3>2. i = 1
      <4>1. 1 < i => 1 \in 1 .. L /\ e[1] < e[i]
        BY <1>4, <3>1
      <4> QED
        BY <1>1, <1>4, <3>1, <4>1
    <3> QED
      BY <1>2, <1>5, <3>1, <3>2
  <2> DEFINE q == [i \in 1 .. L - 1 |-> e[i + 1] - 1]
  <2>2. \A i \in 1 .. L - 1 : i + 1 \in 1 .. L /\ q[i] = e[i + 1] - 1 /\ e[i + 1] \in 2 .. m
    <3> SUFFICES ASSUME NEW i \in 1 .. L - 1
                 PROVE  i + 1 \in 1 .. L /\ e[i + 1] \in 2 .. m
      OBVIOUS
    <3>1. i + 1 \in 1 .. L /\ 1 \in 1 .. L /\ 1 < i + 1
      BY <2>1
    <3>2. e[1] < e[i + 1] /\ e[i + 1] \in 1 .. m
      BY <1>4, <3>1
    <3> QED
      BY <1>40, <2>1, <3>1, <3>2
  <2>3. q \in [1 .. L - 1 -> 1 .. m - 1]
    <3>1. \A i \in 1 .. L - 1 : e[i + 1] - 1 \in 1 .. m - 1
      BY <1>40, <2>2
    <3> QED
      BY <3>1
  <2> HIDE DEF q
  <2>4. \A i, j \in 1 .. L - 1 : i < j => q[i] < q[j]
    <3> SUFFICES ASSUME NEW i \in 1 .. L - 1, NEW j \in 1 .. L - 1, i < j
                 PROVE  q[i] < q[j]
      OBVIOUS
    <3>1. i + 1 \in 1 .. L /\ j + 1 \in 1 .. L /\ i + 1 < j + 1
      BY <2>1
    <3>2. e[i + 1] < e[j + 1]
      BY <1>4, <3>1
    <3>3. q[i] = e[i + 1] - 1 /\ q[j] = e[j + 1] - 1
      BY <2>2
    <3>4. e[i + 1] \in 2 .. m /\ e[j + 1] \in 2 .. m
      BY <2>2
    <3> QED
      BY <1>40, <3>2, <3>3, <3>4
  <2>5. ASSUME NEW k \in 1 .. m - 1
        PROVE  Copied(g[k]) <=> \E i \in 1 .. L - 1 : q[i] = k
    <3>1. k + 1 \in 1 .. m /\ g[k] = f[k + 1]
      BY <1>1
    <3>2. Copied(g[k]) <=> \E i \in 1 .. L : e[i] = k + 1
      BY <1>4, <3>1
    <3>3. ASSUME NEW i \in 1 .. L, e[i] = k + 1
          PROVE  i - 1 \in 1 .. L - 1 /\ q[i - 1] = k
      <4>1. i # 1
        BY <2>1, <3>3
      <4>2. i - 1 \in 1 .. L - 1 /\ (i - 1) + 1 = i
        BY <2>1, <4>1
      <4>3. q[i - 1] = e[i] - 1
        BY <2>2, <4>2
      <4> QED
        BY <3>3, <4>2, <4>3
    <3>4. ASSUME NEW i \in 1 .. L - 1, q[i] = k
          PROVE  i + 1 \in 1 .. L /\ e[i + 1] = k + 1
      <4>1. q[i] = e[i + 1] - 1 /\ e[i + 1] \in 2 .. m /\ i + 1 \in 1 .. L
        BY <2>2
      <4> QED
        BY <1>40, <3>4, <4>1
    <3> QED
      BY <3>2, <3>3, <3>4
  <2>6. Marks(q, L - 1, g)
    BY <1>1, <2>3, <2>4, <2>5 DEF Marks
  <2>7. \A i \in 1 .. L : i > 1 => i - 1 \in 1 .. L - 1 /\ g[q[i - 1]] = f[e[i]]
    <3> SUFFICES ASSUME NEW i \in 1 .. L, i > 1
                 PROVE  i - 1 \in 1 .. L - 1 /\ g[q[i - 1]] = f[e[i]]
      OBVIOUS
    <3>1. i - 1 \in 1 .. L - 1 /\ (i - 1) + 1 = i
      BY <2>1
    <3>2. q[i - 1] = e[i] - 1 /\ e[i] \in 2 .. m
      BY <2>2, <3>1
    <3>3. e[i] - 1 \in 1 .. m - 1 /\ (e[i] - 1) + 1 = e[i]
      <4> DEFINE k == e[i]
      <4>1. k \in 2 .. m
        BY <3>2
      <4> HIDE DEF k
      <4>2. k - 1 \in 1 .. m - 1 /\ (k - 1) + 1 = k
        BY <1>40, <4>1
      <4> QED
        BY <4>2 DEF k
    <3>4. g[e[i] - 1] = f[e[i]]
      <4> DEFINE k == e[i] - 1
      <4>1. k \in 1 .. m - 1 /\ k + 1 = e[i]
        BY <3>3
      <4> HIDE DEF k
      <4>2. g[k] = f[k + 1]
        BY <1>1, <4>1
      <4> QED
        BY <4>1, <4>2 DEF k
    <3> QED
      BY <3>1, <3>2, <3>4, Zenon
  <2>8. \A l \in 1 .. w : n - 1 + l \in 1 .. L - 1 /\ d[l] = g[q[n - 1 + l]]
    <3> SUFFICES ASSUME NEW l \in 1 .. w
                 PROVE  n - 1 + l \in 1 .. L - 1 /\ d[l] = g[q[n - 1 + l]]
      OBVIOUS
    <3>1. n + l \in 1 .. L /\ d[l] = f[e[n + l]]
      BY <1>4
    <3>2. n + l > 1 /\ (n + l) - 1 = n - 1 + l
      BY <1>40, <2>1
    <3> QED
      BY <2>7, <3>1, <3>2
  <2>9. (P = {} /\ L - 1 = n - 1 + w) \/ (L - 1 = n - 1 + w + 1 /\ P = {g[q[L - 1]]})
    <3>1. CASE P = {} /\ L = n + w
      BY <1>40, <2>1, <3>1
    <3>2. CASE L = n + w + 1 /\ P = {f[e[L]]}
      <4>1. L > 1 /\ L \in 1 .. L
        BY <1>40, <2>1, <3>2
      <4>2. g[q[L - 1]] = f[e[L]]
        BY <2>7, <4>1
      <4>3. L - 1 = n - 1 + w + 1
        BY <1>40, <2>1, <3>2
      <4> QED
        BY <3>2, <4>2, <4>3
    <3> QED
      BY <1>4, <3>1, <3>2
  <2>10. Transfers(q, L - 1, g, d, P, n - 1)
    BY <2>8, <2>9 DEF Transfers, w
  <2>11. L - 1 \in Nat
    BY <2>1
  <2> QED
    BY <1>2, <1>5, <2>6, <2>10, <2>11 DEF Track, g
<1>6. CASE ~ Copied(f[1])
  <2> DEFINE q == [i \in 1 .. L |-> e[i] - 1]
  <2>1. \A i \in 1 .. L : e[i] \in 2 .. m
    <3> SUFFICES ASSUME NEW i \in 1 .. L
                 PROVE  e[i] \in 2 .. m
      OBVIOUS
    <3>1. e[i] \in 1 .. m
      BY <1>4
    <3>2. e[i] # 1
      BY <1>1, <1>4, <1>6
    <3> QED
      BY <1>40, <3>1, <3>2
  <2>2. \A i \in 1 .. L : q[i] = e[i] - 1
    OBVIOUS
  <2>3. q \in [1 .. L -> 1 .. m - 1]
    <3>1. \A i \in 1 .. L : e[i] - 1 \in 1 .. m - 1
      BY <1>40, <2>1
    <3> QED
      BY <3>1
  <2> HIDE DEF q
  <2>4. \A i, j \in 1 .. L : i < j => q[i] < q[j]
    BY <1>40, <1>4, <2>1, <2>2
  <2>5. ASSUME NEW k \in 1 .. m - 1
        PROVE  Copied(g[k]) <=> \E i \in 1 .. L : q[i] = k
    <3>1. k + 1 \in 1 .. m /\ g[k] = f[k + 1]
      BY <1>1
    <3>2. Copied(g[k]) <=> \E i \in 1 .. L : e[i] = k + 1
      BY <1>4, <3>1
    <3>3. ASSUME NEW i \in 1 .. L
          PROVE  e[i] = k + 1 <=> q[i] = k
      <4>1. e[i] \in 2 .. m /\ q[i] = e[i] - 1
        BY <2>1, <2>2
      <4> QED
        BY <1>40, <4>1
    <3> QED
      BY <3>2, <3>3
  <2>6. Marks(q, L, g)
    BY <1>1, <2>3, <2>4, <2>5 DEF Marks
  <2>7. \A i \in 1 .. L : g[q[i]] = f[e[i]]
    <3> SUFFICES ASSUME NEW i \in 1 .. L
                 PROVE  g[q[i]] = f[e[i]]
      OBVIOUS
    <3>1. q[i] = e[i] - 1 /\ e[i] - 1 \in 1 .. m - 1 /\ (e[i] - 1) + 1 = e[i]
      BY <1>40, <2>1, <2>2
    <3> QED
      BY <1>1, <3>1
  <2>8. \A l \in 1 .. w : n + l \in 1 .. L /\ d[l] = g[q[n + l]]
    BY <1>4, <2>7
  <2>9. (P = {} /\ L = n + w) \/ (L = n + w + 1 /\ P = {g[q[L]]})
    <3>1. L = n + w + 1 => L \in 1 .. L
      BY <1>40
    <3> QED
      BY <1>4, <2>7, <3>1
  <2>10. Transfers(q, L, g, d, P, n)
    BY <2>8, <2>9 DEF Transfers, w
  <2> QED
    BY <1>2, <1>6, <2>6, <2>10 DEF Track, g
<1> QED
  BY <1>5, <1>6

(* The DMA engine answers its oldest transfer: one more has arrived.       *)
LEMMA TrackResp ==
  ASSUME NEW X, NEW f \in Seq(X), NEW d \in Seq(X), d # <<>>, NEW P, NEW n \in Nat,
         Track(f, d, P, n)
  PROVE  Track(f, Tail(d), P, n + 1)
<1> DEFINE w == Len(d)
           g == Tail(d)
<1>1. w \in Nat \ {0} /\ Len(g) = w - 1 /\ \A k \in 1 .. w - 1 : g[k] = d[k + 1]
  OBVIOUS
<1>20. PICK L \in Nat : \E e : Marks(e, L, f) /\ Transfers(e, L, f, d, P, n)
  BY DEF Track
<1>2. PICK e : Marks(e, L, f) /\ Transfers(e, L, f, d, P, n)
  BY <1>20
<1>3. /\ \A l \in 1 .. w : n + l \in 1 .. L /\ d[l] = f[e[n + l]]
      /\ (P = {} /\ L = n + w) \/ (L = n + w + 1 /\ P = {f[e[L]]})
  BY <1>2 DEF Transfers
<1> HIDE DEF w, g
<1>4. \A l \in 1 .. w - 1 : n + 1 + l \in 1 .. L /\ g[l] = f[e[n + 1 + l]]
  <2> SUFFICES ASSUME NEW l \in 1 .. w - 1
               PROVE  n + 1 + l \in 1 .. L /\ g[l] = f[e[n + 1 + l]]
    OBVIOUS
  <2>1. l + 1 \in 1 .. w /\ n + (l + 1) = n + 1 + l /\ g[l] = d[l + 1]
    BY <1>1
  <2>2. n + (l + 1) \in 1 .. L /\ d[l + 1] = f[e[n + (l + 1)]]
    BY <1>3, <2>1
  <2> QED
    BY <2>1, <2>2
<1>5. n + 1 + (w - 1) = n + w
  BY <1>1
<1>6. Transfers(e, L, f, g, P, n + 1)
  BY <1>1, <1>3, <1>4, <1>5 DEF Transfers
<1> QED
  BY <1>2, <1>6 DEF Track, g

(* A task is taken in while no transfer waits for the DMA: if it has a     *)
(* packet, its transfer is the next one.                                   *)
LEMMA TrackAccept ==
  ASSUME NEW X, NEW f \in Seq(X), NEW d \in Seq(X), NEW n \in Nat, NEW t \in X,
         Track(f, d, {}, n)
  PROVE  Track(Append(f, t), d, IF Copied(t) THEN {t} ELSE {}, n)
<1> DEFINE m == Len(f)
           w == Len(d)
           g == Append(f, t)
<1>1. m \in Nat /\ w \in Nat /\ Len(g) = m + 1 /\ (\A k \in 1 .. m : g[k] = f[k]) /\ g[m + 1] = t
  OBVIOUS
<1>20. PICK L \in Nat : \E e : Marks(e, L, f) /\ Transfers(e, L, f, d, {}, n)
  BY DEF Track
<1>2. PICK e : Marks(e, L, f) /\ Transfers(e, L, f, d, {}, n)
  BY <1>20
<1>3. /\ e \in [1 .. L -> 1 .. m]
      /\ \A i, j \in 1 .. L : i < j => e[i] < e[j]
      /\ \A k \in 1 .. m : Copied(f[k]) <=> \E i \in 1 .. L : e[i] = k
      /\ \A l \in 1 .. w : n + l \in 1 .. L /\ d[l] = f[e[n + l]]
      /\ L = n + w
  BY <1>2 DEF Marks, Transfers
<1> HIDE DEF m, w, g
<1>4. \A i \in 1 .. L : g[e[i]] = f[e[i]]
  BY <1>1, <1>3
<1>5. \A k \in 1 .. m + 1 : k \in 1 .. m \/ k = m + 1
  BY <1>1
<1>6. CASE ~ Copied(t)
  <2>1. e \in [1 .. L -> 1 .. m + 1] /\ \A i \in 1 .. L : e[i] # m + 1
    <3>1. \A i \in 1 .. L : e[i] \in 1 .. m
      BY <1>3
    <3>2. \A k \in 1 .. m : k \in 1 .. m + 1 /\ k # m + 1
      BY <1>1
    <3> QED
      BY <1>3, <3>1, <3>2
  <2>2. \A k \in 1 .. m + 1 : Copied(g[k]) <=> \E i \in 1 .. L : e[i] = k
    BY <1>1, <1>3, <1>5, <1>6, <2>1
  <2>3. Marks(e, L, g)
    BY <1>1, <1>3, <2>1, <2>2 DEF Marks
  <2>4. Transfers(e, L, g, d, {}, n)
    BY <1>3, <1>4 DEF Transfers, w
  <2> QED
    BY <1>6, <2>3, <2>4 DEF Track, g
<1>7. CASE Copied(t)
  <2> DEFINE q == [i \in 1 .. L + 1 |-> IF i = L + 1 THEN m + 1 ELSE e[i]]
  <2>1. /\ \A i \in 1 .. L : i \in 1 .. L + 1 /\ q[i] = e[i] /\ e[i] \in 1 .. m /\ i # L + 1
        /\ L + 1 \in 1 .. L + 1 /\ q[L + 1] = m + 1 /\ \A i \in 1 .. L + 1 : i = L + 1 \/ i \in 1 .. L
    BY <1>3
  <2>2. q \in [1 .. L + 1 -> 1 .. m + 1]
    <3>1. \A i \in 1 .. L : e[i] \in 1 .. m + 1
      <4>1. \A k \in 1 .. m : k \in 1 .. m + 1
        BY <1>1
      <4> QED
        BY <1>3, <4>1
    <3>2. m + 1 \in 1 .. m + 1
      BY <1>1
    <3> QED
      BY <2>1, <3>1, <3>2
  <2> HIDE DEF q
  <2>3. \A i, j \in 1 .. L + 1 : i < j => q[i] < q[j]
    <3> SUFFICES ASSUME NEW i \in 1 .. L + 1, NEW j \in 1 .. L + 1, i < j
                 PROVE  q[i] < q[j]
      OBVIOUS
    <3>1. i \in 1 .. L
      OBVIOUS
    <3>2. CASE j = L + 1
      BY <1>1, <2>1, <3>1, <3>2
    <3>3. CASE j \in 1 .. L
      BY <1>3, <2>1, <3>1, <3>3
    <3> QED
      BY <2>1, <3>2, <3>3
  <2>4. \A k \in 1 .. m + 1 : Copied(g[k]) <=> \E i \in 1 .. L + 1 : q[i] = k
    <3> SUFFICES ASSUME NEW k \in 1 .. m + 1
                 PROVE  Copied(g[k]) <=> \E i \in 1 .. L + 1 : q[i] = k
      OBVIOUS
    <3>1. CASE k = m + 1
      BY <1>1, <1>7, <2>1, <3>1
    <3>2. CASE k \in 1 .. m
      <4>1. k # m + 1
        BY <1>1, <3>2
      <4>2. Copied(g[k]) <=> \E i \in 1 .. L : e[i] = k
        BY <1>1, <1>3, <3>2
      <4> QED
        BY <2>1, <4>1, <4>2
    <3> QED
      BY <1>5, <3>1, <3>2
  <2>5. Marks(q, L + 1, g)
    BY <1>1, <2>2, <2>3, <2>4 DEF Marks
  <2>6. \A l \in 1 .. w : n + l \in 1 .. L + 1 /\ d[l] = g[q[n + l]]
    BY <1>3, <1>4, <2>1
  <2>7. L + 1 = n + w + 1 /\ {t} = {g[q[L + 1]]}
    BY <1>1, <1>3, <2>1
  <2>8. Transfers(q, L + 1, g, d, {t}, n)
    BY <2>6, <2>7 DEF Transfers, w
  <2>9. L + 1 \in Nat
    OBVIOUS
  <2> QED
    BY <1>7, <2>5, <2>8, <2>9 DEF Track, g
<1> QED
  BY <1>6, <1>7

(* The transfer that waited is issued.                                     *)
LEMMA TrackIssue ==
  ASSUME NEW X, NEW f \in Seq(X), NEW d \in Seq(X), NEW n \in Nat, NEW t \in X,
         Track(f, d, {t}, n)
  PROVE  Track(f, Append(d, t), {}, n)
<1> DEFINE w == Len(d)
           g == Append(d, t)
<1>1. w \in Nat /\ Len(g) = w + 1 /\ (\A k \in 1 .. w : g[k] = d[k]) /\ g[w + 1] = t
  OBVIOUS
<1>20. PICK L \in Nat : \E e : Marks(e, L, f) /\ Transfers(e, L, f, d, {t}, n)
  BY DEF Track
<1>2. PICK e : Marks(e, L, f) /\ Transfers(e, L, f, d, {t}, n)
  BY <1>20
<1>3. /\ \A l \in 1 .. w : n + l \in 1 .. L /\ d[l] = f[e[n + l]]
      /\ L = n + w + 1 /\ t = f[e[L]]
  BY <1>2 DEF Transfers
<1> HIDE DEF w, g
<1>4. \A l \in 1 .. w + 1 : n + l \in 1 .. L /\ g[l] = f[e[n + l]]
  <2> SUFFICES ASSUME NEW l \in 1 .. w + 1
               PROVE  n + l \in 1 .. L /\ g[l] = f[e[n + l]]
    OBVIOUS
  <2>1. CASE l \in 1 .. w
    BY <1>1, <1>3, <2>1
  <2>2. CASE l = w + 1
    <3>1. n + l = L /\ L \in 1 .. L
      BY <1>1, <1>3, <2>2
    <3> QED
      BY <1>1, <1>3, <2>2, <3>1
  <2> QED
    BY <1>1, <2>1, <2>2
<1>5. L = n + (w + 1)
  BY <1>1, <1>3
<1>6. Transfers(e, L, f, g, {}, n)
  BY <1>1, <1>4, <1>5 DEF Transfers
<1> QED
  BY <1>2, <1>6 DEF Track, g

(* The count: of the tasks with a packet that are in f, those neither in   *)
(* d nor in P have arrived.                                                *)
LEMMA TrackCount ==
  ASSUME NEW X, NEW f \in Seq(X), NEW d \in Seq(X), NEW P, NEW n \in Nat, Track(f, d, P, n),
         Distinct(f)
  PROVE  /\ n = Cardinality(Arrived(f, P \cup Issued(d)))
         /\ n <= Len(f)
         /\ \A t \in P \cup Issued(d) : \E k \in 1 .. Len(f) : f[k] = t
<1> DEFINE m == Len(f)
           w == Len(d)
           T == P \cup Issued(d)
           H == Arrived(f, T)
<1>1. m \in Nat /\ w \in Nat /\ DOMAIN f = 1 .. m /\ DOMAIN d = 1 .. w
  OBVIOUS
<1>20. PICK L \in Nat : \E e : Marks(e, L, f) /\ Transfers(e, L, f, d, P, n)
  BY DEF Track
<1>2. PICK e : Marks(e, L, f) /\ Transfers(e, L, f, d, P, n)
  BY <1>20
<1>3. /\ e \in [1 .. L -> 1 .. m]
      /\ \A i, j \in 1 .. L : i < j => e[i] < e[j]
      /\ \A k \in 1 .. m : Copied(f[k]) <=> \E i \in 1 .. L : e[i] = k
      /\ \A l \in 1 .. w : n + l \in 1 .. L /\ d[l] = f[e[n + l]]
      /\ (P = {} /\ L = n + w) \/ (L = n + w + 1 /\ P = {f[e[L]]})
  BY <1>2 DEF Marks, Transfers
<1>4. \A j, k \in 1 .. m : f[j] = f[k] => j = k
  BY DEF Distinct
<1>5. T = P \cup {d[k] : k \in 1 .. w}
  BY <1>1 DEF Issued
<1>6. H = {k \in 1 .. m : Copied(f[k]) /\ f[k] \notin T}
  BY <1>1 DEF Arrived
<1> HIDE DEF m, w, T, H
<1>7. n <= L /\ \A i \in 1 .. n : i \in 1 .. L
  BY <1>1, <1>3
<1>8. \A i, j \in 1 .. L : e[i] = e[j] => i = j
  <2> SUFFICES ASSUME NEW i \in 1 .. L, NEW j \in 1 .. L, e[i] = e[j], i # j
               PROVE  FALSE
    OBVIOUS
  <2>1. i < j \/ j < i
    OBVIOUS
  <2>2. e[i] < e[j] \/ e[j] < e[i]
    BY <1>3, <2>1
  <2>3. e[i] \in Int /\ e[j] \in Int
    BY <1>1, <1>3
  <2> QED
    BY <2>2, <2>3
<1>9. \A i \in 1 .. L : f[e[i]] \in T <=> n < i
  <2> SUFFICES ASSUME NEW i \in 1 .. L
               PROVE  f[e[i]] \in T <=> n < i
    OBVIOUS
  <2>1. ASSUME f[e[i]] \in T
        PROVE  n < i
    <3>1. CASE f[e[i]] \in P
      <4>1. L = n + w + 1 /\ f[e[i]] = f[e[L]] /\ L \in 1 .. L
        BY <1>1, <1>3, <3>1
      <4>2. i = L
        <5>1. e[i] \in 1 .. m /\ e[L] \in 1 .. m
          BY <1>3, <4>1
        <5> QED
          BY <1>4, <1>8, <4>1, <5>1
      <4> QED
        BY <1>1, <4>1, <4>2
    <3>2. CASE f[e[i]] \notin P
      <4>1. PICK l \in 1 .. w : f[e[i]] = d[l]
        BY <1>5, <2>1, <3>2
      <4>2. n + l \in 1 .. L /\ f[e[i]] = f[e[n + l]]
        BY <1>3, <4>1
      <4>3. i = n + l
        <5>1. e[i] \in 1 .. m /\ e[n + l] \in 1 .. m
          BY <1>3, <4>2
        <5> QED
          BY <1>4, <1>8, <4>2, <5>1
      <4> QED
        BY <4>3
    <3> QED
      BY <3>1, <3>2
  <2>2. ASSUME n < i
        PROVE  f[e[i]] \in T
    <3>1. CASE i = n + w + 1
      <4>1. L = n + w + 1 /\ P = {f[e[L]]}
        BY <1>1, <1>3, <3>1
      <4> QED
        BY <1>5, <3>1, <4>1
    <3>2. CASE i # n + w + 1
      <4>1. i - n \in 1 .. w /\ n + (i - n) = i
        BY <1>1, <1>3, <2>2, <3>2
      <4>2. d[i - n] = f[e[n + (i - n)]]
        BY <1>3, <4>1
      <4> QED
        BY <1>5, <4>1, <4>2
    <3> QED
      BY <3>1, <3>2
  <2> QED
    BY <2>1, <2>2
<1>10. \A i \in 1 .. n : e[i] \in H
  <2> SUFFICES ASSUME NEW i \in 1 .. n
               PROVE  e[i] \in H
    OBVIOUS
  <2>1. i \in 1 .. L /\ ~ (n < i)
    BY <1>7
  <2>2. e[i] \in 1 .. m
    BY <1>3, <2>1
  <2> QED
    BY <1>3, <1>6, <1>9, <2>1, <2>2
<1>11. \A k \in H : \E i \in 1 .. n : e[i] = k
  <2> SUFFICES ASSUME NEW k \in H
               PROVE  \E i \in 1 .. n : e[i] = k
    OBVIOUS
  <2>1. PICK i \in 1 .. L : e[i] = k
    BY <1>3, <1>6
  <2>2. ~ (n < i)
    BY <1>6, <1>9, <2>1
  <2> QED
    BY <2>1, <2>2
<1> DEFINE b == [i \in 1 .. n |-> e[i]]
<1>12. b \in Bijection(1 .. n, H)
  <2>1. \A i \in 1 .. n : b[i] = e[i] /\ i \in 1 .. L
    BY <1>7
  <2>2. b \in [1 .. n -> H]
    BY <1>10
  <2> HIDE DEF b
  <2>3. b \in Injection(1 .. n, H)
    BY <1>8, <2>1, <2>2, Zenon DEF Injection, IsInjective
  <2>4. b \in Surjection(1 .. n, H)
    BY <1>11, <2>1, <2>2 DEF Surjection
  <2> QED
    BY <2>3, <2>4 DEF Bijection
<1> HIDE DEF b
<1>13. Cardinality(H) = n
  BY <1>12, FS_CountingElements DEF ExistsBijection
<1>14. n <= m
  <2>1. IsFiniteSet(1 .. m) /\ Cardinality(1 .. m) = m
    BY <1>1, FS_Interval
  <2>2. H \subseteq 1 .. m
    BY <1>6
  <2>3. Cardinality(H) <= Cardinality(1 .. m)
    BY <2>1, <2>2, FS_Subset
  <2> QED
    BY <1>13, <2>1, <2>3
<1>15. \A t \in T : \E k \in 1 .. m : f[k] = t
  <2> SUFFICES ASSUME NEW t \in T
               PROVE  \E i \in 1 .. L : f[e[i]] = t
    BY <1>3
  <2>1. CASE t \in P
    <3>1. L \in 1 .. L
      BY <1>1, <1>3, <2>1
    <3> QED
      BY <1>3, <2>1, <3>1
  <2>2. CASE t \notin P
    <3>1. PICK l \in 1 .. w : t = d[l]
      BY <1>5, <2>2
    <3>2. n + l \in 1 .. L /\ d[l] = f[e[n + l]]
      BY <1>3
    <3> QED
      BY <3>1, <3>2
  <2> QED
    BY <2>1, <2>2
<1> QED
  BY <1>13, <1>14, <1>15 DEF m, T, H

(* At most one transfer is left to answer for.                             *)
LEMMA TrackOne ==
  ASSUME NEW f, NEW d, NEW P, NEW n, Track(f, d, P, n)
  PROVE  P = {} \/ \E t : P = {t}
BY DEF Track, Transfers

-----------------------------------------------------------------------------
(* The tasks inside have different names, and the transfers are in the     *)
(* order of the FIFO.                                                      *)
IdsApart ==
  /\ \A j, k \in 1 .. Len(fifo) : fifo[j].id = fifo[k].id => j = k
  /\ \A t \in Waiting, u \in OnHpus : t.id # u.id

QueueTypes ==
  /\ state \in {"Ready", "WaitDMA"} /\ xferQ \subseteq Tasks
  /\ fifo \in Seq(Tasks) /\ Len(fifo) <= FifoDepth
  /\ toPop \in Nat /\ dma \in Seq(Tasks)

QueueInv == CsTypeOK /\ IdsApart /\ Track(fifo, dma, Pending, toPop)

TakenIn(T) == T = {} \/ \E t \in NewTasks : T = {t}

(* A task that is taken in gets space that was reported, and an identity   *)
(* no task inside has.                                                     *)
LEMMA NewTaskFacts ==
  ASSUME CsTypeOK, NEW t \in NewTasks
  PROVE  /\ t \in Tasks /\ t.size \in Sizes /\ TaskReady(t.size)
         /\ t.start = AllocIndex(t.size) /\ t.id \notin {u.id : u \in Inside}
<1>1. PICK i \in TaskIds \ {u.id : u \in Inside}, n \in {m \in Sizes : TaskReady(m)} :
        t = [id |-> i, size |-> n, start |-> AllocIndex(n)]
  BY DEF NewTasks
<1>2. AllocIndex(n) \in Nat
  <2>1. n \in Nat
    BY Size
  <2>2. SelRB(n) \in RBs
    BY SelFacts
  <2>3. rb[SelRB(n)] \in Rings
    BY <2>2 DEF CsTypeOK, TypeOK, Rings
  <2>4. PushIdx(rb[SelRB(n)], n) \in Nat
    <3>1. rb[SelRB(n)].tail \in Int /\ Padding(rb[SelRB(n)], n) \in Int
      BY <2>3, Size DEF Rings, Slots, Padding, ToEnd
    <3> QED
      BY <3>1, Size DEF PushIdx, Advance
  <2>5. SelRB(n) * NumSlots \in Nat
    BY <2>2, Size DEF RBs
  <2> QED
    BY <2>4, <2>5 DEF AllocIndex
<1> QED
  BY <1>1, <1>2 DEF Tasks

(* Pop, answer, accept and issue, in this order, are what a cycle does to  *)
(* the queues.                                                             *)
LEMMA CycleQueues ==
  ASSUME QueueInv, NEW T, TakenIn(T), NEW dmaReady \in BOOLEAN, NEW resp \in BOOLEAN,
         resp => dma # <<>>, NEW F, CsCycle(T, dmaReady, resp, F)
  PROVE  QueueTypes' /\ Track(fifo, dma, Pending, toPop)'
<1> DEFINE D == DmaReqPop
           X == DmaXfer(T)
           rest == IF D THEN Tail(fifo) ELSE fifo
           taken == IF resp THEN Tail(dma) ELSE dma
           issued == IF dmaReady THEN X ELSE {}
           n1 == IF D /\ Copied(Head(fifo)) THEN toPop - 1 ELSE toPop
           n2 == IF resp THEN n1 + 1 ELSE n1
<1>1. /\ state' = (IF X # {} /\ ~ dmaReady THEN "WaitDMA" ELSE "Ready")
      /\ xferQ' = X
      /\ fifo' = (IF T = {} THEN rest ELSE Append(rest, CHOOSE t \in T : TRUE))
      /\ toPop' = NextToPop(resp)
      /\ dma' = (IF issued = {} THEN taken ELSE Append(taken, CHOOSE t \in issued : TRUE))
  BY DEF CsCycle
<1>2. /\ state \in {"Ready", "WaitDMA"} /\ xferQ \subseteq Tasks
      /\ fifo \in Seq(Tasks) /\ Len(fifo) <= FifoDepth
      /\ toPop \in Nat /\ dma \in Seq(Tasks) /\ FifoDepth \in Nat
  BY ClusterParams DEF QueueInv, CsTypeOK
<1>3. Track(fifo, dma, Pending, toPop)
  BY DEF QueueInv
<1>4. D => fifo # <<>> /\ (Copied(Head(fifo)) => toPop > 0)
  <2>1. D => fifo # <<>> /\ (toPop > 0 \/ Head(fifo).size = 0)
    BY DEF DmaReqPop
  <2> QED
    BY <2>1 DEF Copied
<1>5. DmaReqPopNz <=> D /\ Copied(Head(fifo))
  BY DEF DmaReqPop, DmaReqPopNz, Copied
<1>6. rest \in Seq(Tasks) /\ (D => Len(rest) < Len(fifo)) /\ (~ D => rest = fifo) /\ n1 \in Nat
  BY <1>2, <1>4
<1>7. Track(rest, dma, Pending, n1)
  <2>1. CASE D
    <3>1. Track(Tail(fifo), dma, Pending, IF Copied(Head(fifo)) THEN toPop - 1 ELSE toPop)
      BY <1>2, <1>3, <1>4, <2>1, TrackPop
    <3> QED
      BY <2>1, <3>1
  <2>2. CASE ~ D
    BY <1>3, <2>2
  <2> QED
    BY <2>1, <2>2
<1>8. toPop' = n2
  BY <1>1, <1>2, <1>4, <1>5 DEF NextToPop
<1>9. taken \in Seq(Tasks) /\ n2 \in Nat
  BY <1>2, <1>6
<1> HIDE DEF D, rest, n1
<1>10. Track(rest, taken, Pending, n2)
  BY <1>2, <1>6, <1>7, TrackResp
<1> HIDE DEF taken, n2
<1>11. /\ fifo' \in Seq(Tasks) /\ Len(fifo') <= FifoDepth /\ X \subseteq Tasks
       /\ Track(fifo', taken, X, n2)
  <2>1. CASE T = {}
    <3>1. X = Pending /\ fifo' = rest
      BY <1>1, <1>2, <2>1 DEF DmaXfer, Pending
    <3>2. Len(rest) <= FifoDepth
      BY <1>2, <1>6
    <3> QED
      BY <1>2, <1>6, <1>10, <3>1, <3>2 DEF Pending
  <2>2. ASSUME NEW t \in NewTasks, T = {t}
        PROVE  /\ fifo' \in Seq(Tasks) /\ Len(fifo') <= FifoDepth /\ X \subseteq Tasks
               /\ Track(fifo', taken, X, n2)
    <3>1. t \in Tasks /\ state = "Ready" /\ Len(fifo) < FifoDepth
      BY NewTaskFacts DEF TaskReady, QueueInv
    <3>2. fifo' = Append(rest, t)
      BY <1>1, <2>2
    <3>3. X = (IF Copied(t) THEN {t} ELSE {}) /\ Pending = {}
      BY <2>2, <3>1 DEF DmaXfer, Pending, Copied
    <3>4. Track(Append(rest, t), taken, X, n2)
      <4>1. Track(rest, taken, {}, n2)
        BY <1>10, <3>3
      <4>2. Track(Append(rest, t), taken, IF Copied(t) THEN {t} ELSE {}, n2)
        BY <1>6, <1>9, <3>1, <4>1, TrackAccept
      <4> QED
        BY <3>3, <4>2
    <3>5. Len(rest) < FifoDepth
      BY <1>2, <1>6, <3>1
    <3> HIDE DEF X
    <3>6. Append(rest, t) \in Seq(Tasks) /\ Len(Append(rest, t)) <= FifoDepth
      BY <1>2, <1>6, <3>1, <3>5
    <3> QED
      BY <3>1, <3>2, <3>3, <3>4, <3>6
  <2> QED
    BY <2>1, <2>2 DEF TakenIn
<1> HIDE DEF X
<1>12. dma' \in Seq(Tasks) /\ Track(fifo', dma', IF dmaReady THEN {} ELSE X, n2)
  <2>1. CASE ~ dmaReady
    <3>1. dma' = taken
      BY <1>1, <2>1
    <3> QED
      BY <1>9, <1>11, <2>1, <3>1
  <2>2. CASE dmaReady /\ X = {}
    <3>1. dma' = taken
      BY <1>1, <2>2
    <3> QED
      BY <1>9, <1>11, <2>2, <3>1
  <2>3. CASE dmaReady /\ X # {}
    <3>1. PICK x : X = {x}
      BY <1>11, <2>3, TrackOne
    <3>2. x \in Tasks
      BY <1>11, <3>1
    <3>3. dma' = Append(taken, x)
      BY <1>1, <2>3, <3>1
    <3>4. Track(fifo', Append(taken, x), {}, n2)
      BY <1>9, <1>11, <3>1, <3>2, TrackIssue
    <3> QED
      BY <1>9, <2>3, <3>2, <3>3, <3>4
  <2> QED
    BY <2>1, <2>2, <2>3
<1>13. Pending' = IF dmaReady THEN {} ELSE X
  BY <1>1 DEF Pending
<1>14. QueueTypes'
  BY <1>1, <1>8, <1>9, <1>11, <1>12 DEF QueueTypes
<1>15. Track(fifo', dma', Pending', toPop')
  BY <1>8, <1>12, <1>13
<1> QED
  BY <1>14, <1>15 DEF Track, Marks, Transfers

(* The core chosen is a free one, when there is one.                       *)
LEMMA FreeHpuFacts == FreeHpus # {} => FreeHpu \in FreeHpus
<1>1. FreeHpus \in SUBSET Nat
  BY ClusterParams DEF FreeHpus, Hpus
<1>2. FreeHpus # {} => \E c \in FreeHpus : \A d \in FreeHpus : c <= d
  BY <1>1, LeastExists
<1> QED
  BY <1>2 DEF FreeHpu

Handed == IF DmaReqPop THEN {Head(fifo)} ELSE {}

(* A cycle gives the cores at most the task handed out.                    *)
LEMMA CycleHpus ==
  ASSUME CsTypeOK, NEW T, NEW dmaReady, NEW resp, NEW F, CsCycle(T, dmaReady, resp, F)
  PROVE  /\ running' \in [Hpus -> SUBSET Tasks] /\ finished' \in [Hpus -> SUBSET Tasks]
         /\ OnHpus' \subseteq OnHpus \cup Handed
<1>1. /\ running' = [c \in Hpus |-> IF DmaReqPop /\ c = FreeHpu THEN {Head(fifo)} ELSE running[c]]
      /\ finished' = [c \in Hpus |-> IF c \in F THEN {} ELSE finished[c]]
  BY DEF CsCycle
<1>2. /\ running \in [Hpus -> SUBSET Tasks] /\ finished \in [Hpus -> SUBSET Tasks]
      /\ fifo \in Seq(Tasks)
  BY DEF CsTypeOK
<1>3. DmaReqPop => Head(fifo) \in Tasks
  BY <1>2 DEF DmaReqPop
<1>4. \A c \in Hpus : running'[c] \subseteq running[c] \cup Handed /\ finished'[c] \subseteq finished[c]
  BY <1>1 DEF Handed
<1>5. OnHpus' = UNION {running'[c] \cup finished'[c] : c \in Hpus}
  BY DEF OnHpus
<1> QED
  BY <1>1, <1>2, <1>3, <1>4, <1>5 DEF OnHpus

(* A cycle takes out of the queue the task handed out, and puts the new    *)
(* one in it.                                                              *)
LEMMA CycleWaiting ==
  ASSUME QueueInv, NEW T, TakenIn(T), NEW dmaReady, NEW resp, NEW F,
         CsCycle(T, dmaReady, resp, F)
  PROVE  /\ \A j, k \in 1 .. Len(fifo') : fifo'[j].id = fifo'[k].id => j = k
         /\ Waiting' = (Waiting \ Handed) \cup T
<1> DEFINE rest == IF DmaReqPop THEN Tail(fifo) ELSE fifo
           m == Len(fifo)
           o == IF DmaReqPop THEN 1 ELSE 0
           w == Len(rest)
<1>1. fifo' = (IF T = {} THEN rest ELSE Append(rest, CHOOSE t \in T : TRUE))
  BY DEF CsCycle
<1>2. /\ fifo \in Seq(Tasks) /\ m \in Nat /\ CsTypeOK
      /\ \A j, k \in 1 .. m : fifo[j].id = fifo[k].id => j = k
  BY DEF QueueInv, CsTypeOK, IdsApart
<1>3. /\ rest \in Seq(Tasks) /\ w = m - o /\ o \in Nat /\ o <= m
      /\ \A k \in 1 .. w : rest[k] = fifo[k + o]
  BY <1>2 DEF DmaReqPop
<1>4. Waiting = {fifo[k] : k \in 1 .. m}
  BY <1>2 DEF Waiting
<1>5. DmaReqPop => m >= 1 /\ Head(fifo) = fifo[1]
  BY <1>2 DEF DmaReqPop
<1> HIDE DEF rest, m, w
<1>6. \A k \in 1 .. w : k + o \in 1 .. m
  BY <1>2, <1>3
<1>7. \A j, k \in 1 .. w : rest[j].id = rest[k].id => j = k
  <2> SUFFICES ASSUME NEW j \in 1 .. w, NEW k \in 1 .. w, rest[j].id = rest[k].id
               PROVE  j = k
    OBVIOUS
  <2>1. j + o \in 1 .. m /\ k + o \in 1 .. m /\ rest[j] = fifo[j + o] /\ rest[k] = fifo[k + o]
    BY <1>3, <1>6
  <2>2. j + o = k + o
    BY <1>2, <2>1
  <2> QED
    BY <1>3, <2>2
<1>8. {rest[k] : k \in 1 .. w} = Waiting \ Handed
  <2>1. ASSUME NEW k \in 1 .. w
        PROVE  rest[k] \in Waiting \ Handed
    <3>1. k + o \in 1 .. m /\ rest[k] = fifo[k + o]
      BY <1>3, <1>6
    <3>2. DmaReqPop => k + o # 1 /\ 1 \in 1 .. m
      BY <1>2, <1>5
    <3>3. DmaReqPop => fifo[k + o] # fifo[1]
      BY <1>2, <3>1, <3>2
    <3> QED
      BY <1>4, <1>5, <3>1, <3>3 DEF Handed
  <2>2. ASSUME NEW x \in Waiting \ Handed
        PROVE  \E k \in 1 .. w : rest[k] = x
    <3>1. PICK j \in 1 .. m : x = fifo[j]
      BY <1>4
    <3>2. DmaReqPop => j # 1
      BY <1>5, <3>1 DEF Handed
    <3>3. j - o \in 1 .. w /\ (j - o) + o = j
      BY <1>2, <1>3, <3>2
    <3> QED
      BY <1>3, <3>1, <3>3
  <2> QED
    BY <2>1, <2>2
<1>9. CASE T = {}
  <2>1. fifo' = rest
    BY <1>1, <1>9
  <2>2. Len(fifo') = w /\ DOMAIN fifo' = 1 .. w
    BY <1>3, <2>1 DEF w
  <2>3. Waiting' = {rest[k] : k \in 1 .. w}
    BY <2>1, <2>2 DEF Waiting
  <2> QED
    BY <1>7, <1>8, <1>9, <2>1, <2>2, <2>3
<1>10. ASSUME NEW t \in NewTasks, T = {t}
       PROVE  /\ \A j, k \in 1 .. Len(fifo') : fifo'[j].id = fifo'[k].id => j = k
              /\ Waiting' = (Waiting \ Handed) \cup T
  <2> DEFINE g == Append(rest, t)
  <2>1. fifo' = g
    BY <1>1, <1>10
  <2>2. t \in Tasks /\ t.id \notin {u.id : u \in Inside}
    BY <1>2, NewTaskFacts
  <2>3. /\ w \in Nat /\ Len(g) = w + 1 /\ DOMAIN g = 1 .. w + 1
        /\ (\A k \in 1 .. w : g[k] = rest[k]) /\ g[w + 1] = t
    BY <1>3, <2>2 DEF w
  <2> HIDE DEF g
  <2>4. \A k \in 1 .. w : g[k].id # t.id
    BY <1>8, <2>2, <2>3 DEF Inside
  <2>5. \A k \in 1 .. w + 1 : k \in 1 .. w \/ k = w + 1
    BY <2>3
  <2>6. \A k \in 1 .. w : k \in 1 .. w + 1 /\ w + 1 \in 1 .. w + 1
    BY <2>3
  <2>7. \A j, k \in 1 .. w + 1 : g[j].id = g[k].id => j = k
    <3> SUFFICES ASSUME NEW j \in 1 .. w + 1, NEW k \in 1 .. w + 1, g[j].id = g[k].id
                 PROVE  j = k
      OBVIOUS
    <3>1. CASE j \in 1 .. w /\ k \in 1 .. w
      BY <1>7, <2>3, <3>1
    <3>2. CASE j = w + 1 \/ k = w + 1
      BY <2>3, <2>4, <2>5, <3>2
    <3> QED
      BY <2>5, <3>1, <3>2
  <2>8. {g[k] : k \in 1 .. w + 1} = {rest[k] : k \in 1 .. w} \cup {t}
    <3>1. \A k \in 1 .. w + 1 : g[k] \in {rest[i] : i \in 1 .. w} \cup {t}
      BY <2>3, <2>5
    <3>2. \A k \in 1 .. w : rest[k] \in {g[i] : i \in 1 .. w + 1}
      BY <2>3, <2>6
    <3>3. t \in {g[i] : i \in 1 .. w + 1}
      <4>1. w + 1 \in 1 .. w + 1
        BY <2>3
      <4> QED
        BY <2>3, <4>1
    <3> QED
      BY <3>1, <3>2, <3>3
  <2>9. Waiting' = {g[k] : k \in 1 .. w + 1}
    BY <2>1, <2>3 DEF Waiting
  <2> QED
    BY <1>8, <1>10, <2>1, <2>3, <2>7, <2>8, <2>9
<1> QED
  BY <1>9, <1>10 DEF TakenIn

(* The names stay apart: a task is waiting, on an HPU, or not inside.      *)
LEMMA CycleApart ==
  ASSUME QueueInv, NEW T, TakenIn(T), NEW dmaReady, NEW resp, NEW F,
         CsCycle(T, dmaReady, resp, F)
  PROVE  IdsApart'
<1>1. /\ \A j, k \in 1 .. Len(fifo') : fifo'[j].id = fifo'[k].id => j = k
      /\ Waiting' = (Waiting \ Handed) \cup T /\ OnHpus' \subseteq OnHpus \cup Handed
  BY CycleWaiting, CycleHpus DEF QueueInv
<1>2. \A t \in T : t.id \notin {u.id : u \in Inside}
  BY NewTaskFacts DEF TakenIn, QueueInv
<1>3. /\ \A j, k \in 1 .. Len(fifo) : fifo[j].id = fifo[k].id => j = k
      /\ \A t \in Waiting, u \in OnHpus : t.id # u.id
      /\ Waiting = {fifo[k] : k \in 1 .. Len(fifo)}
  BY DEF QueueInv, IdsApart, CsTypeOK, Waiting
<1>4. Handed \subseteq Waiting
  <2>1. DmaReqPop => Head(fifo) = fifo[1] /\ 1 \in 1 .. Len(fifo)
    BY DEF DmaReqPop, QueueInv, CsTypeOK
  <2> QED
    BY <1>3, <2>1 DEF Handed
<1>5. \A t, u \in Waiting : t.id = u.id => t = u
  BY <1>3
<1>6. \A t \in Waiting', u \in OnHpus' : t.id # u.id
  BY <1>1, <1>2, <1>3, <1>4, <1>5 DEF Inside
<1> QED
  BY <1>1, <1>6 DEF IdsApart

(* A clock cycle keeps the invariant of the queue.                         *)
LEMMA ClockStep ==
  ASSUME QueueInv, Clock
  PROVE  QueueInv'
<1>1. PICK T \in {{}} \cup {{t} : t \in NewTasks}, dmaReady \in BOOLEAN,
           resp \in {FALSE} \cup (IF dma # <<>> THEN {TRUE} ELSE {}),
           F \in {{}} \cup {{c} : c \in {d \in Hpus : finished[d] # {}}} :
        CsCycle(T, dmaReady, resp, F)
  BY DEF Clock
<1>2. TakenIn(T) /\ resp \in BOOLEAN /\ (resp => dma # <<>>) /\ CsTypeOK
  BY DEF TakenIn, QueueInv
<1>3. QueueTypes' /\ Track(fifo, dma, Pending, toPop)'
  BY <1>1, <1>2, CycleQueues
<1>4. IdsApart'
  BY <1>1, <1>2, CycleApart
<1>5. TypeOK'
  <2>1. RBCycle({t.size : t \in T}, {Packet(t) : t \in UNION {finished[c] : c \in F}})
    BY <1>1 DEF CsCycle
  <2>2. {t.size : t \in T} \in SUBSET Sizes
    BY <1>2, NewTaskFacts DEF TakenIn
  <2> QED
    BY <1>2, <2>1, <2>2, CycleType DEF CsTypeOK
<1>6. running' \in [Hpus -> SUBSET Tasks] /\ finished' \in [Hpus -> SUBSET Tasks]
  BY <1>1, <1>2, CycleHpus
<1>7. toPop' <= Len(fifo')
  <2>1. \A j, k \in 1 .. Len(fifo') : fifo'[j].id = fifo'[k].id => j = k
    BY <1>4 DEF IdsApart
  <2>2. Track(fifo', dma', Pending', toPop')
    BY <1>3 DEF Track, Marks, Transfers
  <2>3. fifo' \in Seq(Tasks) /\ dma' \in Seq(Tasks) /\ toPop' \in Nat
    BY <1>3 DEF QueueTypes
  <2>4. Distinct(fifo')
    BY <2>1 DEF Distinct
  <2> QED
    BY <2>2, <2>3, <2>4, TrackCount
<1>8. toPop' \in 0 .. FifoDepth
  <2>1. toPop' \in Nat /\ Len(fifo') \in Nat /\ Len(fifo') <= FifoDepth /\ FifoDepth \in Nat
    BY <1>3, ClusterParams DEF QueueTypes
  <2> QED
    BY <1>7, <2>1
<1>9. CsTypeOK'
  BY <1>3, <1>5, <1>6, <1>8 DEF QueueTypes, CsTypeOK, Tasks
<1> QED
  BY <1>3, <1>4, <1>9 DEF QueueInv

(* So does the end of a handler, which leaves its task on the core.        *)
LEMMA EndsStep ==
  ASSUME QueueInv, NEW c \in Hpus, HandlerEnds(c)
  PROVE  QueueInv' /\ OnHpus' = OnHpus
<1>1. /\ running' = [running EXCEPT ![c] = {}] /\ finished' = [finished EXCEPT ![c] = running[c]]
      /\ rb' = rb /\ live' = live /\ state' = state /\ xferQ' = xferQ /\ fifo' = fifo
      /\ toPop' = toPop /\ dma' = dma /\ finished[c] = {}
  BY DEF HandlerEnds
<1>2. /\ running \in [Hpus -> SUBSET Tasks] /\ finished \in [Hpus -> SUBSET Tasks]
      /\ CsTypeOK /\ IdsApart /\ Track(fifo, dma, Pending, toPop)
  BY DEF QueueInv, CsTypeOK
<1>3. \A e \in Hpus : running'[e] \cup finished'[e] = running[e] \cup finished[e]
  BY <1>1, <1>2
<1>4. OnHpus' = OnHpus
  BY <1>3 DEF OnHpus
<1>5. Waiting' = Waiting /\ Pending' = Pending
  BY <1>1 DEF Waiting, Pending
<1>6. IdsApart'
  BY <1>1, <1>2, <1>4, <1>5 DEF IdsApart
<1>7. TypeOK'
  BY <1>1, <1>2 DEF CsTypeOK, TypeOK, Packets
<1>8. running' \in [Hpus -> SUBSET Tasks] /\ finished' \in [Hpus -> SUBSET Tasks]
  BY <1>1, <1>2
<1>9. CsTypeOK'
  BY <1>1, <1>2, <1>7, <1>8 DEF CsTypeOK, Tasks
<1>10. Track(fifo', dma', Pending', toPop')
  BY <1>1, <1>2, <1>5
<1>11. Track(fifo, dma, Pending, toPop)'
  BY <1>10 DEF Track, Marks, Transfers
<1> QED
  BY <1>4, <1>6, <1>9, <1>11 DEF QueueInv

(* The queue starts empty, with no transfer under way.                     *)
LEMMA QueueInit == CsInit => QueueInv
<1> SUFFICES ASSUME CsInit
             PROVE  QueueInv
  OBVIOUS
<1>1. TypeOK
  BY InitInv DEF CsInit, IInv
<1>2. fifo = <<>> /\ dma = <<>> /\ Pending = {} /\ toPop = 0
  BY DEF CsInit, Pending
<1>3. fifo \in Seq(Tasks) /\ dma \in Seq(Tasks) /\ Len(fifo) = 0 /\ Len(dma) = 0
  BY <1>2
<1>4. CsTypeOK
  BY <1>1, <1>3, ClusterParams DEF CsInit, CsTypeOK
<1>5. IdsApart
  <2>1. OnHpus = {}
    BY DEF CsInit, OnHpus
  <2> QED
    BY <1>3, <2>1 DEF IdsApart
<1>6. Track(fifo, dma, Pending, toPop)
  <2> DEFINE e == [i \in 1 .. 0 |-> i]
  <2>1. Marks(e, 0, fifo)
    BY <1>3 DEF Marks
  <2>2. Transfers(e, 0, fifo, dma, Pending, toPop)
    BY <1>2, <1>3 DEF Transfers
  <2> HIDE DEF e
  <2> QED
    BY <2>1, <2>2 DEF Track
<1> QED
  BY <1>4, <1>5, <1>6 DEF QueueInv

(* In the cluster scheduler transfers complete in the order of the tasks   *)
(* in the FIFO, so that counting them is enough (cluster_scheduler.sv:     *)
(* 228-256); no task is in two places.                                     *)
THEOREM QueueInvariance == CsSpec => []QueueInv
<1>1. CsInit => QueueInv
  BY QueueInit
<1>2. QueueInv /\ [CsNext]_csVars => QueueInv'
  <2> SUFFICES ASSUME QueueInv, [CsNext]_csVars
               PROVE  QueueInv'
    OBVIOUS
  <2>1. CASE Clock
    BY <2>1, ClockStep
  <2>2. ASSUME NEW c \in Hpus, HandlerEnds(c)
        PROVE  QueueInv'
    BY <2>2, EndsStep
  <2>3. CASE UNCHANGED csVars
    <3>1. /\ rb' = rb /\ live' = live /\ state' = state /\ xferQ' = xferQ /\ fifo' = fifo
          /\ toPop' = toPop /\ dma' = dma /\ running' = running /\ finished' = finished
      BY <2>3 DEF csVars
    <3>2. Waiting' = Waiting /\ Pending' = Pending /\ OnHpus' = OnHpus
      BY <3>1 DEF Waiting, Pending, OnHpus
    <3>3. IdsApart'
      BY <3>1, <3>2 DEF IdsApart, QueueInv
    <3>4. CsTypeOK'
      BY <3>1 DEF QueueInv, CsTypeOK, TypeOK, Packets, Tasks
    <3>5. Track(fifo', dma', Pending', toPop')
      BY <3>1, <3>2 DEF QueueInv
    <3>6. Track(fifo, dma, Pending, toPop)'
      BY <3>5 DEF Track, Marks, Transfers
    <3> QED
      BY <3>3, <3>4, <3>6 DEF QueueInv
  <2> QED
    BY <2>1, <2>2, <2>3 DEF CsNext
<1> QED
  BY <1>1, <1>2, PTL DEF CsSpec

(* The queues, counters and HPUs of a cluster keep their types; to_pop     *)
(* never exceeds the depth of the FIFO.                                    *)
THEOREM CsTypeCorrect == CsSpec => []CsTypeOK
<1>1. QueueInv => CsTypeOK
  BY DEF QueueInv
<1> QED
  BY <1>1, QueueInvariance, PTL

(* The completion counter is exact, and the tasks whose packet is being    *)
(* copied wait in the queue.                                               *)
LEMMA QueueCounts ==
  ASSUME QueueInv
  PROVE  ToPopExact /\ InTransfer \subseteq Waiting
<1>1. /\ fifo \in Seq(Tasks) /\ dma \in Seq(Tasks) /\ toPop \in Nat
      /\ Track(fifo, dma, Pending, toPop)
      /\ \A j, k \in 1 .. Len(fifo) : fifo[j].id = fifo[k].id => j = k
  BY DEF QueueInv, CsTypeOK, IdsApart
<1>2. Distinct(fifo)
  BY <1>1 DEF Distinct
<1>3. InTransfer = Pending \cup Issued(dma)
  BY DEF InTransfer, Issued
<1>4. /\ toPop = Cardinality(Arrived(fifo, InTransfer))
      /\ \A t \in InTransfer : \E k \in 1 .. Len(fifo) : fifo[k] = t
  <2>1. toPop = Cardinality(Arrived(fifo, Pending \cup Issued(dma)))
    BY <1>1, <1>2, TrackCount, Zenon
  <2>2. \A t \in Pending \cup Issued(dma) : \E k \in 1 .. Len(fifo) : fifo[k] = t
    BY <1>1, <1>2, TrackCount, Zenon
  <2> QED
    BY <1>3, <2>1, <2>2
<1>5. ToPopExact
  BY <1>4, Zenon DEF ToPopExact, Arrived, Copied
<1>6. InTransfer \subseteq Waiting
  BY <1>1, <1>4 DEF Waiting
<1> QED
  BY <1>5, <1>6

(* to_pop is the number of waiting tasks whose packet has arrived          *)
(* (cluster_scheduler.sv:246-256).                                         *)
THEOREM ToPopIsExact == CsSpec => []ToPopExact
<1>1. QueueInv => ToPopExact
  BY QueueCounts
<1> QED
  BY <1>1, QueueInvariance, PTL

(* No HPU runs a task whose packet is still being copied                   *)
(* (cluster_scheduler.sv:228-256).                                         *)
THEOREM DataComesFirst == CsSpec => []DataBeforeHandler
<1>1. QueueInv => DataBeforeHandler
  <2> SUFFICES ASSUME QueueInv, NEW t \in OnHpus, t \in InTransfer
               PROVE  FALSE
    BY DEF DataBeforeHandler
  <2>1. t \in Waiting
    BY QueueCounts
  <2> QED
    BY <2>1 DEF QueueInv, IdsApart
<1> QED
  BY <1>1, QueueInvariance, PTL

-----------------------------------------------------------------------------
(* Who owns the packet buffer: an HPU runs, and offers, one task at most,  *)
(* no task is on two HPUs, and the packets in the buffer are those of the  *)
(* tasks inside, each with a place of its own.                             *)
HpusOwn ==
  /\ \A c \in Hpus : (\A t, u \in running[c] : t = u) /\ (\A t, u \in finished[c] : t = u)
  /\ \A c, e \in Hpus : running[c] \cap finished[e] = {}
  /\ \A c, e \in Hpus : c # e => /\ running[c] \cap running[e] = {}
                                 /\ finished[c] \cap finished[e] = {}
Sized(S) == {Packet(t) : t \in {u \in S : u.size > 0}}
PlacesOwned ==
  /\ Sized(Inside) = {p \in live : p.size > 0}
  /\ \A t \in Inside : Fits(Packet(t))
  /\ \A t, u \in Inside : t.size > 0 /\ Packet(t) = Packet(u) => t = u

OwnInv == QueueInv /\ AllocInv /\ HpusOwn /\ PlacesOwned

Fed(F) == UNION {finished[c] : c \in F}
OneFed(F) == F = {} \/ \E c \in Hpus : F = {c}

(* At most one task is handed out, and it comes from the queue.            *)
LEMMA HandedFacts ==
  ASSUME QueueInv
  PROVE  Handed \subseteq Waiting /\ Handed \cap OnHpus = {} /\ \A t, u \in Handed : t = u
<1>1. DmaReqPop => Head(fifo) = fifo[1] /\ 1 \in DOMAIN fifo
  BY DEF DmaReqPop, QueueInv, CsTypeOK
<1>2. Handed \subseteq Waiting
  BY <1>1 DEF Handed, Waiting
<1>3. \A t \in Waiting, u \in OnHpus : t.id # u.id
  BY DEF QueueInv, IdsApart
<1> QED
  BY <1>2, <1>3 DEF Handed

(* At most one task is fed back, and it is finished on one core only.      *)
LEMMA FedFacts ==
  ASSUME QueueInv, HpusOwn, NEW F, OneFed(F)
  PROVE  /\ Fed(F) \subseteq OnHpus /\ \A t, u \in Fed(F) : t = u
         /\ \A c \in Hpus : running[c] \cap Fed(F) = {}
         /\ \A c \in Hpus : c \notin F => finished[c] \cap Fed(F) = {}
         /\ \A c \in Hpus : c \in F => finished[c] \subseteq Fed(F)
<1>1. CASE F = {}
  BY <1>1 DEF Fed
<1>2. ASSUME NEW c \in Hpus, F = {c}
      PROVE  Fed(F) = finished[c]
  BY <1>2 DEF Fed
<1> QED
  BY <1>1, <1>2 DEF OneFed, HpusOwn, OnHpus

(* Tasks enter by the FIFO and leave by the feedback.                      *)
LEMMA CycleInside ==
  ASSUME QueueInv, HpusOwn, NEW T, TakenIn(T), NEW dmaReady, NEW resp, NEW F, OneFed(F),
         CsCycle(T, dmaReady, resp, F)
  PROVE  Inside' = (Inside \ Fed(F)) \cup T /\ HpusOwn'
<1>1. /\ running' = [c \in Hpus |-> IF DmaReqPop /\ c = FreeHpu THEN {Head(fifo)} ELSE running[c]]
      /\ finished' = [c \in Hpus |-> IF c \in F THEN {} ELSE finished[c]]
  BY DEF CsCycle
<1>2. DmaReqPop => FreeHpu \in Hpus /\ running[FreeHpu] = {}
  BY FreeHpuFacts DEF DmaReqPop, FreeHpus
<1>3. /\ Handed \subseteq Waiting /\ Handed \cap OnHpus = {}
      /\ \A t, u \in Handed : t = u
  BY HandedFacts
<1>4. /\ Fed(F) \subseteq OnHpus
      /\ \A c \in Hpus : running[c] \cap Fed(F) = {}
      /\ \A c \in Hpus : c \notin F => finished[c] \cap Fed(F) = {}
      /\ \A c \in Hpus : c \in F => finished[c] \subseteq Fed(F)
  BY FedFacts
<1> DEFINE put(c) == IF DmaReqPop /\ c = FreeHpu THEN Handed ELSE {}
<1>5. /\ \A c \in Hpus : running'[c] = running[c] \cup put(c)
      /\ \A c \in Hpus : finished'[c] = finished[c] \ Fed(F)
      /\ \A c \in Hpus : put(c) \subseteq Handed
      /\ \A c, e \in Hpus : c # e => put(c) = {} \/ put(e) = {}
      /\ \A c \in Hpus : put(c) = {} \/ running[c] = {}
      /\ \A x \in Handed : \E c \in Hpus : x \in put(c)
  BY <1>1, <1>2, <1>4 DEF Handed
<1> HIDE DEF put
<1>6. /\ \A c \in Hpus : running[c] \subseteq OnHpus /\ finished[c] \subseteq OnHpus
      /\ \A x \in OnHpus : \E c \in Hpus : x \in running[c] \/ x \in finished[c]
  BY DEF OnHpus
<1>7. OnHpus' = (OnHpus \cup Handed) \ Fed(F)
  <2>1. OnHpus' = UNION {running'[c] \cup finished'[c] : c \in Hpus}
    BY DEF OnHpus
  <2>2. ASSUME NEW x \in OnHpus'
        PROVE  x \in (OnHpus \cup Handed) \ Fed(F)
    <3>1. PICK c \in Hpus : x \in running'[c] \/ x \in finished'[c]
      BY <2>1
    <3> QED
      BY <1>3, <1>4, <1>5, <1>6, <3>1
  <2>3. ASSUME NEW x \in (OnHpus \cup Handed) \ Fed(F)
        PROVE  x \in OnHpus'
    <3>1. \E c \in Hpus : x \in running'[c] \/ x \in finished'[c]
      BY <1>5, <1>6
    <3> QED
      BY <2>1, <3>1
  <2> QED
    BY <2>2, <2>3
<1>8. Waiting' = (Waiting \ Handed) \cup T
  BY CycleWaiting
<1>9. \A t \in Waiting, u \in OnHpus : t # u
  BY DEF QueueInv, IdsApart
<1>10. \A t \in T : t \notin Inside
  BY NewTaskFacts DEF TakenIn, QueueInv
<1>11. Inside' = (Inside \ Fed(F)) \cup T
  <2>1. Inside' = Waiting' \cup OnHpus'
    BY DEF Inside
  <2>2. Waiting \cap Fed(F) = {}
    BY <1>4, <1>9
  <2> QED
    BY <1>3, <1>7, <1>8, <2>1, <2>2 DEF Inside
<1>12. HpusOwn'
  <2>1. \A c \in Hpus : /\ \A t, u \in running'[c] : t = u
                        /\ \A t, u \in finished'[c] : t = u
    BY <1>3, <1>5 DEF HpusOwn
  <2>2. \A c, e \in Hpus : running'[c] \cap finished'[e] = {}
    BY <1>3, <1>5, <1>6 DEF HpusOwn
  <2>3. \A c, e \in Hpus : c # e => /\ running'[c] \cap running'[e] = {}
                                    /\ finished'[c] \cap finished'[e] = {}
    BY <1>3, <1>5, <1>6 DEF HpusOwn
  <2> QED
    BY <2>1, <2>2, <2>3 DEF HpusOwn
<1> QED
  BY <1>11, <1>12

(* The packet of a task lies where the task says.                          *)
LEMMA PacketFacts ==
  ASSUME NEW t
  PROVE  Packet(t).start = t.start /\ Packet(t).size = t.size
BY DEF Packet

(* A cycle hands the place of the task that is fed back to the allocator,  *)
(* and takes one for the accepted task.                                    *)
LEMMA OwnCycle ==
  ASSUME UsedSafely, OwnInv, NEW T, TakenIn(T), NEW dmaReady, NEW resp,
         NEW F, OneFed(F), CsCycle(T, dmaReady, resp, F)
  PROVE  AllocInv' /\ HpusOwn' /\ PlacesOwned'
<1> DEFINE A == {t.size : t \in T}
           G == {Packet(t) : t \in Fed(F)}
           N == {Packet(t) : t \in T}
<1>1. QueueInv /\ AllocInv /\ HpusOwn /\ PlacesOwned /\ CsTypeOK
  BY DEF OwnInv, QueueInv
<1>2. RBCycle(A, G)
  BY DEF CsCycle, Fed
<1>3. \A t \in T : /\ t \in Tasks /\ t.size \in Sizes /\ TaskReady(t.size)
                   /\ t.start = AllocIndex(t.size) /\ t \notin Inside
  BY <1>1, NewTaskFacts DEF TakenIn
<1>4. /\ Fed(F) \subseteq OnHpus /\ Fed(F) \subseteq Inside /\ \A t, u \in Fed(F) : t = u
  BY <1>1, FedFacts DEF Inside
<1>5. A = {} \/ \E n \in Sizes : A = {n} /\ MayAlloc(n)
  BY <1>3 DEF TakenIn, TaskReady
<1>6. /\ Sized(Inside) = {p \in live : p.size > 0}
      /\ \A t \in Inside : Fits(Packet(t))
      /\ \A t, u \in Inside : t.size > 0 /\ Packet(t) = Packet(u) => t = u
  BY <1>1 DEF PlacesOwned
<1>7. Inside \subseteq Tasks
  <2>1. Waiting \subseteq Tasks
    BY <1>1 DEF Waiting, CsTypeOK
  <2>2. OnHpus \subseteq Tasks
    BY <1>1 DEF OnHpus, CsTypeOK
  <2> QED
    BY <2>1, <2>2 DEF Inside
<1>8. \A t \in Tasks : Packet(t) \in Packets /\ t.size \in Nat /\ t.start \in Nat
  <2>1. \A n \in Sizes : n \in Nat
    BY Size
  <2> SUFFICES ASSUME NEW t \in Tasks
               PROVE  Packet(t) \in Packets /\ t.size \in Nat /\ t.start \in Nat
    OBVIOUS
  <2>2. t.size \in Sizes /\ t.start \in Nat
    BY DEF Tasks
  <2> QED
    BY <2>1, <2>2 DEF Packet, Packets
<1>9. Frees(G)
  <2> SUFFICES ASSUME NEW t \in Fed(F)
               PROVE  \/ Packet(t) \in live
                      \/ Packet(t) \in Packets /\ Fits(Packet(t)) /\ Packet(t).size = 0
    BY DEF Frees
  <2>1. t \in Inside /\ t.size \in Nat /\ Packet(t) \in Packets /\ Fits(Packet(t))
    BY <1>4, <1>6, <1>7, <1>8
  <2>2. CASE t.size > 0
    BY <1>6, <2>1, <2>2 DEF Sized
  <2>3. CASE t.size = 0
    BY <2>1, <2>3, PacketFacts
  <2> QED
    BY <2>1, <2>2, <2>3
<1>10. \A p, q \in G : p = q
  BY <1>4
<1> HIDE DEF A, G
<1>11. AllocInv' /\ \A p \in live, q \in Placed(A) : Occupied(p) \cap Occupied(q) = {}
  BY <1>1, <1>2, <1>5, <1>9, <1>10, AllocStep
<1>12. Placed(A) = N
  <2>1. \A t \in T : Packet(t) = [start |-> AllocIndex(t.size), size |-> t.size]
    BY <1>3 DEF Packet
  <2> QED
    BY <2>1 DEF Placed, A
<1>13. live' = (live \ G) \cup N
  BY <1>2, <1>12 DEF RBCycle, Placed
<1> HIDE DEF N
<1>14. Inside' = (Inside \ Fed(F)) \cup T /\ HpusOwn'
  BY <1>1, CycleInside
<1>15. Sized(Inside') = {p \in live' : p.size > 0}
  <2>1. ASSUME NEW t \in Inside', t.size > 0
        PROVE  Packet(t) \in live' /\ Packet(t).size > 0
    <3>1. CASE t \in T
      BY <1>13, <2>1, <3>1, PacketFacts DEF N
    <3>2. CASE t \in Inside \ Fed(F)
      <4>1. Packet(t) \in live
        BY <1>6, <2>1, <3>2 DEF Sized
      <4>2. Packet(t) \notin G
        BY <1>4, <1>6, <2>1, <3>2 DEF G
      <4> QED
        BY <1>13, <2>1, <4>1, <4>2, PacketFacts
    <3> QED
      BY <1>14, <3>1, <3>2
  <2>2. ASSUME NEW p \in live', p.size > 0
        PROVE  \E t \in Inside' : t.size > 0 /\ p = Packet(t)
    <3>1. CASE p \in N
      <4>1. PICK t \in T : p = Packet(t)
        BY <3>1 DEF N
      <4> QED
        BY <1>14, <2>2, <4>1, PacketFacts
    <3>2. CASE p \in live \ G
      <4>1. PICK t \in Inside : t.size > 0 /\ p = Packet(t)
        BY <1>6, <2>2, <3>2 DEF Sized
      <4>2. t \notin Fed(F)
        BY <3>2, <4>1 DEF G
      <4> QED
        BY <1>14, <4>1, <4>2
    <3> QED
      BY <1>13, <3>1, <3>2
  <2> QED
    BY <2>1, <2>2 DEF Sized
<1>16. \A t \in Inside' : Fits(Packet(t))
  <2>1. ASSUME NEW t \in T
        PROVE  Fits(Packet(t))
    <3>1. Packet(t) \in live' /\ Packet(t) \in Packets
      BY <1>3, <1>8, <1>13 DEF N
    <3>2. InOneRing'
      BY <1>11 DEF AllocInv, IInv
    <3>3. Packet(t).size \in 0 .. NumSlots
      BY <3>1, Size DEF Packets
    <3> QED
      BY <3>1, <3>2, <3>3 DEF InOneRing, Fits
  <2> QED
    BY <1>6, <1>14, <2>1
<1>17. \A t, u \in Inside' : t.size > 0 /\ Packet(t) = Packet(u) => t = u
  <2>1. ASSUME NEW t \in T, NEW u \in Inside, t.size > 0, Packet(t) = Packet(u)
        PROVE  FALSE
    <3>1. u.size > 0
      BY <2>1, PacketFacts
    <3>2. Packet(u) \in live /\ Packet(t) \in Placed(A)
      BY <1>6, <1>12, <3>1 DEF Sized, N
    <3>3. t.start \in Occupied(Packet(t))
      BY <1>3, <1>8, <2>1 DEF Occupied, Packet
    <3> QED
      BY <1>11, <2>1, <3>2, <3>3
  <2>2. \A t, u \in T : t = u
    BY DEF TakenIn
  <2>3. \A t, u : t.size > 0 /\ Packet(t) = Packet(u) => u.size > 0
    BY PacketFacts
  <2> QED
    BY <1>6, <1>14, <2>1, <2>2, <2>3
<1>18. PlacesOwned'
  BY <1>15, <1>16, <1>17 DEF PlacesOwned, Sized, Packet, Fits
<1> QED
  BY <1>11, <1>14, <1>18

(* The end of a handler frees nothing.                                     *)
LEMMA OwnEnds ==
  ASSUME OwnInv, NEW c \in Hpus, HandlerEnds(c)
  PROVE  AllocInv' /\ HpusOwn' /\ PlacesOwned'
<1>1. /\ running' = [running EXCEPT ![c] = {}] /\ finished' = [finished EXCEPT ![c] = running[c]]
      /\ rb' = rb /\ live' = live /\ fifo' = fifo /\ finished[c] = {}
  BY DEF HandlerEnds
<1>2. /\ running \in [Hpus -> SUBSET Tasks] /\ finished \in [Hpus -> SUBSET Tasks]
      /\ QueueInv /\ AllocInv /\ HpusOwn /\ PlacesOwned
  BY DEF OwnInv, QueueInv, CsTypeOK
<1>3. AllocInv'
  BY <1>1, <1>2, AllocIdle DEF vars
<1>4. Inside' = Inside
  <2>1. OnHpus' = OnHpus
    BY <1>2, EndsStep
  <2> QED
    BY <1>1, <2>1 DEF Inside, Waiting
<1>5. \A e \in Hpus : /\ e # c => running'[e] = running[e] /\ finished'[e] = finished[e]
                      /\ e = c => running'[e] = {} /\ finished'[e] = running[e]
  BY <1>1, <1>2
<1>6. HpusOwn'
  <2>1. \A d \in Hpus : /\ \A t, u \in running'[d] : t = u
                        /\ \A t, u \in finished'[d] : t = u
    BY <1>2, <1>5 DEF HpusOwn
  <2>2. \A d, e \in Hpus : running'[d] \cap finished'[e] = {}
    BY <1>2, <1>5 DEF HpusOwn
  <2>3. \A d, e \in Hpus : d # e => /\ running'[d] \cap running'[e] = {}
                                    /\ finished'[d] \cap finished'[e] = {}
    BY <1>2, <1>5 DEF HpusOwn
  <2> QED
    BY <2>1, <2>2, <2>3 DEF HpusOwn
<1>7. PlacesOwned'
  BY <1>1, <1>2, <1>4 DEF PlacesOwned, Sized, Packet, Fits
<1> QED
  BY <1>3, <1>6, <1>7

(* At first there is no task and no packet.                                *)
LEMMA OwnInit == CsInit => OwnInv
<1> SUFFICES ASSUME CsInit
             PROVE  OwnInv
  OBVIOUS
<1>1. QueueInv /\ AllocInv
  BY QueueInit, AllocInit DEF CsInit
<1>2. fifo = <<>> /\ live = {} /\ \A c \in Hpus : running[c] = {} /\ finished[c] = {}
  BY DEF CsInit, Init
<1>3. Inside = {}
  BY <1>2 DEF Inside, Waiting, OnHpus
<1>4. HpusOwn
  BY <1>2 DEF HpusOwn
<1>5. PlacesOwned
  BY <1>2, <1>3 DEF PlacesOwned, Sized
<1> QED
  BY <1>1, <1>4, <1>5 DEF OwnInv

(* The tasks inside the cluster and the packets in its buffer correspond,  *)
(* place by place (cluster_scheduler.sv:205, cluster_rb_shim.sv:53-58).    *)
THEOREM OwnInvariance ==
  ASSUME UsedSafely
  PROVE  CsSpec => []OwnInv
<1>1. CsInit => OwnInv
  BY OwnInit
<1>2. OwnInv /\ QueueInv' /\ [CsNext]_csVars => OwnInv'
  <2> SUFFICES ASSUME OwnInv, QueueInv', [CsNext]_csVars
               PROVE  AllocInv' /\ HpusOwn' /\ PlacesOwned'
    BY DEF OwnInv
  <2>1. CASE Clock
    <3>1. PICK T \in {{}} \cup {{t} : t \in NewTasks}, dmaReady \in BOOLEAN,
               resp \in {FALSE} \cup (IF dma # <<>> THEN {TRUE} ELSE {}),
               F \in {{}} \cup {{c} : c \in {d \in Hpus : finished[d] # {}}} :
            CsCycle(T, dmaReady, resp, F)
      BY <2>1 DEF Clock
    <3>2. TakenIn(T) /\ OneFed(F)
      BY DEF TakenIn, OneFed
    <3> QED
      BY <3>1, <3>2, OwnCycle
  <2>2. ASSUME NEW c \in Hpus, HandlerEnds(c)
        PROVE  AllocInv' /\ HpusOwn' /\ PlacesOwned'
    BY <2>2, OwnEnds
  <2>3. CASE UNCHANGED csVars
    <3>1. rb' = rb /\ live' = live /\ fifo' = fifo /\ running' = running /\ finished' = finished
      BY <2>3 DEF csVars
    <3>2. Inside' = Inside
      BY <3>1 DEF Inside, Waiting, OnHpus
    <3>3. AllocInv'
      BY <3>1, AllocIdle DEF vars, OwnInv
    <3>4. HpusOwn'
      BY <3>1 DEF HpusOwn, OwnInv
    <3>5. PlacesOwned'
      BY <3>1, <3>2 DEF PlacesOwned, Sized, Packet, Fits, OwnInv
    <3> QED
      BY <3>3, <3>4, <3>5
  <2> QED
    BY <2>1, <2>2, <2>3 DEF CsNext
<1> QED
  BY <1>1, <1>2, QueueInvariance, PTL DEF CsSpec

(* The place of a packet is its task's from the cycle the task is accepted *)
(* until its feedback leaves the cluster, and nobody else's.               *)
THEOREM BuffersAreOwned ==
  ASSUME UsedSafely
  PROVE  CsSpec => []BuffersOwned
<1>1. OwnInv => BuffersOwned
  BY DEF OwnInv, AllocInv, IInv, PlacesOwned, Sized, BuffersOwned
<1> QED
  BY <1>1, OwnInvariance, PTL

(* The cluster scheduler may ignore alloc_ready_o when all packets have    *)
(* one size that divides the ring (cluster_scheduler.sv:94 and 205): what  *)
(* is reported as free is granted.                                         *)
THEOREM ClusterSpaceIsGranted ==
  ASSUME \E u \in Nat : Uniform(u)
  PROVE  CsSpec => []ReportedSpaceIsGranted
<1>1. OwnInv => ReportedSpaceIsGranted
  BY UniformGrants DEF OwnInv, AllocInv, ReportedSpaceIsGranted
<1>2. UsedSafely
  BY DEF UsedSafely
<1> QED
  BY <1>1, <1>2, OwnInvariance, PTL

=============================================================================
