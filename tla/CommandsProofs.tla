---------------------------- MODULE CommandsProofs ----------------------------
(***************************************************************************)
(* The safety properties of Commands, and that it serves the commands as   *)
(* CommandService says, step by step: for all sets of clusters and         *)
(* commands, all depths of the queues and any number of packets.           *)
(***************************************************************************)
EXTENDS Commands, FiniteSetTheorems, TLAPS

(* The commands the interfaces work on: accepted and not answered by them. *)
Responded == UNION {Range(respBuffer[i]) : i \in Interfaces}
Inside == (busy \ Waiting) \ Responded

(* No queue of the command unit holds a command twice, and no command is   *)
(* in two of them; answers are those of commands that have taken effect.   *)
UnitExact ==
  /\ IsFiniteSet(busy)
  /\ \A k \in Clusters : IsInjective(spill[k]) /\ Range(spill[k]) \subseteq k \cap busy
  /\ \A i \in Interfaces : IsInjective(respBuffer[i])
  /\ \A i \in Interfaces : Range(respBuffer[i]) \subseteq At(i) \cap effected
  /\ \A i \in Interfaces : inFlight[i] = Cardinality(At(i)) /\ inFlight[i] < RespBuffSize

(* Queue q holds, in their order, the elements of queue s after the first  *)
(* n of them.                                                              *)
Aligned(s, n, q) == \A j \in DOMAIN q : n + j \in DOMAIN s /\ q[j] = s[n + j]

(* An id FIFO s holds commands of one kind that are inside, each once; the *)
(* first n have taken effect.                                              *)
IdFifo(s, S, n, inside, done) ==
  /\ IsInjective(s) /\ Range(s) \subseteq S \cap inside
  /\ n <= Len(s) /\ \A j \in 1 .. n : s[j] \in done

(* The writes: the id FIFO s holds those the host has made, those it can   *)
(* make, those of which it has the address, and those whose address is     *)
(* still in the queue ad, in this order; with the data in the same order.  *)
PairsAligned(s, n, p) ==
  \A j \in DOMAIN p : n + j \in DOMAIN s /\ p[j].addr = s[n + j] /\ p[j].data = s[n + j]

WritesAligned(s, ad, da, hostAd, pairs, made, inside, done) ==
  LET paired == made + Len(pairs)
  IN  /\ IdFifo(s, Writes, made, inside, done)
      /\ PairsAligned(s, made, pairs)
      /\ Aligned(s, paired, hostAd)
      /\ Aligned(s, paired + Len(hostAd), ad)
      /\ Aligned(s, paired, da)
      /\ Len(s) = paired + Len(hostAd) + Len(ad)
      /\ Len(s) = paired + Len(da)
WritesExact ==
  WritesAligned(hd["writeIds"], hd["aw"], hd["w"], host.aw, host.writes, host.b, Inside, effected)

(* The reads: those the host has made, those it has, those of the queue.   *)
ReadsAligned(s, ar, hostAr, made, inside, done) ==
  /\ IdFifo(s, Reads, made, inside, done)
  /\ Aligned(s, made, hostAr)
  /\ Aligned(s, made + Len(hostAr), ar)
  /\ Len(s) = made + Len(hostAr) + Len(ar)
ReadsExact == ReadsAligned(hd["readIds"], hd["ar"], host.reads, host.r, Inside, effected)

(* The transfers of a direction: those that are complete, then those of    *)
(* the engine.                                                             *)
Moves(d) == IF d = "rx" THEN ToHost ELSE FromHost
MovesAligned(S, s, q, made, inside, done) ==
  IdFifo(s, S, made, inside, done) /\ Aligned(s, made, q) /\ Len(s) = made + Len(q)
TransfersExact ==
  \A d \in Dirs : MovesAligned(Moves(d), ids[d], dma[d], toPop[d], Inside, effected)

(* The packets made of a command, and those not made, are the ones that    *)
(* have not left; the packet marked as the last one is the last one.       *)
Cmd(s) == {e.cmd : e \in Range(s)}
Count(s, c) == Cardinality({k \in DOMAIN s : s[k].cmd = c})
Made(c) == Count(dmaPkts, c) + Count(netQueue, c)
NoneAfter(s) ==
  \A j, k \in DOMAIN s : s[j].last /\ j < k => s[k].cmd # s[j].cmd
PacketsExact ==
  /\ IsInjective(packetizer)
  /\ \A e, f \in Range(packetizer) : e.cmd = f.cmd => e = f
  /\ Cmd(packetizer) \cup Cmd(dmaPkts) \cup Cmd(netQueue) \subseteq (Sends \cup Rdmas) \cap Inside
  /\ \A e \in Range(packetizer) : unsent[e.cmd] = e.left + Made(e.cmd)
  /\ \A c \in Cmds \ Cmd(packetizer) : unsent[c] = Made(c)
  /\ \A e \in Range(dmaPkts) : e.last => e.cmd \notin Cmd(packetizer)
  /\ \A e \in Range(netQueue) : e.last => e.cmd \notin Cmd(packetizer) \cup Cmd(dmaPkts)
  /\ NoneAfter(dmaPkts) /\ NoneAfter(netQueue)

IInv == TypeOK /\ UnitExact /\ WritesExact /\ ReadsExact /\ TransfersExact /\ PacketsExact

-----------------------------------------------------------------------------
(* What a push adds to a queue.                                            *)
LEMMA AppendFacts ==
  ASSUME NEW S, NEW s \in Seq(S), NEW x \in S
  PROVE  LET t == Append(s, x)
         IN  /\ t \in Seq(S) /\ Len(t) = Len(s) + 1 /\ Len(s) \in Nat
             /\ DOMAIN s = 1 .. Len(s) /\ DOMAIN t = 1 .. Len(s) + 1
             /\ t[Len(s) + 1] = x /\ \A k \in DOMAIN s : t[k] = s[k]
             /\ Range(t) = Range(s) \cup {x}
             /\ IsInjective(s) /\ x \notin Range(s) => IsInjective(t)
<1> DEFINE t == Append(s, x)
           n == Len(s)
<1>1. /\ t \in Seq(S) /\ Len(t) = n + 1 /\ n \in Nat
      /\ DOMAIN t = 1 .. n + 1 /\ DOMAIN s = 1 .. n
      /\ t[n + 1] = x /\ \A k \in DOMAIN s : t[k] = s[k]
  OBVIOUS
<1> HIDE DEF t, n
<1>2. \A k \in DOMAIN t : k \in DOMAIN s \/ k = n + 1
  BY <1>1
<1>3. \A k \in DOMAIN s : k \in DOMAIN t
  BY <1>1
<1>4. n + 1 \in DOMAIN t
  BY <1>1
<1>5. Range(t) = Range(s) \cup {x}
  BY <1>1, <1>2, <1>3, <1>4 DEF Range
<1>6. IsInjective(s) /\ x \notin Range(s) => IsInjective(t)
  BY <1>1, <1>2 DEF IsInjective, Range
<1> QED
  BY <1>1, <1>5, <1>6 DEF t, n

(* What a pop takes from it.                                               *)
LEMMA TailFacts ==
  ASSUME NEW S, NEW s \in Seq(S), s # <<>>
  PROVE  LET t == Tail(s)
         IN  /\ t \in Seq(S) /\ Len(t) = Len(s) - 1 /\ Len(s) \in Nat \ {0} /\ Head(s) \in S
             /\ DOMAIN s = 1 .. Len(s) /\ DOMAIN t = 1 .. Len(s) - 1
             /\ 1 \in DOMAIN s /\ Head(s) = s[1]
             /\ \A k \in DOMAIN t : k + 1 \in DOMAIN s /\ t[k] = s[k + 1]
             /\ Range(s) = Range(t) \cup {Head(s)}
             /\ IsInjective(s) => IsInjective(t) /\ Head(s) \notin Range(t)
<1> DEFINE t == Tail(s)
           n == Len(s)
<1>1. /\ t \in Seq(S) /\ Len(t) = n - 1 /\ n \in Nat \ {0} /\ Head(s) \in S /\ Head(s) = s[1]
      /\ DOMAIN t = 1 .. n - 1 /\ DOMAIN s = 1 .. n
      /\ \A k \in 1 .. n - 1 : t[k] = s[k + 1]
  OBVIOUS
<1> HIDE DEF t, n
<1>2. 1 \in DOMAIN s /\ \A k \in DOMAIN t : k + 1 \in DOMAIN s /\ t[k] = s[k + 1]
  BY <1>1
<1>3. \A k \in DOMAIN s : k = 1 \/ (k - 1 \in DOMAIN t /\ s[k] = t[k - 1])
  BY <1>1
<1>4. Range(s) = Range(t) \cup {Head(s)}
  BY <1>1, <1>2, <1>3 DEF Range
<1>5. ASSUME IsInjective(s)
      PROVE  IsInjective(t) /\ Head(s) \notin Range(t)
  <2>1. \A k \in DOMAIN t : k \in Nat /\ k # 0
    BY <1>1
  <2>2. ASSUME NEW j \in DOMAIN t, NEW k \in DOMAIN t, t[j] = t[k]
        PROVE  j = k
    <3>1. j + 1 = k + 1
      BY <1>2, <1>5, <2>2 DEF IsInjective
    <3> QED
      BY <2>1, <3>1
  <2>3. ASSUME NEW k \in DOMAIN t
        PROVE  t[k] # Head(s)
    <3>1. k + 1 # 1
      BY <2>1
    <3> QED
      BY <1>1, <1>2, <1>5, <3>1 DEF IsInjective
  <2> QED
    BY <2>2, <2>3 DEF IsInjective, Range
<1> QED
  BY <1>1, <1>2, <1>4, <1>5 DEF t, n

(* A queue without repetition has as many members as entries.              *)
LEMMA DistinctCount ==
  ASSUME NEW S, NEW s \in Seq(S), IsInjective(s)
  PROVE  IsFiniteSet(Range(s)) /\ Cardinality(Range(s)) = Len(s)
<1> DEFINE n == Len(s)
<1>1. n \in Nat /\ DOMAIN s = 1 .. n /\ s \in [1 .. n -> S]
  OBVIOUS
<1> HIDE DEF n
<1>2. s \in [1 .. n -> Range(s)]
  BY <1>1 DEF Range
<1>3. s \in Bijection(1 .. n, Range(s))
  BY <1>2 DEF Bijection, Injection, Surjection, Range
<1>4. ExistsBijection(1 .. n, Range(s))
  BY <1>3 DEF ExistsBijection
<1>5. IsFiniteSet(Range(s)) /\ Cardinality(Range(s)) = n
  BY <1>1, <1>4, FS_CountingElements, FS_NatBijection
<1> QED
  BY <1>5 DEF n

(* Queues that follow an id FIFO go on following it: as a command enters   *)
(* both, enters the FIFO alone, or moves on to the next queue; as the head *)
(* of the queue leaves it; and as that of the FIFO does.                   *)
LEMMA AlignedAppend ==
  ASSUME NEW S, NEW s \in Seq(S), NEW x \in S, NEW n \in Nat, NEW T, NEW q \in Seq(T),
         Aligned(s, n, q)
  PROVE  /\ Aligned(Append(s, x), n, q)
         /\ x \in T /\ Len(s) = n + Len(q) => Aligned(Append(s, x), n, Append(q, x))
<1>1. /\ DOMAIN s = 1 .. Len(s) /\ DOMAIN Append(s, x) = 1 .. Len(s) + 1 /\ Len(s) \in Nat
      /\ Append(s, x)[Len(s) + 1] = x /\ \A k \in DOMAIN s : Append(s, x)[k] = s[k]
  BY AppendFacts
<1>2. Aligned(Append(s, x), n, q)
  BY <1>1 DEF Aligned
<1>3. ASSUME x \in T, Len(s) = n + Len(q)
      PROVE  Aligned(Append(s, x), n, Append(q, x))
  <2>1. /\ DOMAIN Append(q, x) = 1 .. Len(q) + 1 /\ Len(q) \in Nat /\ DOMAIN q = 1 .. Len(q)
        /\ Append(q, x)[Len(q) + 1] = x /\ \A k \in DOMAIN q : Append(q, x)[k] = q[k]
    BY <1>3, AppendFacts
  <2>2. n + (Len(q) + 1) = Len(s) + 1
    BY <1>3, <2>1
  <2>3. \A j \in DOMAIN Append(q, x) : j \in DOMAIN q \/ j = Len(q) + 1
    BY <2>1
  <2>4. Len(s) + 1 \in DOMAIN Append(s, x)
    BY <1>1
  <2> QED
    BY <1>1, <1>2, <2>1, <2>2, <2>3, <2>4 DEF Aligned
<1> QED
  BY <1>2, <1>3

(* A command moves on to the next queue.                                   *)
LEMMA AlignedMove ==
  ASSUME NEW s, NEW n \in Nat, NEW T, NEW q \in Seq(T), NEW x \in T, Aligned(s, n, q),
         n + Len(q) + 1 \in DOMAIN s, x = s[n + Len(q) + 1]
  PROVE  Aligned(s, n, Append(q, x))
<1>1. /\ DOMAIN Append(q, x) = 1 .. Len(q) + 1 /\ Len(q) \in Nat /\ DOMAIN q = 1 .. Len(q)
      /\ Append(q, x)[Len(q) + 1] = x /\ \A k \in DOMAIN q : Append(q, x)[k] = q[k]
  BY AppendFacts
<1>2. n + (Len(q) + 1) = n + Len(q) + 1
  BY <1>1
<1>3. \A j \in DOMAIN Append(q, x) : j \in DOMAIN q \/ j = Len(q) + 1
  BY <1>1
<1> QED
  BY <1>1, <1>2, <1>3 DEF Aligned

(* The head of the queue leaves it.                                        *)
LEMMA AlignedPop ==
  ASSUME NEW s, NEW n \in Nat, NEW T, NEW q \in Seq(T), q # <<>>, Aligned(s, n, q)
  PROVE  /\ Aligned(s, n + 1, Tail(q))
         /\ n + 1 \in DOMAIN s /\ Head(q) = s[n + 1]
<1>1. /\ DOMAIN q = 1 .. Len(q) /\ DOMAIN Tail(q) = 1 .. Len(q) - 1 /\ Len(q) \in Nat \ {0}
      /\ 1 \in DOMAIN q /\ Head(q) = q[1]
      /\ \A k \in DOMAIN Tail(q) : k + 1 \in DOMAIN q /\ Tail(q)[k] = q[k + 1]
  BY TailFacts
<1>2. \A k \in DOMAIN Tail(q) : n + 1 + k = n + (k + 1)
  BY <1>1
<1> QED
  BY <1>1, <1>2 DEF Aligned

(* The head of the FIFO leaves it, after the command has left the queue.   *)
LEMMA AlignedTail ==
  ASSUME NEW S, NEW s \in Seq(S), NEW n \in Nat \ {0}, NEW T, NEW q \in Seq(T), s # <<>>,
         Aligned(s, n, q)
  PROVE  Aligned(Tail(s), n - 1, q)
<1>1. /\ DOMAIN s = 1 .. Len(s) /\ DOMAIN Tail(s) = 1 .. Len(s) - 1 /\ Len(s) \in Nat \ {0}
      /\ \A k \in DOMAIN Tail(s) : Tail(s)[k] = s[k + 1]
  BY TailFacts
<1>2. ASSUME NEW j \in DOMAIN q
      PROVE  n - 1 + j \in DOMAIN Tail(s) /\ q[j] = Tail(s)[n - 1 + j]
  <2>1. j \in Nat \ {0}
    OBVIOUS
  <2>2. n + j \in DOMAIN s /\ q[j] = s[n + j]
    BY DEF Aligned
  <2>3. n - 1 + j \in DOMAIN Tail(s) /\ n - 1 + j + 1 = n + j
    BY <1>1, <2>1, <2>2
  <2> QED
    BY <1>1, <2>2, <2>3
<1> QED
  BY <1>2 DEF Aligned

-----------------------------------------------------------------------------
(* The kinds of commands are apart, and each has one interface.            *)
LEMMA Kinds ==
  /\ \A c \in Writes \cup Reads : Interface(c) = "hostdirect"
  /\ \A c \in Sends \cup Rdmas : Interface(c) = "outbound"
  /\ \A c \in ToHost \cup FromHost : Interface(c) = "edma"
  /\ \A c \in Cmds : Interface(c) \in Interfaces
BY CommandParams DEF Interface, Interfaces

(* The queues of the command unit and the types of their elements.         *)
UnitOK ==
  /\ spill \in [Clusters -> Seq(Cmds)] /\ \A k \in Clusters : Len(spill[k]) <= 2
  /\ inFlight \in [Interfaces -> 0 .. RespBuffSize]
  /\ respBuffer \in [Interfaces -> Seq(Cmds)]
  /\ busy \subseteq Cmds /\ effected \subseteq busy
UnitInv == UnitOK /\ UnitExact

(* What the command unit needs of the invariant.                           *)
LEMMA UnitFromIInv == IInv => UnitInv
BY DEF IInv, TypeOK, UnitInv, UnitOK

(* What an interface has accepted is finite, answers included, so that one *)
(* more answer fits when one command more is inside (cmd_unit.sv:152-192). *)
LEMMA RoomForAnswer ==
  ASSUME UnitInv, NEW i \in Interfaces, NEW c \in Inside, Interface(c) = i
  PROVE  Len(respBuffer[i]) < RespBuffSize
<1>1. At(i) \subseteq busy /\ IsFiniteSet(At(i)) /\ Cardinality(At(i)) \in Nat
  BY FS_Subset, FS_CardinalityType DEF At, UnitInv, UnitExact
<1>2. respBuffer[i] \in Seq(Cmds) /\ IsInjective(respBuffer[i]) /\ Len(respBuffer[i]) \in Nat
  BY DEF UnitInv, UnitOK, UnitExact
<1>3. Cardinality(Range(respBuffer[i])) = Len(respBuffer[i])
  BY <1>2, DistinctCount
<1>4. Range(respBuffer[i]) \subseteq At(i)
  BY DEF UnitInv, UnitExact
<1>5. Cardinality(Range(respBuffer[i])) <= Cardinality(At(i))
  BY <1>1, <1>4, FS_Subset
<1>6. Cardinality(At(i)) < RespBuffSize
  BY DEF UnitInv, UnitExact
<1> QED
  BY <1>1, <1>2, <1>3, <1>5, <1>6, CommandParams

(* Steps that leave the command unit alone.                                *)
LEMMA UnitStays ==
  ASSUME UnitInv, UNCHANGED <<unitVars, respBuffer, busy>>, effected \subseteq effected',
         effected' \subseteq busy
  PROVE  UnitInv' /\ Inside' = Inside
<1>1. /\ spill' = spill /\ inFlight' = inFlight /\ respBuffer' = respBuffer /\ busy' = busy
  BY DEF unitVars
<1>2. Waiting' = Waiting /\ \A i \in Interfaces : At(i)' = At(i)
  BY <1>1 DEF Waiting, At
<1>3. Inside' = Inside
  BY <1>1, <1>2 DEF Inside, Responded
<1>4. UnitOK'
  BY <1>1 DEF UnitInv, UnitOK
<1>5. UnitExact'
  BY <1>1, <1>2 DEF UnitInv, UnitExact
<1> QED
  BY <1>3, <1>4, <1>5 DEF UnitInv

(* A core issues a command: it waits at its cluster.                       *)
LEMMA UnitIssue ==
  ASSUME UnitInv, NEW c \in Cmds, NEW k \in Clusters, Issue(c, k)
  PROVE  UnitInv' /\ Inside' = Inside
<1>1. /\ c \in k /\ c \notin busy /\ Len(spill[k]) < 2
      /\ spill' = [spill EXCEPT ![k] = Append(@, c)] /\ busy' = busy \cup {c}
      /\ inFlight' = inFlight /\ respBuffer' = respBuffer /\ effected' = effected
  BY DEF Issue, Push
<1>2. /\ spill \in [Clusters -> Seq(Cmds)] /\ \A m \in Clusters : Len(spill[m]) <= 2
      /\ \A m \in Clusters : IsInjective(spill[m]) /\ Range(spill[m]) \subseteq m \cap busy
  BY DEF UnitInv, UnitOK, UnitExact
<1>3. c \notin Range(spill[k])
  BY <1>1, <1>2
<1>4. /\ Append(spill[k], c) \in Seq(Cmds) /\ Len(Append(spill[k], c)) = Len(spill[k]) + 1
      /\ Len(spill[k]) \in Nat
      /\ Range(Append(spill[k], c)) = Range(spill[k]) \cup {c}
      /\ IsInjective(Append(spill[k], c))
  BY <1>2, <1>3, AppendFacts
<1>5. spill' \in [Clusters -> Seq(Cmds)] /\ \A m \in Clusters :
        spill'[m] = IF m = k THEN Append(spill[k], c) ELSE spill[m]
  BY <1>1, <1>2, <1>4
<1>6. \A m \in Clusters : Range(spill'[m]) = IF m = k THEN Range(spill[k]) \cup {c}
                                                      ELSE Range(spill[m])
  BY <1>4, <1>5
<1>7. \A m \in Clusters : Len(spill'[m]) <= 2
  BY <1>1, <1>2, <1>4, <1>5
<1>8. Waiting' = Waiting \cup {c}
  BY <1>6 DEF Waiting
<1>9. \A i \in Interfaces : At(i)' = At(i)
  BY <1>1, <1>8 DEF At
<1>10. UnitOK'
  BY <1>1, <1>5, <1>7 DEF UnitInv, UnitOK
<1>11. IsFiniteSet(busy')
  BY <1>1, FS_AddElement DEF UnitInv, UnitExact
<1>12. \A m \in Clusters : IsInjective(spill'[m]) /\ Range(spill'[m]) \subseteq m \cap busy'
  BY <1>1, <1>2, <1>4, <1>5, <1>6
<1>13. UnitExact'
  BY <1>1, <1>9, <1>11, <1>12 DEF UnitInv, UnitExact
<1>14. Inside' = Inside
  BY <1>1, <1>8 DEF Inside, Responded
<1> QED
  BY <1>10, <1>13, <1>14 DEF UnitInv

(* An interface accepts the command at the head of a register.  It is then *)
(* inside, and counted.                                                    *)
LEMMA UnitAccept ==
  ASSUME UnitInv, NEW k \in Clusters, NEW S, Offered(k, S), Accepted(k),
         UNCHANGED <<respBuffer, busy, effected>>
  PROVE  LET c == Head(spill[k])
         IN  /\ UnitInv' /\ c \in busy /\ c \notin Inside /\ c \in S /\ c \in Cmds
             /\ Inside' = Inside \cup {c}
<1> DEFINE c == Head(spill[k])
           i == Interface(c)
<1>1. /\ spill \in [Clusters -> Seq(Cmds)] /\ \A m \in Clusters : Len(spill[m]) <= 2
      /\ inFlight \in [Interfaces -> 0 .. RespBuffSize] /\ busy \subseteq Cmds
      /\ effected \subseteq busy
      /\ \A m \in Clusters : IsInjective(spill[m]) /\ Range(spill[m]) \subseteq m \cap busy
      /\ \A j \in Interfaces : inFlight[j] = Cardinality(At(j)) /\ inFlight[j] < RespBuffSize
      /\ IsFiniteSet(busy) /\ respBuffer \in [Interfaces -> Seq(Cmds)]
      /\ \A j \in Interfaces : IsInjective(respBuffer[j])
      /\ \A j \in Interfaces : Range(respBuffer[j]) \subseteq At(j) \cap effected
  BY DEF UnitInv, UnitOK, UnitExact
<1>2. /\ spill[k] # <<>> /\ c \in S /\ HasSpace(i)
      /\ spill' = [spill EXCEPT ![k] = Tail(@)]
      /\ inFlight' = [inFlight EXCEPT ![i] = IF @ = RespBuffSize THEN @ ELSE @ + 1]
      /\ respBuffer' = respBuffer /\ busy' = busy /\ effected' = effected
  BY DEF Offered, Accepted, Pop
<1>3. /\ Tail(spill[k]) \in Seq(Cmds) /\ Len(Tail(spill[k])) = Len(spill[k]) - 1
      /\ Len(spill[k]) \in Nat /\ c \in Cmds
      /\ Range(spill[k]) = Range(Tail(spill[k])) \cup {c}
      /\ IsInjective(Tail(spill[k])) /\ c \notin Range(Tail(spill[k]))
  BY <1>1, <1>2, TailFacts
<1>4. i \in Interfaces
  BY <1>3, Kinds
<1> HIDE DEF c, i
<1>5. \A m \in Clusters : spill'[m] = IF m = k THEN Tail(spill[k]) ELSE spill[m]
  BY <1>1, <1>2
<1>6. \A m \in Clusters : m # k => c \notin m
  <2>1. c \in k
    BY <1>1, <1>3
  <2> QED
    BY <2>1, CommandParams
<1>7. Waiting' = Waiting \ {c} /\ c \in Waiting
  <2>1. \A m \in Clusters : Range(spill'[m]) = Range(spill[m]) \ {c}
    <3>1. \A m \in Clusters : m # k => c \notin Range(spill[m])
      BY <1>1, <1>6
    <3> QED
      BY <1>3, <1>5, <3>1
  <2>2. c \in Range(spill[k])
    BY <1>3
  <2> QED
    BY <2>1, <2>2 DEF Waiting
<1>8. c \in busy
  BY <1>1, <1>3
<1>9. \A j \in Interfaces : At(j)' = (IF j = i THEN At(j) \cup {c} ELSE At(j)) /\ c \notin At(j)
  BY <1>2, <1>7, <1>8 DEF At, i
<1>10. \A j \in Interfaces : IsFiniteSet(At(j)) /\ At(j) \subseteq busy
  BY <1>1, FS_Subset DEF At
<1>11. \A j \in Interfaces :
         /\ inFlight'[j] = IF j = i THEN inFlight[j] + 1 ELSE inFlight[j]
         /\ inFlight'[j] < RespBuffSize /\ inFlight'[j] \in 0 .. RespBuffSize
  <2>1. inFlight[i] < RespBuffSize - 1
    <3>1. inFlight[i] \in Nat /\ inFlight[i] < RespBuffSize
      BY <1>1, <1>4
    <3>2. RespBuffSize \in Nat \ {0}
      BY CommandParams
    <3>3. inFlight[i] % RespBuffSize = inFlight[i]
      BY <3>1, <3>2
    <3> QED
      BY <1>2, <3>3 DEF HasSpace, UsageOf
  <2>2. RespBuffSize \in Nat
    BY CommandParams
  <2>3. \A j \in Interfaces : inFlight[j] \in Nat /\ inFlight[j] < RespBuffSize
    BY <1>1
  <2>4. inFlight[i] # RespBuffSize
    BY <1>4, <2>2, <2>3
  <2>5. \A j \in Interfaces : inFlight'[j] = IF j = i THEN inFlight[j] + 1 ELSE inFlight[j]
    BY <1>1, <1>2, <2>4
  <2>6. \A j \in Interfaces : inFlight'[j] \in Nat /\ inFlight'[j] < RespBuffSize
    BY <1>4, <2>1, <2>2, <2>3, <2>5
  <2> QED
    BY <2>2, <2>5, <2>6
<1>12. \A j \in Interfaces : inFlight'[j] = Cardinality(At(j)')
  <2>1. Cardinality(At(i) \cup {c}) = Cardinality(At(i)) + 1
    BY <1>4, <1>9, <1>10, FS_AddElement
  <2> QED
    BY <1>1, <1>4, <1>9, <1>11, <2>1
<1>13. UnitOK'
  <2>1. spill' \in [Clusters -> Seq(Cmds)]
    BY <1>1, <1>2, <1>3
  <2>2. \A m \in Clusters : Len(spill'[m]) <= 2
    <3>1. \A n \in Nat : n <= 2 => n - 1 <= 2
      OBVIOUS
    <3>2. Len(Tail(spill[k])) <= 2
      BY <1>1, <1>3, <3>1
    <3> QED
      BY <1>1, <1>5, <3>2
  <2>3. inFlight' \in [Interfaces -> 0 .. RespBuffSize]
    BY <1>1, <1>2, <1>11
  <2> QED
    BY <1>1, <1>2, <2>1, <2>2, <2>3 DEF UnitOK
<1>14. UnitExact'
  <2>1. \A m \in Clusters : IsInjective(spill'[m]) /\ Range(spill'[m]) \subseteq m \cap busy'
    BY <1>1, <1>2, <1>3, <1>5
  <2>2. \A j \in Interfaces : Range(respBuffer'[j]) \subseteq At(j)' \cap effected'
    BY <1>1, <1>2, <1>9
  <2> QED
    BY <1>1, <1>2, <1>11, <1>12, <2>1, <2>2 DEF UnitExact
<1>15. c \notin Responded /\ Responded' = Responded
  BY <1>1, <1>2, <1>9 DEF Responded
<1>16. Inside' = Inside \cup {c} /\ c \notin Inside
  BY <1>2, <1>7, <1>8, <1>15 DEF Inside
<1> QED
  BY <1>2, <1>3, <1>8, <1>13, <1>14, <1>16 DEF UnitInv, c

(* An interface answers a command inside that has taken effect.  There is  *)
(* room for the answer, and the command is not inside any more.            *)
LEMMA UnitRespond ==
  ASSUME UnitInv, NEW i \in Interfaces, NEW c \in Inside, Interface(c) = i, c \in effected',
         effected \subseteq effected', effected' \subseteq busy,
         Respond(i, c), UNCHANGED <<unitVars, busy>>
  PROVE  UnitInv' /\ Inside' = Inside \ {c}
<1>1. /\ respBuffer \in [Interfaces -> Seq(Cmds)] /\ busy \subseteq Cmds
      /\ \A j \in Interfaces : IsInjective(respBuffer[j])
      /\ \A j \in Interfaces : Range(respBuffer[j]) \subseteq At(j) \cap effected
  BY DEF UnitInv, UnitOK, UnitExact
<1>2. spill' = spill /\ inFlight' = inFlight /\ busy' = busy
  BY DEF unitVars
<1>3. respBuffer' = [respBuffer EXCEPT ![i] = Append(@, c)]
  <2>1. respBuffer[i] \in Seq(Cmds) /\ Len(respBuffer[i]) < RespBuffSize
    BY <1>1, RoomForAnswer
  <2>2. Len(respBuffer[i]) # RespBuffSize
    BY <2>1, CommandParams
  <2> QED
    BY <2>2 DEF Respond, Push
<1>4. c \in busy /\ c \in At(i) /\ c \in Cmds /\ c \notin Range(respBuffer[i])
  BY <1>1 DEF Inside, At, Responded
<1>5. /\ Append(respBuffer[i], c) \in Seq(Cmds)
      /\ Range(Append(respBuffer[i], c)) = Range(respBuffer[i]) \cup {c}
      /\ IsInjective(Append(respBuffer[i], c))
  BY <1>1, <1>4, AppendFacts
<1>6. respBuffer' \in [Interfaces -> Seq(Cmds)] /\ \A j \in Interfaces :
        respBuffer'[j] = IF j = i THEN Append(respBuffer[i], c) ELSE respBuffer[j]
  BY <1>1, <1>3, <1>5
<1>7. Waiting' = Waiting /\ \A j \in Interfaces : At(j)' = At(j)
  BY <1>2 DEF Waiting, At
<1>8. \A j \in Interfaces : Range(respBuffer'[j]) =
         IF j = i THEN Range(respBuffer[j]) \cup {c} ELSE Range(respBuffer[j])
  BY <1>5, <1>6
<1>9. Responded' = Responded \cup {c}
  BY <1>8 DEF Responded
<1>10. Inside' = Inside \ {c}
  BY <1>2, <1>7, <1>9 DEF Inside
<1>11. UnitOK'
  BY <1>2, <1>6 DEF UnitInv, UnitOK
<1>12. UnitExact'
  <2>1. \A j \in Interfaces : IsInjective(respBuffer'[j])
    BY <1>1, <1>5, <1>6
  <2>2. \A j \in Interfaces : Range(respBuffer'[j]) \subseteq At(j)' \cap effected'
    BY <1>1, <1>4, <1>7, <1>8
  <2> QED
    BY <1>2, <1>7, <2>1, <2>2 DEF UnitInv, UnitExact
<1> QED
  BY <1>10, <1>11, <1>12 DEF UnitInv

(* The answer at the head of a response FIFO reaches the core.             *)
LEMMA UnitAnswer ==
  ASSUME UnitInv, NEW i \in Interfaces, Answer(i)
  PROVE  LET c == Head(respBuffer[i])
         IN  /\ UnitInv' /\ Inside' = Inside /\ c \in effected /\ c \notin Inside /\ c \in Cmds
             /\ busy' = busy \ {c} /\ effected' = effected \ {c}
<1> DEFINE c == Head(respBuffer[i])
<1>1. /\ respBuffer \in [Interfaces -> Seq(Cmds)] /\ busy \subseteq Cmds /\ effected \subseteq busy
      /\ spill \in [Clusters -> Seq(Cmds)] /\ inFlight \in [Interfaces -> 0 .. RespBuffSize]
      /\ \A j \in Interfaces : IsInjective(respBuffer[j])
      /\ \A j \in Interfaces : Range(respBuffer[j]) \subseteq At(j) \cap effected
      /\ \A m \in Clusters : IsInjective(spill[m]) /\ Range(spill[m]) \subseteq m \cap busy
      /\ \A j \in Interfaces : inFlight[j] = Cardinality(At(j)) /\ inFlight[j] < RespBuffSize
      /\ IsFiniteSet(busy)
  BY DEF UnitInv, UnitOK, UnitExact
<1>2. /\ respBuffer[i] # <<>>
      /\ respBuffer' = [respBuffer EXCEPT ![i] = Tail(@)]
      /\ inFlight' = [inFlight EXCEPT ![i] = @ - 1]
      /\ busy' = busy \ {c} /\ effected' = effected \ {c} /\ spill' = spill
  BY DEF Answer, Pop
<1>3. /\ Tail(respBuffer[i]) \in Seq(Cmds) /\ c \in Cmds
      /\ Range(respBuffer[i]) = Range(Tail(respBuffer[i])) \cup {c}
      /\ IsInjective(Tail(respBuffer[i])) /\ c \notin Range(Tail(respBuffer[i]))
  BY <1>1, <1>2, TailFacts
<1> HIDE DEF c
<1>4. c \in At(i) /\ c \in effected
  BY <1>1, <1>3
<1>5. /\ respBuffer' \in [Interfaces -> Seq(Cmds)] /\ \A j \in Interfaces :
           respBuffer'[j] = IF j = i THEN Tail(respBuffer[i]) ELSE respBuffer[j]
  BY <1>1, <1>2, <1>3
<1>6. Waiting' = Waiting /\ c \notin Waiting
  BY <1>2, <1>4 DEF Waiting, At
<1>7. \A j \in Interfaces : At(j)' = IF j = i THEN At(j) \ {c} ELSE At(j)
  BY <1>2, <1>4, <1>6 DEF At
<1>8. \A j \in Interfaces : IsFiniteSet(At(j)) /\ Cardinality(At(j)) \in Nat
  BY <1>1, FS_Subset, FS_CardinalityType DEF At
<1>9. Cardinality(At(i) \ {c}) = Cardinality(At(i)) - 1 /\ Cardinality(At(i) \ {c}) \in Nat
  <2>1. Cardinality(At(i) \ {c}) = Cardinality(At(i)) - 1 /\ IsFiniteSet(At(i) \ {c})
    BY <1>4, <1>8, FS_RemoveElement
  <2> QED
    BY <2>1, FS_CardinalityType
<1>10. \A j \in Interfaces :
         /\ inFlight'[j] = Cardinality(At(j)') /\ inFlight'[j] < RespBuffSize
         /\ inFlight'[j] \in 0 .. RespBuffSize
  <2>1. RespBuffSize \in Nat
    BY CommandParams
  <2>2. inFlight'[i] = inFlight[i] - 1 /\ inFlight[i] = Cardinality(At(i))
        /\ inFlight[i] \in Nat /\ inFlight[i] < RespBuffSize
    BY <1>1, <1>2
  <2>3. inFlight'[i] = Cardinality(At(i)') /\ inFlight'[i] < RespBuffSize
        /\ inFlight'[i] \in 0 .. RespBuffSize
    BY <1>7, <1>9, <2>1, <2>2
  <2>4. \A j \in Interfaces \ {i} : inFlight'[j] = inFlight[j] /\ At(j)' = At(j)
    BY <1>1, <1>2, <1>7
  <2> QED
    BY <1>1, <2>3, <2>4
<1>11. UnitOK'
  <2>1. inFlight' \in [Interfaces -> 0 .. RespBuffSize]
    BY <1>1, <1>2, <1>10
  <2> QED
    BY <1>1, <1>2, <1>5, <2>1 DEF UnitOK, UnitInv
<1>12. UnitExact'
  <2>1. \A m \in Clusters : IsInjective(spill'[m]) /\ Range(spill'[m]) \subseteq m \cap busy'
    BY <1>1, <1>2, <1>6 DEF Waiting
  <2>2. \A j \in Interfaces : IsInjective(respBuffer'[j])
    BY <1>1, <1>3, <1>5
  <2>3. \A j \in Interfaces : Range(respBuffer'[j]) \subseteq At(j)' \cap effected'
    <3>1. \A j \in Interfaces : j # i => c \notin At(j)
      BY <1>4 DEF At
    <3> QED
      BY <1>1, <1>2, <1>3, <1>5, <1>7, <3>1
  <2>4. IsFiniteSet(busy')
    BY <1>1, <1>2, FS_RemoveElement
  <2> QED
    BY <1>10, <2>1, <2>2, <2>3, <2>4 DEF UnitExact
<1>13. Responded' = Responded \ {c} /\ c \in Responded
  <2>1. \A j \in Interfaces : j # i => c \notin Range(respBuffer[j])
    BY <1>1, <1>4 DEF At
  <2>2. \A j \in Interfaces : Range(respBuffer'[j]) = Range(respBuffer[j]) \ {c}
    BY <1>3, <1>5, <2>1
  <2>3. c \in Range(respBuffer[i])
    BY <1>3
  <2>4. c \in Responded
    BY <2>3 DEF Responded
  <2>5. Responded' = UNION {Range(respBuffer[j]) \ {c} : j \in Interfaces}
    BY <2>2 DEF Responded
  <2> QED
    BY <2>4, <2>5 DEF Responded
<1>14. Inside' = Inside /\ c \notin Inside
  BY <1>2, <1>6, <1>13 DEF Inside
<1> QED
  BY <1>2, <1>3, <1>4, <1>11, <1>12, <1>14 DEF UnitInv, c

-----------------------------------------------------------------------------
(* An id FIFO as a command enters it, as the effect of the next one takes  *)
(* place, as its head is answered, and in the steps of the others.         *)
LEMMA IdFifoPush ==
  ASSUME NEW S, NEW inside, NEW done, NEW s \in Seq(Cmds), NEW n \in Nat,
         NEW c \in S \cap Cmds, c \notin inside, IdFifo(s, S, n, inside, done)
  PROVE  IdFifo(Append(s, c), S, n, inside \cup {c}, done)
<1>1. /\ Len(Append(s, c)) = Len(s) + 1 /\ Len(s) \in Nat /\ DOMAIN s = 1 .. Len(s)
      /\ \A k \in DOMAIN s : Append(s, c)[k] = s[k]
      /\ Range(Append(s, c)) = Range(s) \cup {c}
      /\ IsInjective(s) /\ c \notin Range(s) => IsInjective(Append(s, c))
  BY AppendFacts
<1>2. c \notin Range(s) /\ n <= Len(s)
  BY DEF IdFifo
<1>3. \A j \in 1 .. n : j \in DOMAIN s
  BY <1>1, <1>2
<1>4. n <= Len(Append(s, c))
  BY <1>1, <1>2
<1>5. \A j \in 1 .. n : Append(s, c)[j] \in done
  BY <1>1, <1>3 DEF IdFifo
<1>6. IsInjective(Append(s, c)) /\ Range(Append(s, c)) \subseteq S \cap (inside \cup {c})
  BY <1>1, <1>2 DEF IdFifo
<1> QED
  BY <1>4, <1>5, <1>6 DEF IdFifo

(* One more command of an id FIFO takes effect.                            *)
LEMMA IdFifoDone ==
  ASSUME NEW S, NEW inside, NEW done, NEW s \in Seq(Cmds), NEW n \in Nat,
         n + 1 \in DOMAIN s, IdFifo(s, S, n, inside, done)
  PROVE  IdFifo(s, S, n + 1, inside, done \cup {s[n + 1]})
<1>1. n + 1 <= Len(s)
  OBVIOUS
<1>2. \A j \in 1 .. n + 1 : j \in 1 .. n \/ j = n + 1
  OBVIOUS
<1> QED
  BY <1>1, <1>2 DEF IdFifo

(* The head of an id FIFO that has taken effect is answered and leaves.    *)
LEMMA IdFifoPop ==
  ASSUME NEW S, NEW inside, NEW done, NEW s \in Seq(Cmds), NEW n \in Nat \ {0},
         IdFifo(s, S, n, inside, done)
  PROVE  /\ s # <<>> /\ Head(s) \in S \cap inside /\ Head(s) \in done
         /\ IdFifo(Tail(s), S, n - 1, inside \ {Head(s)}, done)
<1>1. n <= Len(s) /\ s # <<>>
  BY DEF IdFifo
<1>2. /\ Tail(s) \in Seq(Cmds) /\ Len(Tail(s)) = Len(s) - 1 /\ Len(s) \in Nat \ {0}
      /\ DOMAIN Tail(s) = 1 .. Len(s) - 1 /\ 1 \in DOMAIN s /\ Head(s) = s[1]
      /\ \A k \in DOMAIN Tail(s) : k + 1 \in DOMAIN s /\ Tail(s)[k] = s[k + 1]
      /\ Range(s) = Range(Tail(s)) \cup {Head(s)}
      /\ IsInjective(s) => IsInjective(Tail(s)) /\ Head(s) \notin Range(Tail(s))
  BY <1>1, TailFacts
<1>3. Head(s) \in done /\ Head(s) \in S \cap inside
  <2>1. 1 \in 1 .. n
    OBVIOUS
  <2> QED
    BY <1>2, <2>1 DEF IdFifo
<1>4. n - 1 <= Len(Tail(s))
  BY <1>1, <1>2
<1>5. \A j \in 1 .. n - 1 : Tail(s)[j] \in done
  <2>1. \A j \in 1 .. n - 1 : j + 1 \in 1 .. n /\ j \in DOMAIN Tail(s)
    BY <1>1, <1>2
  <2> QED
    BY <1>2, <2>1 DEF IdFifo
<1>6. IsInjective(Tail(s)) /\ Range(Tail(s)) \subseteq S \cap (inside \ {Head(s)})
  BY <1>2 DEF IdFifo
<1> QED
  BY <1>1, <1>3, <1>4, <1>5, <1>6 DEF IdFifo

(* Nothing changes for an id FIFO while the commands of its kind stay      *)
(* inside and effects are not undone.                                      *)
LEMMA IdFifoKept ==
  ASSUME NEW S, NEW inside, NEW done, NEW inside2, NEW done2, NEW s \in Seq(Cmds), NEW n \in Nat,
         S \cap inside \subseteq inside2, done \cap inside \subseteq done2,
         IdFifo(s, S, n, inside, done)
  PROVE  IdFifo(s, S, n, inside2, done2)
<1>1. \A j \in 1 .. n : j \in DOMAIN s
  BY DEF IdFifo
<1>2. \A j \in 1 .. n : s[j] \in done /\ s[j] \in inside
  BY <1>1 DEF IdFifo, Range
<1> QED
  BY <1>2 DEF IdFifo

-----------------------------------------------------------------------------
(* The transfers of a direction: one starts, the oldest completes, the     *)
(* oldest complete one is answered (soc_dma_wrap.sv:112-170).              *)
LEMMA MovesSteps ==
  ASSUME NEW S \in SUBSET Cmds, NEW inside, NEW done, NEW s \in Seq(Cmds), NEW q \in Seq(Cmds),
         NEW n \in Nat, MovesAligned(S, s, q, n, inside, done)
  PROVE  /\ \A c \in S : c \notin inside =>
              MovesAligned(S, Append(s, c), Append(q, c), n, inside \cup {c}, done)
         /\ q # <<>> => /\ Head(q) \in S \cap inside
                        /\ MovesAligned(S, s, Tail(q), n + 1, inside, done \cup {Head(q)})
         /\ n > 0 => /\ s # <<>> /\ Head(s) \in S \cap inside /\ Head(s) \in done
                     /\ MovesAligned(S, Tail(s), q, n - 1, inside \ {Head(s)}, done)
<1>1. IdFifo(s, S, n, inside, done) /\ Aligned(s, n, q) /\ Len(s) = n + Len(q)
      /\ Len(s) \in Nat /\ Len(q) \in Nat
  BY DEF MovesAligned
<1>2. ASSUME NEW c \in S, c \notin inside
      PROVE  MovesAligned(S, Append(s, c), Append(q, c), n, inside \cup {c}, done)
  <2>1. IdFifo(Append(s, c), S, n, inside \cup {c}, done)
    BY <1>1, <1>2, IdFifoPush
  <2>2. Aligned(Append(s, c), n, Append(q, c))
    BY <1>1, AlignedAppend
  <2>3. Len(Append(s, c)) = Len(s) + 1 /\ Len(Append(q, c)) = Len(q) + 1
    BY AppendFacts
  <2> QED
    BY <1>1, <2>1, <2>2, <2>3 DEF MovesAligned
<1>3. ASSUME q # <<>>
      PROVE  /\ Head(q) \in S \cap inside
             /\ MovesAligned(S, s, Tail(q), n + 1, inside, done \cup {Head(q)})
  <2>1. Aligned(s, n + 1, Tail(q)) /\ n + 1 \in DOMAIN s /\ Head(q) = s[n + 1]
    BY <1>1, <1>3, AlignedPop
  <2>2. IdFifo(s, S, n + 1, inside, done \cup {s[n + 1]})
    BY <1>1, <2>1, IdFifoDone
  <2>3. Len(Tail(q)) = Len(q) - 1
    BY <1>3, TailFacts
  <2>4. Len(s) = n + 1 + Len(Tail(q))
    <3> DEFINE m == Len(Tail(q))
    <3>1. m = Len(q) - 1
      BY <2>3
    <3> HIDE DEF m
    <3>2. Len(s) = n + 1 + m
      BY <1>1, <3>1
    <3> QED
      BY <3>2 DEF m
  <2>5. Head(q) \in S \cap inside
    BY <1>1, <2>1 DEF IdFifo, Range
  <2> QED
    BY <2>1, <2>2, <2>4, <2>5 DEF MovesAligned
<1>4. ASSUME n > 0
      PROVE  /\ s # <<>> /\ Head(s) \in S \cap inside /\ Head(s) \in done
             /\ MovesAligned(S, Tail(s), q, n - 1, inside \ {Head(s)}, done)
  <2>1. n \in Nat \ {0}
    BY <1>4
  <2>2. /\ s # <<>> /\ Head(s) \in S \cap inside /\ Head(s) \in done
        /\ IdFifo(Tail(s), S, n - 1, inside \ {Head(s)}, done)
    BY <1>1, <2>1, IdFifoPop
  <2>3. Aligned(Tail(s), n - 1, q)
    BY <1>1, <2>1, <2>2, AlignedTail
  <2>4. Len(Tail(s)) = Len(s) - 1
    BY <2>2, TailFacts
  <2>5. Len(Tail(s)) = n - 1 + Len(q)
    BY <1>1, <2>4
  <2> QED
    BY <2>2, <2>3, <2>5 DEF MovesAligned
<1> QED
  BY <1>2, <1>3, <1>4

(* The same for the transfers of a direction.                              *)
LEMMA MovesKept ==
  ASSUME NEW S, NEW inside, NEW done, NEW inside2, NEW done2, NEW s \in Seq(Cmds), NEW q,
         NEW n \in Nat, S \cap inside \subseteq inside2, done \cap inside \subseteq done2,
         MovesAligned(S, s, q, n, inside, done)
  PROVE  MovesAligned(S, s, q, n, inside2, done2)
BY IdFifoKept DEF MovesAligned

(* The reads: one is passed to the host, the host takes it, makes the      *)
(* oldest, and answers it (host_direct.sv:233-249).                        *)
LEMMA ReadsSteps ==
  ASSUME NEW inside, NEW done, NEW s \in Seq(Cmds), NEW ar \in Seq(Cmds),
         NEW hostAr \in Seq(Cmds), NEW n \in Nat, ReadsAligned(s, ar, hostAr, n, inside, done)
  PROVE  /\ \A c \in Reads : c \notin inside =>
              ReadsAligned(Append(s, c), Append(ar, c), hostAr, n, inside \cup {c}, done)
         /\ ar # <<>> => ReadsAligned(s, Tail(ar), Append(hostAr, Head(ar)), n, inside, done)
         /\ hostAr # <<>> =>
              /\ Head(hostAr) \in inside
              /\ ReadsAligned(s, ar, Tail(hostAr), n + 1, inside, done \cup {Head(hostAr)})
         /\ n > 0 => /\ s # <<>> /\ Head(s) \in Reads \cap inside /\ Head(s) \in done
                     /\ ReadsAligned(Tail(s), ar, hostAr, n - 1, inside \ {Head(s)}, done)
<1>1. /\ IdFifo(s, Reads, n, inside, done) /\ Aligned(s, n, hostAr)
      /\ Aligned(s, n + Len(hostAr), ar) /\ Len(s) = n + Len(hostAr) + Len(ar)
      /\ Len(s) \in Nat /\ Len(ar) \in Nat /\ Len(hostAr) \in Nat /\ n + Len(hostAr) \in Nat
  BY DEF ReadsAligned
<1>2. ASSUME NEW c \in Reads, c \notin inside
      PROVE  ReadsAligned(Append(s, c), Append(ar, c), hostAr, n, inside \cup {c}, done)
  <2>1. c \in Cmds
    BY DEF Cmds
  <2>2. IdFifo(Append(s, c), Reads, n, inside \cup {c}, done)
    BY <1>1, <1>2, <2>1, IdFifoPush
  <2>3. Aligned(Append(s, c), n, hostAr)
    BY <1>1, <2>1, AlignedAppend
  <2>4. Aligned(Append(s, c), n + Len(hostAr), Append(ar, c))
    BY <1>1, <2>1, AlignedAppend
  <2>5. Len(Append(s, c)) = Len(s) + 1 /\ Len(Append(ar, c)) = Len(ar) + 1
    BY <2>1, AppendFacts
  <2>6. Len(Append(s, c)) = n + Len(hostAr) + Len(Append(ar, c))
    BY <1>1, <2>5
  <2> QED
    BY <2>2, <2>3, <2>4, <2>6 DEF ReadsAligned
<1>3. ASSUME ar # <<>>
      PROVE  ReadsAligned(s, Tail(ar), Append(hostAr, Head(ar)), n, inside, done)
  <2>1. /\ Aligned(s, n + Len(hostAr) + 1, Tail(ar)) /\ n + Len(hostAr) + 1 \in DOMAIN s
        /\ Head(ar) = s[n + Len(hostAr) + 1]
    BY <1>1, <1>3, AlignedPop
  <2>2. Head(ar) \in Cmds /\ Len(Tail(ar)) = Len(ar) - 1
    BY <1>3, TailFacts
  <2>3. Aligned(s, n, Append(hostAr, Head(ar)))
    BY <1>1, <2>1, <2>2, AlignedMove
  <2>4. Len(Append(hostAr, Head(ar))) = Len(hostAr) + 1
    BY <2>2, AppendFacts
  <2>5. n + Len(Append(hostAr, Head(ar))) = n + Len(hostAr) + 1
    BY <1>1, <2>4
  <2>6. Len(s) = n + Len(Append(hostAr, Head(ar))) + Len(Tail(ar))
    <3> DEFINE m == Len(Tail(ar))
               k == Len(Append(hostAr, Head(ar)))
    <3>1. m = Len(ar) - 1 /\ k = Len(hostAr) + 1
      BY <2>2, <2>4
    <3> HIDE DEF m, k
    <3>2. Len(s) = n + k + m
      BY <1>1, <3>1
    <3> QED
      BY <3>2 DEF m, k
  <2> QED
    BY <1>1, <2>1, <2>3, <2>5, <2>6 DEF ReadsAligned
<1>4. ASSUME hostAr # <<>>
      PROVE  /\ Head(hostAr) \in inside
             /\ ReadsAligned(s, ar, Tail(hostAr), n + 1, inside, done \cup {Head(hostAr)})
  <2>1. Aligned(s, n + 1, Tail(hostAr)) /\ n + 1 \in DOMAIN s /\ Head(hostAr) = s[n + 1]
    BY <1>1, <1>4, AlignedPop
  <2>2. IdFifo(s, Reads, n + 1, inside, done \cup {s[n + 1]})
    BY <1>1, <2>1, IdFifoDone
  <2>3. Len(Tail(hostAr)) = Len(hostAr) - 1
    BY <1>4, TailFacts
  <2>4. n + 1 + Len(Tail(hostAr)) = n + Len(hostAr)
    <3> DEFINE m == Len(Tail(hostAr))
    <3>1. m = Len(hostAr) - 1
      BY <2>3
    <3> HIDE DEF m
    <3>2. n + 1 + m = n + Len(hostAr)
      BY <1>1, <3>1
    <3> QED
      BY <3>2 DEF m
  <2>5. Head(hostAr) \in inside
    BY <1>1, <2>1 DEF IdFifo, Range
  <2> QED
    BY <1>1, <2>1, <2>2, <2>4, <2>5 DEF ReadsAligned
<1>5. ASSUME n > 0
      PROVE  /\ s # <<>> /\ Head(s) \in Reads \cap inside /\ Head(s) \in done
             /\ ReadsAligned(Tail(s), ar, hostAr, n - 1, inside \ {Head(s)}, done)
  <2>1. n \in Nat \ {0} /\ n + Len(hostAr) \in Nat \ {0}
    BY <1>1, <1>5
  <2>2. /\ s # <<>> /\ Head(s) \in Reads \cap inside /\ Head(s) \in done
        /\ IdFifo(Tail(s), Reads, n - 1, inside \ {Head(s)}, done)
    BY <1>1, <2>1, IdFifoPop
  <2>3. Aligned(Tail(s), n - 1, hostAr)
    BY <1>1, <2>1, <2>2, AlignedTail
  <2>4. Aligned(Tail(s), n + Len(hostAr) - 1, ar)
    BY <1>1, <2>1, <2>2, AlignedTail
  <2>5. n - 1 + Len(hostAr) = n + Len(hostAr) - 1
    BY <1>1
  <2>6. Len(Tail(s)) = Len(s) - 1
    BY <2>2, TailFacts
  <2>7. Len(Tail(s)) = n - 1 + Len(hostAr) + Len(ar)
    BY <1>1, <2>6
  <2> QED
    BY <2>2, <2>3, <2>4, <2>5, <2>7 DEF ReadsAligned
<1> QED
  BY <1>2, <1>3, <1>4, <1>5

(* The same for the reads.                                                 *)
LEMMA ReadsKept ==
  ASSUME NEW inside, NEW done, NEW inside2, NEW done2, NEW s \in Seq(Cmds), NEW ar, NEW hostAr,
         NEW n \in Nat, Reads \cap inside \subseteq inside2, done \cap inside \subseteq done2,
         ReadsAligned(s, ar, hostAr, n, inside, done)
  PROVE  ReadsAligned(s, ar, hostAr, n, inside2, done2)
BY IdFifoKept DEF ReadsAligned

(* The writes: one is split into address and data, the host takes either,  *)
(* pairs them, makes the oldest of the pairs, which are pairs of one       *)
(* command, and answers it (host_direct.sv:233-249).                       *)
LEMMA WritesParts ==
  ASSUME NEW inside, NEW done, NEW s \in Seq(Cmds), NEW ad \in Seq(Cmds), NEW da \in Seq(Cmds),
         NEW hostAd \in Seq(Cmds), NEW P, NEW pairs \in Seq(P), NEW n \in Nat,
         WritesAligned(s, ad, da, hostAd, pairs, n, inside, done)
  PROVE  LET paired == n + Len(pairs)
         IN  /\ IdFifo(s, Writes, n, inside, done) /\ PairsAligned(s, n, pairs)
             /\ Aligned(s, paired, hostAd) /\ Aligned(s, paired + Len(hostAd), ad)
             /\ Aligned(s, paired, da)
             /\ Len(s) = paired + Len(hostAd) + Len(ad) /\ Len(s) = paired + Len(da)
             /\ Len(s) \in Nat /\ paired \in Nat /\ Len(hostAd) \in Nat /\ Len(ad) \in Nat
             /\ Len(pairs) \in Nat /\ Len(da) \in Nat /\ paired + Len(hostAd) \in Nat
<1>1. /\ Len(s) \in Nat /\ Len(hostAd) \in Nat /\ Len(ad) \in Nat /\ Len(pairs) \in Nat
      /\ Len(da) \in Nat
  OBVIOUS
<1>2. n + Len(pairs) \in Nat /\ n + Len(pairs) + Len(hostAd) \in Nat
  BY <1>1
<1> QED
  BY <1>1, <1>2, Zenon DEF WritesAligned

(* A write enters the id FIFO, the address queue and the data queue        *)
(* together.                                                               *)
LEMMA WritesEnter ==
  ASSUME NEW inside, NEW done, NEW s \in Seq(Cmds), NEW ad \in Seq(Cmds), NEW da \in Seq(Cmds),
         NEW hostAd \in Seq(Cmds), NEW P, NEW pairs \in Seq(P), NEW n \in Nat,
         NEW c \in Writes, c \notin inside, WritesAligned(s, ad, da, hostAd, pairs, n, inside, done)
  PROVE  WritesAligned(Append(s, c), Append(ad, c), Append(da, c), hostAd, pairs, n,
                       inside \cup {c}, done)
<1> DEFINE paired == n + Len(pairs)
<1>1. /\ IdFifo(s, Writes, n, inside, done) /\ PairsAligned(s, n, pairs)
      /\ Aligned(s, paired, hostAd) /\ Aligned(s, paired + Len(hostAd), ad)
      /\ Aligned(s, paired, da)
      /\ Len(s) = paired + Len(hostAd) + Len(ad) /\ Len(s) = paired + Len(da)
      /\ Len(s) \in Nat /\ paired \in Nat /\ Len(hostAd) \in Nat /\ Len(ad) \in Nat
      /\ Len(pairs) \in Nat /\ Len(da) \in Nat /\ paired + Len(hostAd) \in Nat
  BY WritesParts
<1> HIDE DEF paired
<1>2. c \in Cmds
  BY DEF Cmds
<1>3. IdFifo(Append(s, c), Writes, n, inside \cup {c}, done)
  BY <1>1, <1>2, IdFifoPush
<1>4. /\ DOMAIN s = 1 .. Len(s) /\ DOMAIN Append(s, c) = 1 .. Len(s) + 1
      /\ \A k \in DOMAIN s : Append(s, c)[k] = s[k]
  BY <1>2, AppendFacts
<1>5. PairsAligned(Append(s, c), n, pairs)
  BY <1>1, <1>4 DEF PairsAligned
<1>6. /\ Aligned(Append(s, c), paired, hostAd)
      /\ Aligned(Append(s, c), paired + Len(hostAd), Append(ad, c))
      /\ Aligned(Append(s, c), paired, Append(da, c))
  BY <1>1, <1>2, AlignedAppend
<1>7. /\ Len(Append(s, c)) = Len(s) + 1 /\ Len(Append(ad, c)) = Len(ad) + 1
      /\ Len(Append(da, c)) = Len(da) + 1
  BY <1>2, AppendFacts
<1> DEFINE m == Len(Append(s, c))
           k == Len(Append(ad, c))
           l == Len(Append(da, c))
<1>8. m = Len(s) + 1 /\ k = Len(ad) + 1 /\ l = Len(da) + 1
  BY <1>7
<1> HIDE DEF m, k, l
<1>9. m = paired + Len(hostAd) + k /\ m = paired + l
  <2>1. \A a \in Nat, b \in Nat : a + (b + 1) = a + b + 1
    OBVIOUS
  <2>2. m = paired + Len(hostAd) + Len(ad) + 1 /\ m = paired + Len(da) + 1
    BY <1>1, <1>8, Zenon
  <2> QED
    BY <1>1, <1>8, <2>1, <2>2, Zenon
<1> QED
  BY <1>3, <1>5, <1>6, <1>9 DEF WritesAligned, paired, m, k, l

(* Its address goes to the host.                                           *)
LEMMA WritesAddress ==
  ASSUME NEW inside, NEW done, NEW s \in Seq(Cmds), NEW ad \in Seq(Cmds), NEW da \in Seq(Cmds),
         NEW hostAd \in Seq(Cmds), NEW P, NEW pairs \in Seq(P), NEW n \in Nat,
         ad # <<>>, WritesAligned(s, ad, da, hostAd, pairs, n, inside, done)
  PROVE  WritesAligned(s, Tail(ad), da, Append(hostAd, Head(ad)), pairs, n, inside, done)
<1> DEFINE paired == n + Len(pairs)
<1>1. /\ IdFifo(s, Writes, n, inside, done) /\ PairsAligned(s, n, pairs)
      /\ Aligned(s, paired, hostAd) /\ Aligned(s, paired + Len(hostAd), ad)
      /\ Aligned(s, paired, da)
      /\ Len(s) = paired + Len(hostAd) + Len(ad) /\ Len(s) = paired + Len(da)
      /\ Len(s) \in Nat /\ paired \in Nat /\ Len(hostAd) \in Nat /\ Len(ad) \in Nat
      /\ Len(pairs) \in Nat /\ Len(da) \in Nat /\ paired + Len(hostAd) \in Nat
  BY WritesParts
<1> HIDE DEF paired
<1>2. /\ Aligned(s, paired + Len(hostAd) + 1, Tail(ad))
      /\ paired + Len(hostAd) + 1 \in DOMAIN s /\ Head(ad) = s[paired + Len(hostAd) + 1]
  BY <1>1, AlignedPop
<1>3. Head(ad) \in Cmds /\ Len(Tail(ad)) = Len(ad) - 1
  BY TailFacts
<1>4. Aligned(s, paired, Append(hostAd, Head(ad)))
  BY <1>1, <1>2, <1>3, AlignedMove
<1>5. Len(Append(hostAd, Head(ad))) = Len(hostAd) + 1
  BY <1>3, AppendFacts
<1> DEFINE m == Len(Tail(ad))
           k == Len(Append(hostAd, Head(ad)))
<1>6. m = Len(ad) - 1 /\ k = Len(hostAd) + 1
  BY <1>3, <1>5
<1> HIDE DEF m, k
<1>7. paired + k = paired + Len(hostAd) + 1 /\ Len(s) = paired + k + m
  BY <1>1, <1>6
<1> QED
  BY <1>1, <1>2, <1>4, <1>7 DEF WritesAligned, paired, m, k

(* The host gets its data and pairs it with the oldest address, which is   *)
(* that of the same write.                                                 *)
LEMMA WritesPair ==
  ASSUME NEW inside, NEW done, NEW s \in Seq(Cmds), NEW ad \in Seq(Cmds), NEW da \in Seq(Cmds),
         NEW hostAd \in Seq(Cmds), NEW pairs \in Seq([addr : Cmds, data : Cmds]), NEW n \in Nat,
         da # <<>>, hostAd # <<>>, WritesAligned(s, ad, da, hostAd, pairs, n, inside, done)
  PROVE  WritesAligned(s, ad, Tail(da), Tail(hostAd),
                       Append(pairs, [addr |-> Head(hostAd), data |-> Head(da)]), n, inside, done)
<1> DEFINE paired == n + Len(pairs)
           new == [addr |-> Head(hostAd), data |-> Head(da)]
<1>1. /\ IdFifo(s, Writes, n, inside, done) /\ PairsAligned(s, n, pairs)
      /\ Aligned(s, paired, hostAd) /\ Aligned(s, paired + Len(hostAd), ad)
      /\ Aligned(s, paired, da)
      /\ Len(s) = paired + Len(hostAd) + Len(ad) /\ Len(s) = paired + Len(da)
      /\ Len(s) \in Nat /\ paired \in Nat /\ Len(hostAd) \in Nat /\ Len(ad) \in Nat
      /\ Len(pairs) \in Nat /\ Len(da) \in Nat /\ paired + Len(hostAd) \in Nat
  BY WritesParts
<1>2. paired = n + Len(pairs)
  OBVIOUS
<1> HIDE DEF paired
<1>3. /\ Aligned(s, paired + 1, Tail(hostAd)) /\ Head(hostAd) = s[paired + 1]
      /\ Aligned(s, paired + 1, Tail(da)) /\ Head(da) = s[paired + 1]
      /\ paired + 1 \in DOMAIN s
  BY <1>1, AlignedPop
<1>4. /\ Head(hostAd) \in Cmds /\ Len(Tail(hostAd)) = Len(hostAd) - 1
      /\ Head(da) \in Cmds /\ Len(Tail(da)) = Len(da) - 1
  BY TailFacts
<1>5. new \in [addr : Cmds, data : Cmds] /\ new.addr = s[paired + 1] /\ new.data = s[paired + 1]
  BY <1>3, <1>4
<1> HIDE DEF new
<1>6. /\ DOMAIN Append(pairs, new) = 1 .. Len(pairs) + 1 /\ DOMAIN pairs = 1 .. Len(pairs)
      /\ Append(pairs, new)[Len(pairs) + 1] = new
      /\ \A k \in DOMAIN pairs : Append(pairs, new)[k] = pairs[k]
      /\ Len(Append(pairs, new)) = Len(pairs) + 1
  BY <1>5, AppendFacts
<1>7. PairsAligned(s, n, Append(pairs, new))
  <2>1. \A j \in DOMAIN Append(pairs, new) : j \in DOMAIN pairs \/ j = Len(pairs) + 1
    <3>1. \A l \in Nat : \A j \in 1 .. l + 1 : j \in 1 .. l \/ j = l + 1
      OBVIOUS
    <3> QED
      BY <1>1, <1>6, <3>1, Zenon
  <2>2. n + (Len(pairs) + 1) = paired + 1
    BY <1>1, <1>2
  <2> QED
    BY <1>1, <1>3, <1>5, <1>6, <2>1, <2>2 DEF PairsAligned
<1> DEFINE h == Len(Tail(hostAd))
           d == Len(Tail(da))
           p == Len(Append(pairs, new))
<1>8. h = Len(hostAd) - 1 /\ d = Len(da) - 1 /\ p = Len(pairs) + 1
  BY <1>4, <1>6
<1> HIDE DEF h, d, p
<1>9. n + p = paired + 1
  BY <1>1, <1>2, <1>8
<1>10. paired + 1 + h = paired + Len(hostAd) /\ Len(s) = paired + 1 + d
  <2>1. \A a \in Nat, b \in Nat : a + 1 + (b - 1) = a + b
    OBVIOUS
  <2> QED
    BY <1>1, <1>8, <2>1, Zenon
<1>11. /\ n + p + h = paired + Len(hostAd)
       /\ Len(s) = n + p + h + Len(ad) /\ Len(s) = n + p + d
  BY <1>1, <1>9, <1>10
<1> QED
  BY <1>1, <1>3, <1>7, <1>9, <1>11 DEF WritesAligned, h, d, p, new

(* The host makes the write.                                               *)
LEMMA WritesMade ==
  ASSUME NEW inside, NEW done, NEW s \in Seq(Cmds), NEW ad \in Seq(Cmds), NEW da \in Seq(Cmds),
         NEW hostAd \in Seq(Cmds), NEW P, NEW pairs \in Seq(P), NEW n \in Nat,
         \A e \in P : e = [addr |-> e.addr, data |-> e.data],
         pairs # <<>>, WritesAligned(s, ad, da, hostAd, pairs, n, inside, done)
  PROVE  LET c == Head(pairs).addr
         IN  /\ Head(pairs) = [addr |-> c, data |-> c] /\ c \in inside
             /\ WritesAligned(s, ad, da, hostAd, Tail(pairs), n + 1, inside, done \cup {c})
<1> DEFINE paired == n + Len(pairs)
<1>1. /\ IdFifo(s, Writes, n, inside, done) /\ PairsAligned(s, n, pairs)
      /\ Aligned(s, paired, hostAd) /\ Aligned(s, paired + Len(hostAd), ad)
      /\ Aligned(s, paired, da)
      /\ Len(s) = paired + Len(hostAd) + Len(ad) /\ Len(s) = paired + Len(da)
      /\ Len(s) \in Nat /\ paired \in Nat /\ Len(hostAd) \in Nat /\ Len(ad) \in Nat
      /\ Len(pairs) \in Nat /\ Len(da) \in Nat /\ paired + Len(hostAd) \in Nat
  BY WritesParts
<1>2. paired = n + Len(pairs)
  OBVIOUS
<1> HIDE DEF paired
<1>3. /\ Len(Tail(pairs)) = Len(pairs) - 1 /\ DOMAIN Tail(pairs) = 1 .. Len(pairs) - 1
      /\ 1 \in DOMAIN pairs /\ Head(pairs) = pairs[1]
      /\ Head(pairs) \in P
      /\ \A k \in DOMAIN Tail(pairs) : k + 1 \in DOMAIN pairs /\ Tail(pairs)[k] = pairs[k + 1]
  BY TailFacts
<1>4. /\ n + 1 \in DOMAIN s /\ Head(pairs).addr = s[n + 1] /\ Head(pairs).data = s[n + 1]
  BY <1>1, <1>3 DEF PairsAligned
<1>5. Head(pairs) = [addr |-> s[n + 1], data |-> s[n + 1]]
  BY <1>3, <1>4, Zenon
<1>6. s[n + 1] \in inside
  BY <1>1, <1>4 DEF IdFifo, Range
<1>7. IdFifo(s, Writes, n + 1, inside, done \cup {s[n + 1]})
  BY <1>1, <1>4, IdFifoDone
<1>8. PairsAligned(s, n + 1, Tail(pairs))
  <2> DEFINE K == DOMAIN Tail(pairs)
             l == Len(pairs)
  <2>1. l \in Nat /\ K = 1 .. l - 1
    BY <1>1, <1>3
  <2> HIDE DEF K, l
  <2>2. \A k \in K : n + 1 + k = n + (k + 1)
    BY <2>1
  <2> USE DEF K
  <2> QED
    BY <1>1, <1>3, <2>2 DEF PairsAligned
<1>9. n + 1 + Len(Tail(pairs)) = paired
  <2> DEFINE m == Len(Tail(pairs))
             l == Len(pairs)
  <2>1. m = l - 1 /\ l \in Nat /\ paired = n + l
    BY <1>1, <1>2, <1>3, Zenon
  <2> HIDE DEF m, l
  <2>2. n + 1 + m = paired
    BY <2>1
  <2> QED
    BY <2>2 DEF m
<1>10. WritesAligned(s, ad, da, hostAd, Tail(pairs), n + 1, inside, done \cup {s[n + 1]})
  BY <1>1, <1>7, <1>8, <1>9, Zenon DEF WritesAligned
<1> QED
  BY <1>4, <1>5, <1>6, <1>10

(* The oldest write made is answered.                                      *)
LEMMA WritesAnswered ==
  ASSUME NEW inside, NEW done, NEW s \in Seq(Cmds), NEW ad \in Seq(Cmds), NEW da \in Seq(Cmds),
         NEW hostAd \in Seq(Cmds), NEW P, NEW pairs \in Seq(P), NEW n \in Nat,
         n > 0, WritesAligned(s, ad, da, hostAd, pairs, n, inside, done)
  PROVE  /\ s # <<>> /\ Head(s) \in Writes \cap inside /\ Head(s) \in done
         /\ WritesAligned(Tail(s), ad, da, hostAd, pairs, n - 1, inside \ {Head(s)}, done)
<1> DEFINE paired == n + Len(pairs)
<1>1. /\ IdFifo(s, Writes, n, inside, done) /\ PairsAligned(s, n, pairs)
      /\ Aligned(s, paired, hostAd) /\ Aligned(s, paired + Len(hostAd), ad)
      /\ Aligned(s, paired, da)
      /\ Len(s) = paired + Len(hostAd) + Len(ad) /\ Len(s) = paired + Len(da)
      /\ Len(s) \in Nat /\ paired \in Nat /\ Len(hostAd) \in Nat /\ Len(ad) \in Nat
      /\ Len(pairs) \in Nat /\ Len(da) \in Nat /\ paired + Len(hostAd) \in Nat
  BY WritesParts
<1>2. /\ n \in Nat \ {0} /\ paired \in Nat \ {0} /\ paired + Len(hostAd) \in Nat \ {0}
      /\ n - 1 + Len(pairs) = paired - 1
      /\ paired - 1 + Len(hostAd) = paired + Len(hostAd) - 1
  BY <1>1
<1> HIDE DEF paired
<1>3. /\ s # <<>> /\ Head(s) \in Writes \cap inside /\ Head(s) \in done
      /\ IdFifo(Tail(s), Writes, n - 1, inside \ {Head(s)}, done)
  BY <1>1, <1>2, IdFifoPop
<1>4. /\ Aligned(Tail(s), paired - 1, hostAd) /\ Aligned(Tail(s), paired - 1, da)
      /\ Aligned(Tail(s), paired + Len(hostAd) - 1, ad)
  BY <1>1, <1>2, <1>3, AlignedTail
<1>5. /\ DOMAIN s = 1 .. Len(s) /\ DOMAIN Tail(s) = 1 .. Len(s) - 1
      /\ \A k \in DOMAIN Tail(s) : Tail(s)[k] = s[k + 1]
      /\ Len(Tail(s)) = Len(s) - 1
  BY <1>3, TailFacts
<1>6. PairsAligned(Tail(s), n - 1, pairs)
  <2>1. ASSUME NEW j \in DOMAIN pairs
        PROVE  /\ n - 1 + j \in DOMAIN Tail(s) /\ pairs[j].addr = Tail(s)[n - 1 + j]
               /\ pairs[j].data = Tail(s)[n - 1 + j]
    <3>1. j \in Nat \ {0}
      OBVIOUS
    <3>2. n + j \in DOMAIN s /\ pairs[j].addr = s[n + j] /\ pairs[j].data = s[n + j]
      BY <1>1 DEF PairsAligned
    <3>3. n - 1 + j \in DOMAIN Tail(s) /\ n - 1 + j + 1 = n + j
      <4> DEFINE l == Len(s)
      <4>1. n + j \in 1 .. l /\ DOMAIN Tail(s) = 1 .. l - 1 /\ l \in Nat
        BY <1>1, <1>5, <3>2, Zenon
      <4> HIDE DEF l
      <4>2. n \in Nat \ {0}
        BY <1>2, Zenon
      <4>3. n - 1 + j \in 1 .. l - 1 /\ n - 1 + j + 1 = n + j
        BY <3>1, <4>1, <4>2
      <4> QED
        BY <4>1, <4>3, Zenon
    <3>4. Tail(s)[n - 1 + j] = s[n + j]
      BY <1>5, <3>3, Zenon
    <3> QED
      BY <3>2, <3>3, <3>4, Zenon
  <2> QED
    BY <2>1 DEF PairsAligned
<1>7. /\ Len(Tail(s)) = paired - 1 + Len(hostAd) + Len(ad)
      /\ Len(Tail(s)) = paired - 1 + Len(da)
  <2> DEFINE m == Len(Tail(s))
             l == Len(s)
             a == Len(ad)
             h == Len(hostAd)
             d == Len(da)
  <2>1. /\ m = l - 1 /\ l = paired + h + a /\ l = paired + d
        /\ h \in Nat /\ a \in Nat /\ d \in Nat /\ paired \in Nat
    BY <1>1, <1>5, Zenon
  <2> HIDE DEF m, l, a, h, d
  <2>2. m = paired - 1 + h + a /\ m = paired - 1 + d
    BY <2>1
  <2> QED
    BY <2>2 DEF m, a, h, d
<1>8. WritesAligned(Tail(s), ad, da, hostAd, pairs, n - 1, inside \ {Head(s)}, done)
  BY <1>2, <1>3, <1>4, <1>6, <1>7, Zenon DEF WritesAligned
<1> QED
  BY <1>3, <1>8

(* Nothing changes for the writes while they stay inside and effects are   *)
(* not undone.                                                             *)
LEMMA WritesKept ==
  ASSUME NEW inside, NEW done, NEW inside2, NEW done2, NEW s \in Seq(Cmds), NEW ad, NEW da,
         NEW hostAd, NEW pairs, NEW n \in Nat,
         Writes \cap inside \subseteq inside2, done \cap inside \subseteq done2,
         WritesAligned(s, ad, da, hostAd, pairs, n, inside, done)
  PROVE  WritesAligned(s, ad, da, hostAd, pairs, n, inside2, done2)
<1>1. IdFifo(s, Writes, n, inside, done)
  BY DEF WritesAligned
<1>2. IdFifo(s, Writes, n, inside2, done2)
  BY <1>1, IdFifoKept
<1> QED
  BY <1>2, Zenon DEF WritesAligned

-----------------------------------------------------------------------------
(* The packets: how many of a command a queue holds, and which is the last *)
(* (NICOutbound.hpp:93-133, 226-309).                                      *)
LEMMA CountIsFinite ==
  ASSUME NEW R, NEW s \in Seq(R), NEW c
  PROVE  /\ IsFiniteSet({k \in DOMAIN s : s[k].cmd = c}) /\ Count(s, c) \in Nat
         /\ Count(s, c) = 0 <=> c \notin Cmd(s)
<1> DEFINE A == {k \in DOMAIN s : s[k].cmd = c}
<1>1. Len(s) \in Nat /\ DOMAIN s = 1 .. Len(s)
  OBVIOUS
<1>2. IsFiniteSet(1 .. Len(s))
  BY <1>1, FS_Interval
<1>3. IsFiniteSet(A)
  BY <1>1, <1>2, FS_Subset
<1>4. A = {} <=> c \notin Cmd(s)
  BY DEF Cmd, Range
<1> QED
  BY <1>3, <1>4, FS_CardinalityType, FS_EmptySet DEF Count

(* The number of packets of a command after a push,                        *)
LEMMA CountAppend ==
  ASSUME NEW R, NEW s \in Seq(R), NEW x \in R, NEW c
  PROVE  Count(Append(s, x), c) = IF x.cmd = c THEN Count(s, c) + 1 ELSE Count(s, c)
<1> DEFINE A == {k \in DOMAIN s : s[k].cmd = c}
           B == {k \in DOMAIN Append(s, x) : Append(s, x)[k].cmd = c}
           n == Len(s)
<1>1. /\ n \in Nat /\ DOMAIN s = 1 .. n /\ DOMAIN Append(s, x) = 1 .. n + 1
      /\ Append(s, x)[n + 1] = x /\ \A k \in DOMAIN s : Append(s, x)[k] = s[k]
  BY AppendFacts
<1>2. IsFiniteSet(A)
  BY CountIsFinite
<1> HIDE DEF n
<1>3. n + 1 \notin A
  BY <1>1
<1>4. \A k : k \in 1 .. n + 1 <=> k \in 1 .. n \/ k = n + 1
  BY <1>1
<1>5. B = IF x.cmd = c THEN A \cup {n + 1} ELSE A
  BY <1>1, <1>4
<1>6. Cardinality(A \cup {n + 1}) = Cardinality(A) + 1
  BY <1>2, <1>3, FS_AddElement
<1> QED
  BY <1>5, <1>6 DEF Count

(* and after a pop.                                                        *)
LEMMA CountTail ==
  ASSUME NEW R, NEW s \in Seq(R), s # <<>>, NEW c
  PROVE  Count(s, c) = IF Head(s).cmd = c THEN Count(Tail(s), c) + 1 ELSE Count(Tail(s), c)
<1> DEFINE t == Tail(s)
           A == {k \in DOMAIN s : s[k].cmd = c}
           B == {k \in DOMAIN t : t[k].cmd = c}
           C == {k \in A : k # 1}
           n == Len(s)
<1>1. /\ n \in Nat \ {0} /\ DOMAIN s = 1 .. n /\ DOMAIN t = 1 .. n - 1 /\ 1 \in DOMAIN s
      /\ Head(s) = s[1] /\ \A k \in DOMAIN t : t[k] = s[k + 1] /\ t \in Seq(R)
  BY TailFacts
<1>2. IsFiniteSet(A) /\ IsFiniteSet(B) /\ IsFiniteSet(C)
  <2>1. t \in Seq(R) => IsFiniteSet(B)
    BY CountIsFinite, Zenon
  <2>2. IsFiniteSet(A)
    BY CountIsFinite, Zenon
  <2> QED
    BY <1>1, <2>1, <2>2, FS_Subset
<1> HIDE DEF t, n
<1>3. Cardinality(B) = Cardinality(C)
  <2> DEFINE f == [k \in B |-> k + 1]
  <2>1. \A k \in 1 .. n - 1 : k + 1 \in 1 .. n /\ k + 1 # 1
    BY <1>1
  <2>2. \A k \in B : k + 1 \in C
    BY <1>1, <2>1
  <2>3. \A k \in 1 .. n : k # 1 => k - 1 \in 1 .. n - 1 /\ k - 1 + 1 = k
    BY <1>1
  <2>4. \A k \in C : k - 1 \in B /\ k - 1 + 1 = k
    BY <1>1, <2>3
  <2>5. \A j \in B, k \in B : j + 1 = k + 1 => j = k
    BY <1>1
  <2>6. f \in Bijection(B, C)
    BY <2>2, <2>4, <2>5, Zenon DEF Bijection, Injection, Surjection, IsInjective
  <2> QED
    BY <1>2, <2>6, FS_Bijection DEF ExistsBijection
<1>4. A = IF Head(s).cmd = c THEN C \cup {1} ELSE C
  BY <1>1
<1>5. 1 \notin C /\ Cardinality(C \cup {1}) = Cardinality(C) + 1
  BY <1>2, FS_AddElement
<1> QED
  BY <1>3, <1>4, <1>5 DEF Count, t

(* Nothing of a command follows its last packet.                           *)
LEMMA NoneAfterAppend ==
  ASSUME NEW R, NEW s \in Seq(R), NEW x \in R, NoneAfter(s),
         \A e \in Range(s) : e.last => e.cmd # x.cmd
  PROVE  NoneAfter(Append(s, x))
<1> DEFINE t == Append(s, x)
           n == Len(s)
<1>1. /\ n \in Nat /\ DOMAIN s = 1 .. n /\ DOMAIN t = 1 .. n + 1 /\ t[n + 1] = x
      /\ \A k \in DOMAIN s : t[k] = s[k]
  BY AppendFacts
<1> HIDE DEF t, n
<1>2. SUFFICES ASSUME NEW j \in DOMAIN t, NEW k \in DOMAIN t, t[j].last, j < k
               PROVE  t[k].cmd # t[j].cmd
  BY DEF NoneAfter, t
<1>3. j \in DOMAIN s /\ (k \in DOMAIN s \/ k = n + 1)
  BY <1>1, <1>2
<1> QED
  BY <1>1, <1>2, <1>3 DEF NoneAfter, Range

(* After a pop the last packets are still last; the head, if it is one,    *)
(* was the only one left of its command.                                   *)
LEMMA NoneAfterTail ==
  ASSUME NEW R, NEW s \in Seq(R), s # <<>>, NoneAfter(s)
  PROVE  NoneAfter(Tail(s)) /\ (Head(s).last => Head(s).cmd \notin Cmd(Tail(s)))
<1> DEFINE t == Tail(s)
           n == Len(s)
<1>1. /\ n \in Nat \ {0} /\ DOMAIN s = 1 .. n /\ DOMAIN t = 1 .. n - 1 /\ 1 \in DOMAIN s
      /\ Head(s) = s[1] /\ \A k \in DOMAIN t : k + 1 \in DOMAIN s /\ t[k] = s[k + 1]
  BY TailFacts
<1> HIDE DEF t, n
<1>2. \A k \in DOMAIN t : k + 1 > 1 /\ k \in Nat
  BY <1>1
<1>3. ASSUME NEW j \in DOMAIN t, NEW k \in DOMAIN t, t[j].last, j < k
      PROVE  t[k].cmd # t[j].cmd
  <2>1. j + 1 < k + 1
    BY <1>2, <1>3
  <2> QED
    BY <1>1, <1>3, <2>1 DEF NoneAfter
<1>4. ASSUME Head(s).last, NEW k \in DOMAIN t
      PROVE  t[k].cmd # Head(s).cmd
  BY <1>1, <1>2, <1>4 DEF NoneAfter
<1>5. NoneAfter(t)
  BY <1>3 DEF NoneAfter
<1> QED
  BY <1>4, <1>5 DEF Cmd, Range, t

(* The types of what the NIC holds.                                        *)
Packet == [cmd : Cmds, last : BOOLEAN]
Turn == [cmd : Cmds, left : 1 .. RdmaPackets]
PacketOK ==
  /\ packetizer \in Seq(Turn)
  /\ Len(packetizer) <= NumParallelCmd
  /\ dmaPkts \in Seq(Packet)
  /\ netQueue \in Seq(Packet)
  /\ Len(dmaPkts) + Len(netQueue) <= NetworkBuffer
  /\ unsent \in [Cmds -> 0 .. RdmaPackets]

(* A step that leaves the NIC model alone and lets no send or RDMA leave   *)
(* keeps the count of its packets.                                         *)
LEMMA PacketsKept ==
  ASSUME PacketOK, PacketsExact, UNCHANGED nicVars,
         (Sends \cup Rdmas) \cap Inside \subseteq Inside'
  PROVE  PacketOK' /\ PacketsExact'
<1>1. /\ packetizer' = packetizer /\ dmaPkts' = dmaPkts /\ netQueue' = netQueue
      /\ unsent' = unsent
  BY DEF nicVars
<1>2. PacketOK'
  BY <1>1 DEF PacketOK
<1>3. \A c : Made(c)' = Made(c)
  BY <1>1 DEF Made
<1>4. (Cmd(packetizer) \cup Cmd(dmaPkts) \cup Cmd(netQueue))' \subseteq (Sends \cup Rdmas) \cap Inside'
  BY <1>1 DEF PacketsExact
<1> QED
  BY <1>1, <1>2, <1>3, <1>4 DEF PacketsExact

(* A command enters.                                                       *)
LEMMA PacketsDispatch ==
  ASSUME PacketOK, PacketsExact, NEW k \in Clusters, DispatchOutbound(k),
         Head(spill[k]) \in Sends \cup Rdmas, Head(spill[k]) \notin Inside,
         Inside' = Inside \cup {Head(spill[k])}
  PROVE  PacketOK' /\ PacketsExact'
<1> DEFINE c == Head(spill[k])
           new == [cmd |-> c, left |-> NumPackets(c)]
<1>1. /\ packetizer' = Append(packetizer, new) /\ unsent' = [unsent EXCEPT ![c] = NumPackets(c)]
      /\ dmaPkts' = dmaPkts /\ netQueue' = netQueue /\ Len(packetizer) < NumParallelCmd
  BY DEF DispatchOutbound, nicVars
<1>2. NumPackets(c) \in 1 .. RdmaPackets /\ c \in Cmds
  BY CommandParams DEF NumPackets, Cmds
<1>3. new \in Turn /\ new.cmd = c /\ new.left = NumPackets(c)
  BY <1>2 DEF Turn
<1>4. packetizer \in Seq(Turn) /\ dmaPkts \in Seq(Packet)
      /\ netQueue \in Seq(Packet) /\ unsent \in [Cmds -> 0 .. RdmaPackets]
  BY DEF PacketOK
<1> HIDE DEF new
<1>5. /\ packetizer' \in Seq(Turn) /\ Len(packetizer') = Len(packetizer) + 1
      /\ Len(packetizer) \in Nat /\ Range(packetizer') = Range(packetizer) \cup {new}
      /\ IsInjective(packetizer) /\ new \notin Range(packetizer) => IsInjective(packetizer')
  BY <1>1, <1>3, <1>4, AppendFacts
<1>6. unsent' \in [Cmds -> 0 .. RdmaPackets]
  BY <1>1, <1>2, <1>4
<1>7. PacketOK'
  <2>1. Len(packetizer') <= NumParallelCmd
    BY <1>1, <1>5, CommandParams
  <2> QED
    BY <1>1, <1>5, <1>6, <2>1 DEF PacketOK
<1>8. c \notin Cmd(packetizer) \cup Cmd(dmaPkts) \cup Cmd(netQueue)
  BY DEF PacketsExact
<1>9. Cmd(packetizer') = Cmd(packetizer) \cup {c}
  BY <1>3, <1>5 DEF Cmd
<1>10. Made(c) = 0
  <2>1. Count(dmaPkts, c) = 0 /\ Count(netQueue, c) = 0
    BY <1>4, <1>8, CountIsFinite, Zenon
  <2> QED
    BY <2>1 DEF Made
<1>11. \A x : Made(x)' = Made(x)
  BY <1>1 DEF Made
<1>12. \A e \in Range(packetizer) : e.cmd # c /\ e.cmd \in Cmds
  BY <1>8 DEF Cmd, PacketsExact, Cmds
<1>13. \A x \in Cmds : unsent'[x] = IF x = c THEN NumPackets(c) ELSE unsent[x]
  BY <1>1, <1>4
<1>14. IsInjective(packetizer') /\ \A e, f \in Range(packetizer') : e.cmd = f.cmd => e = f
  BY <1>3, <1>5, <1>12 DEF PacketsExact
<1>15. \A e \in Range(packetizer') : unsent'[e.cmd] = e.left + Made(e.cmd)
  BY <1>2, <1>3, <1>5, <1>10, <1>12, <1>13 DEF PacketsExact
<1>16. \A x \in Cmds \ Cmd(packetizer') : unsent'[x] = Made(x)
  BY <1>9, <1>13 DEF PacketsExact
<1>17. /\ \A e \in Range(dmaPkts) : e.last => e.cmd \notin Cmd(packetizer')
       /\ \A e \in Range(netQueue) : e.last => e.cmd \notin Cmd(packetizer') \cup Cmd(dmaPkts)
  BY <1>8, <1>9 DEF PacketsExact, Cmd
<1>18. Cmd(packetizer') \cup Cmd(dmaPkts) \cup Cmd(netQueue) \subseteq (Sends \cup Rdmas) \cap Inside'
  BY <1>9 DEF PacketsExact
<1> QED
  BY <1>1, <1>7, <1>11, <1>14, <1>15, <1>16, <1>17, <1>18 DEF PacketsExact

(* The next packet is made: of a command with one packet left it is the    *)
(* last, any other command goes to the end of the line.                    *)
LEMMA PacketsMade ==
  ASSUME PacketOK, PacketsExact, ProgressPackets, Inside' = Inside
  PROVE  PacketOK' /\ PacketsExact'
<1> DEFINE cmd == Head(packetizer)
           c == cmd.cmd
           next == [cmd EXCEPT !.left = @ - 1]
           new == [cmd |-> c, last |-> IsLast(cmd)]
           rest == Tail(packetizer)
           made(x) == Count(dmaPkts', x) + Count(netQueue', x)
<1>1. /\ packetizer # <<>> /\ Len(netQueue) + Len(dmaPkts) < NetworkBuffer
      /\ dmaPkts' = Append(dmaPkts, new)
      /\ packetizer' = IF next.left > 0 THEN Append(rest, next) ELSE rest
      /\ netQueue' = netQueue /\ unsent' = unsent
  BY DEF ProgressPackets
<1>2. packetizer \in Seq(Turn) /\ dmaPkts \in Seq(Packet)
      /\ netQueue \in Seq(Packet) /\ unsent \in [Cmds -> 0 .. RdmaPackets]
  BY DEF PacketOK
<1>3. /\ rest \in Seq(Turn) /\ Len(rest) = Len(packetizer) - 1 /\ cmd \in Turn
      /\ Len(packetizer) \in Nat \ {0}
      /\ Range(packetizer) = Range(rest) \cup {cmd}
      /\ IsInjective(packetizer) => IsInjective(rest) /\ cmd \notin Range(rest)
  BY <1>1, <1>2, TailFacts
<1>4. /\ c \in Cmds /\ cmd.left \in 1 .. RdmaPackets
      /\ cmd = [cmd |-> c, left |-> cmd.left]
      /\ next = [cmd |-> c, left |-> cmd.left - 1]
  BY <1>3 DEF Turn
<1>5. new \in Packet /\ new.cmd = c /\ new.last = IsLast(cmd)
  BY <1>4 DEF Packet, IsLast
<1>6. /\ next.cmd = c /\ next.left = cmd.left - 1
      /\ next.left > 0 => next \in Turn
  <2>1. cmd.left - 1 > 0 => cmd.left - 1 \in 1 .. RdmaPackets
    BY <1>4, CommandParams
  <2> QED
    BY <1>4, <2>1 DEF Turn
<1>7. IsLast(cmd) <=> ~ (next.left > 0)
  BY <1>4, <1>6 DEF IsLast
<1> HIDE DEF new, next, rest, cmd, c
<1>8. /\ dmaPkts' \in Seq(Packet) /\ Len(dmaPkts') = Len(dmaPkts) + 1 /\ Len(dmaPkts) \in Nat
      /\ Range(dmaPkts') = Range(dmaPkts) \cup {new}
  BY <1>1, <1>2, <1>5, AppendFacts
<1>9. ASSUME next.left > 0
      PROVE  /\ packetizer' \in Seq(Turn) /\ Len(packetizer') = Len(rest) + 1 /\ Len(rest) \in Nat
             /\ Range(packetizer') = Range(rest) \cup {next}
             /\ IsInjective(rest) /\ next \notin Range(rest) => IsInjective(packetizer')
  <2>1. packetizer' = Append(rest, next) /\ rest \in Seq(Turn) /\ next \in Turn
    BY <1>1, <1>3, <1>6, <1>9
  <2> QED
    BY <2>1, AppendFacts
<1>10. PacketOK'
  <2>1. packetizer' \in Seq(Turn) /\ Len(packetizer') <= Len(packetizer)
    <3>1. CASE next.left > 0
      BY <1>3, <1>9, <3>1
    <3>2. CASE ~ (next.left > 0)
      <4>1. packetizer' = rest
        BY <1>1, <3>2
      <4> QED
        BY <1>3, <4>1
    <3> QED
      BY <3>1, <3>2
  <2>2. Len(netQueue) \in Nat /\ Len(packetizer') \in Nat
    BY <1>2, <2>1
  <2>3. Len(packetizer') <= NumParallelCmd
    BY <1>3, <2>1, <2>2, CommandParams DEF PacketOK
  <2>4. Len(dmaPkts') + Len(netQueue') <= NetworkBuffer
    BY <1>1, <1>8, <2>2, CommandParams
  <2> QED
    BY <1>1, <1>2, <1>8, <2>1, <2>3, <2>4 DEF PacketOK
<1>11. /\ \A e \in Range(rest) : e.cmd # c
       /\ IsInjective(rest) /\ \A e, f \in Range(rest) : e.cmd = f.cmd => e = f
  BY <1>3 DEF PacketsExact, c
<1>12. Cmd(packetizer) = Cmd(rest) \cup {c} /\ c \notin Cmd(rest)
  BY <1>3, <1>11 DEF Cmd, c
<1>13. /\ IsInjective(packetizer') /\ \A e, f \in Range(packetizer') : e.cmd = f.cmd => e = f
       /\ Cmd(packetizer') = IF next.left > 0 THEN Cmd(packetizer) ELSE Cmd(rest)
  <2>1. CASE next.left > 0
    <3>1. next \notin Range(rest) /\ next.cmd = c
      BY <1>6, <1>11
    <3>2. IsInjective(packetizer') /\ Range(packetizer') = Range(rest) \cup {next}
      BY <1>9, <1>11, <2>1, <3>1
    <3>3. \A e, f \in Range(packetizer') : e.cmd = f.cmd => e = f
      BY <1>11, <3>1, <3>2
    <3>4. Cmd(packetizer') = Cmd(rest) \cup {c}
      BY <3>1, <3>2 DEF Cmd
    <3> QED
      BY <1>12, <2>1, <3>2, <3>3, <3>4
  <2>2. CASE ~ (next.left > 0)
    BY <1>1, <1>11, <2>2
  <2> QED
    BY <2>1, <2>2
<1>14. Cmd(dmaPkts') = Cmd(dmaPkts) \cup {c}
  BY <1>5, <1>8 DEF Cmd
<1>15. \A x : Made(x) \in Nat /\ made(x) = IF x = c THEN Made(x) + 1 ELSE Made(x)
  <2>1. \A x : Count(dmaPkts, x) \in Nat /\ Count(netQueue, x) \in Nat
    BY <1>2, CountIsFinite
  <2>2. \A x : Count(Append(dmaPkts, new), x) = IF new.cmd = x THEN Count(dmaPkts, x) + 1
                                                               ELSE Count(dmaPkts, x)
    BY <1>2, <1>5, CountAppend
  <2> QED
    BY <1>1, <1>5, <2>1, <2>2 DEF Made
<1>15a. \A x : made(x) = Made(x)'
  BY DEF Made
<1> HIDE DEF made
<1>16. unsent[c] = cmd.left + Made(c)
  BY <1>3 DEF PacketsExact, c
<1>17. \A e \in Range(packetizer') : unsent[e.cmd] = e.left + made(e.cmd)
  <2>1. \A e \in Range(rest) : unsent[e.cmd] = e.left + made(e.cmd)
    BY <1>3, <1>11, <1>15 DEF PacketsExact
  <2>2. unsent[next.cmd] = next.left + made(next.cmd)
    <3>1. next.cmd = c /\ next.left = cmd.left - 1 /\ cmd.left \in Nat
      BY <1>4, <1>6
    <3>2. Made(c) \in Nat /\ made(c) = Made(c) + 1
      BY <1>15
    <3> QED
      BY <1>16, <3>1, <3>2
  <2>3. CASE next.left > 0
    BY <1>9, <2>1, <2>2, <2>3
  <2>4. CASE ~ (next.left > 0)
    <3>1. packetizer' = rest
      BY <1>1, <2>4
    <3> QED
      BY <2>1, <3>1
  <2> QED
    BY <2>3, <2>4
<1>18. \A x \in Cmds \ Cmd(packetizer') : unsent[x] = made(x)
  <2>1. ASSUME NEW x \in Cmds \ Cmd(packetizer')
        PROVE  unsent[x] = made(x)
    <3>1. CASE x = c
      <4>1. ~ (next.left > 0)
        BY <1>12, <1>13, <2>1, <3>1
      <4>2. cmd.left = 1
        BY <1>7, <4>1 DEF IsLast
      <4> QED
        BY <1>15, <1>16, <3>1, <4>2
    <3>2. CASE x # c
      BY <1>12, <1>13, <1>15, <2>1, <3>2 DEF PacketsExact
    <3> QED
      BY <3>1, <3>2
  <2> QED
    BY <2>1
<1>19. \A e \in Range(dmaPkts') : e.last => e.cmd \notin Cmd(packetizer')
  BY <1>5, <1>7, <1>8, <1>12, <1>13 DEF PacketsExact
<1>20. \A e \in Range(netQueue) : e.last => e.cmd \notin Cmd(packetizer') \cup Cmd(dmaPkts')
  BY <1>12, <1>13, <1>14 DEF PacketsExact
<1>21. NoneAfter(dmaPkts')
  <2>1. \A e \in Range(dmaPkts) : e.last => e.cmd # new.cmd
    BY <1>5, <1>12 DEF PacketsExact
  <2> QED
    BY <1>1, <1>2, <1>5, <2>1, NoneAfterAppend DEF PacketsExact
<1>22. Cmd(packetizer') \cup Cmd(dmaPkts') \cup Cmd(netQueue) \subseteq (Sends \cup Rdmas) \cap Inside'
  BY <1>12, <1>13, <1>14 DEF PacketsExact
<1> QED
  BY <1>1, <1>10, <1>13, <1>15a, <1>17, <1>18, <1>19, <1>20, <1>21, <1>22 DEF PacketsExact

(* The data of the oldest packet is complete.                              *)
LEMMA PacketsFetched ==
  ASSUME PacketOK, PacketsExact, ProgressReadResponses, Inside' = Inside
  PROVE  PacketOK' /\ PacketsExact'
<1> DEFINE h == Head(dmaPkts)
           rest == Tail(dmaPkts)
           made(x) == Count(dmaPkts', x) + Count(netQueue', x)
<1>1. /\ dmaPkts # <<>> /\ dmaPkts' = rest /\ netQueue' = Append(netQueue, h)
      /\ packetizer' = packetizer /\ unsent' = unsent
  BY DEF ProgressReadResponses
<1>2. dmaPkts \in Seq(Packet) /\ netQueue \in Seq(Packet)
  BY DEF PacketOK
<1>3. /\ rest \in Seq(Packet) /\ Len(rest) = Len(dmaPkts) - 1 /\ Len(dmaPkts) \in Nat \ {0}
      /\ h \in Packet /\ Range(dmaPkts) = Range(rest) \cup {h}
  BY <1>1, <1>2, TailFacts
<1>4. /\ Append(netQueue, h) \in Seq(Packet) /\ Len(Append(netQueue, h)) = Len(netQueue) + 1
      /\ Len(netQueue) \in Nat /\ Range(Append(netQueue, h)) = Range(netQueue) \cup {h}
  BY <1>2, <1>3, AppendFacts
<1>5. NoneAfter(rest) /\ (h.last => h.cmd \notin Cmd(rest))
  BY <1>1, <1>2, NoneAfterTail DEF PacketsExact
<1>6. \A x : made(x) = Made(x)'
  BY DEF Made
<1>7. \A x : made(x) = Made(x)
  <2>1. \A x : Count(rest, x) \in Nat /\ Count(netQueue, x) \in Nat
    BY <1>2, <1>3, CountIsFinite
  <2>2. \A x : Count(dmaPkts, x) = IF h.cmd = x THEN Count(rest, x) + 1 ELSE Count(rest, x)
    BY <1>1, <1>2, CountTail
  <2>3. \A x : Count(Append(netQueue, h), x) = IF h.cmd = x THEN Count(netQueue, x) + 1
                                                            ELSE Count(netQueue, x)
    BY <1>2, <1>3, CountAppend
  <2> QED
    BY <1>1, <2>1, <2>2, <2>3 DEF Made
<1> HIDE DEF made, h, rest
<1>8. Cmd(dmaPkts) = Cmd(dmaPkts') \cup {h.cmd} /\ Cmd(netQueue') = Cmd(netQueue) \cup {h.cmd}
  BY <1>1, <1>3, <1>4 DEF Cmd
<1>9. PacketOK'
  <2>1. Len(dmaPkts') + Len(netQueue') <= NetworkBuffer
    <3> DEFINE m == Len(dmaPkts')
               n == Len(netQueue')
    <3>1. m = Len(dmaPkts) - 1 /\ n = Len(netQueue) + 1
      BY <1>1, <1>3, <1>4
    <3> HIDE DEF m, n
    <3>2. m + n <= NetworkBuffer
      BY <1>3, <1>4, <3>1, CommandParams DEF PacketOK
    <3> QED
      BY <3>2 DEF m, n
  <2> QED
    BY <1>1, <1>3, <1>4, <2>1 DEF PacketOK
<1>10. \A e \in Range(dmaPkts') : e.last => e.cmd \notin Cmd(packetizer)
  BY <1>1, <1>3 DEF PacketsExact
<1>11. \A e \in Range(netQueue') : e.last => e.cmd \notin Cmd(packetizer) \cup Cmd(dmaPkts')
  <2>1. h.last => h.cmd \notin Cmd(packetizer)
    BY <1>3 DEF PacketsExact
  <2>2. \A e \in Range(netQueue) : e.last => e.cmd \notin Cmd(packetizer) \cup Cmd(dmaPkts')
    BY <1>8 DEF PacketsExact
  <2> QED
    BY <1>1, <1>4, <1>5, <2>1, <2>2
<1>12. NoneAfter(netQueue')
  <2>1. \A e \in Range(netQueue) : e.last => e.cmd # h.cmd
    BY <1>8 DEF PacketsExact
  <2> QED
    BY <1>1, <1>2, <1>3, <2>1, NoneAfterAppend DEF PacketsExact
<1>13. /\ \A e \in Range(packetizer) : unsent[e.cmd] = e.left + made(e.cmd)
       /\ \A c \in Cmds \ Cmd(packetizer) : unsent[c] = made(c)
  BY <1>7 DEF PacketsExact
<1>14. Cmd(packetizer) \cup Cmd(dmaPkts') \cup Cmd(netQueue') \subseteq (Sends \cup Rdmas) \cap Inside'
  BY <1>8 DEF PacketsExact
<1> QED
  BY <1>1, <1>5, <1>6, <1>9, <1>10, <1>11, <1>12, <1>13, <1>14 DEF PacketsExact

(* A packet leaves: it was one of those counted, and when it is marked as  *)
(* the last one it is the only one.                                        *)
LEMMA PacketLeaves ==
  ASSUME PacketOK, PacketsExact, netQueue # <<>>
  PROVE  LET pkt == Head(netQueue)
         IN  /\ pkt.cmd \in (Sends \cup Rdmas) \cap Inside /\ pkt.cmd \in Cmds
             /\ pkt.last \in BOOLEAN /\ pkt \in Packet
             /\ unsent[pkt.cmd] \in 1 .. RdmaPackets
             /\ pkt.last => /\ unsent[pkt.cmd] = 1
                            /\ pkt.cmd \notin Cmd(packetizer) \cup Cmd(dmaPkts)
                                              \cup Cmd(Tail(netQueue))
<1> DEFINE pkt == Head(netQueue)
           c == pkt.cmd
           rest == Tail(netQueue)
<1>1. dmaPkts \in Seq(Packet) /\ netQueue \in Seq(Packet) /\ unsent \in [Cmds -> 0 .. RdmaPackets]
      /\ packetizer \in Seq(Turn)
  BY DEF PacketOK
<1>2. /\ rest \in Seq(Packet) /\ pkt \in Packet /\ Range(netQueue) = Range(rest) \cup {pkt}
  BY <1>1, TailFacts
<1>3. c \in Cmds /\ pkt.last \in BOOLEAN
  BY <1>2 DEF Packet
<1>4. c \in (Sends \cup Rdmas) \cap Inside
  BY <1>2 DEF PacketsExact, Cmd
<1>5. NoneAfter(rest) /\ (pkt.last => c \notin Cmd(rest))
  BY <1>1, NoneAfterTail DEF PacketsExact
<1>6. Count(netQueue, c) = Count(rest, c) + 1
  BY <1>1, CountTail
<1>7. /\ Count(rest, c) \in Nat /\ Count(dmaPkts, c) \in Nat
      /\ Count(rest, c) = 0 <=> c \notin Cmd(rest)
      /\ Count(dmaPkts, c) = 0 <=> c \notin Cmd(dmaPkts)
  BY <1>1, <1>2, CountIsFinite
<1> HIDE DEF pkt, c, rest
<1>8. Made(c) >= 1 /\ Made(c) \in Nat
  BY <1>6, <1>7 DEF Made
<1>9. unsent[c] \in 1 .. RdmaPackets
  <2>1. unsent[c] >= 1
    <3>1. CASE c \in Cmd(packetizer)
      <4>1. PICK e \in Range(packetizer) : e.cmd = c
        BY <3>1 DEF Cmd
      <4>2. e \in Turn
        BY <1>1 DEF Range
      <4>3. e.left \in Nat
        BY <4>2 DEF Turn
      <4>4. unsent[c] = e.left + Made(c)
        BY <4>1 DEF PacketsExact
      <4> QED
        BY <1>8, <4>3, <4>4
    <3>2. CASE c \notin Cmd(packetizer)
      <4>1. unsent[c] = Made(c)
        BY <1>3, <3>2 DEF PacketsExact
      <4> QED
        BY <1>8, <4>1
    <3> QED
      BY <3>1, <3>2
  <2>2. unsent[c] \in 0 .. RdmaPackets
    BY <1>1, <1>3
  <2> QED
    BY <2>1, <2>2, CommandParams
<1>10. ASSUME pkt.last
       PROVE  /\ unsent[c] = 1 /\ c \notin Cmd(packetizer) \cup Cmd(dmaPkts) \cup Cmd(rest)
  <2>1. c \notin Cmd(packetizer) \cup Cmd(dmaPkts)
    BY <1>2, <1>10 DEF PacketsExact, c
  <2>2. c \notin Cmd(rest)
    BY <1>5, <1>10
  <2>3. unsent[c] = Made(c)
    BY <1>3, <2>1 DEF PacketsExact
  <2> QED
    BY <1>6, <1>7, <2>1, <2>2, <2>3 DEF Made
<1> QED
  BY <1>2, <1>3, <1>4, <1>9, <1>10 DEF pkt, c, rest

(* A packet leaves the network queue; the command is answered with its     *)
(* last one.                                                               *)
LEMMA PacketsSent ==
  ASSUME PacketOK, PacketsExact, ProgressNetqueue,
         IF Head(netQueue).last THEN Inside' = Inside \ {Head(netQueue).cmd} ELSE Inside' = Inside
  PROVE  PacketOK' /\ PacketsExact'
<1> DEFINE pkt == Head(netQueue)
           c == pkt.cmd
           rest == Tail(netQueue)
           made(x) == Count(dmaPkts', x) + Count(netQueue', x)
<1>1. /\ netQueue # <<>> /\ netQueue' = rest /\ unsent' = [unsent EXCEPT ![c] = @ - 1]
      /\ packetizer' = packetizer /\ dmaPkts' = dmaPkts
  BY DEF ProgressNetqueue
<1>2. dmaPkts \in Seq(Packet) /\ netQueue \in Seq(Packet) /\ unsent \in [Cmds -> 0 .. RdmaPackets]
  BY DEF PacketOK
<1>3. /\ rest \in Seq(Packet) /\ Len(rest) = Len(netQueue) - 1 /\ Len(netQueue) \in Nat \ {0}
      /\ Range(netQueue) = Range(rest) \cup {pkt}
  BY <1>1, <1>2, TailFacts
<1>4. /\ c \in (Sends \cup Rdmas) \cap Inside /\ c \in Cmds /\ unsent[c] \in 1 .. RdmaPackets
      /\ pkt.last => c \notin Cmd(packetizer) \cup Cmd(dmaPkts) \cup Cmd(rest)
  BY <1>1, PacketLeaves
<1>5. NoneAfter(rest)
  BY <1>1, <1>2, NoneAfterTail DEF PacketsExact
<1>6. \A x : made(x) = Made(x)'
  BY DEF Made
<1>7. \A x : made(x) \in Nat /\ Made(x) = IF x = c THEN made(x) + 1 ELSE made(x)
  <2>1. \A x : Count(rest, x) \in Nat /\ Count(dmaPkts, x) \in Nat
    BY <1>2, <1>3, CountIsFinite
  <2>2. \A x : Count(netQueue, x) = IF c = x THEN Count(rest, x) + 1 ELSE Count(rest, x)
    BY <1>1, <1>2, CountTail
  <2> QED
    BY <1>1, <2>1, <2>2 DEF Made
<1> HIDE DEF made, rest, pkt, c
<1>8. \A x \in Cmds : unsent'[x] = IF x = c THEN unsent[x] - 1 ELSE unsent[x]
  BY <1>1, <1>2
<1>9. PacketOK'
  <2>1. unsent[c] - 1 \in 0 .. RdmaPackets
    BY <1>4, CommandParams
  <2>2. unsent' \in [Cmds -> 0 .. RdmaPackets]
    BY <1>1, <1>2, <2>1
  <2>3. Len(dmaPkts') + Len(netQueue') <= NetworkBuffer
    <3>1. Len(dmaPkts) \in Nat
      BY <1>2
    <3> QED
      BY <1>1, <1>3, <3>1, CommandParams DEF PacketOK
  <2> QED
    BY <1>1, <1>2, <1>3, <2>2, <2>3 DEF PacketOK
<1>10. Cmd(netQueue') \subseteq Cmd(netQueue)
  BY <1>1, <1>3 DEF Cmd
<1>11. Cmd(packetizer) \cup Cmd(dmaPkts) \cup Cmd(netQueue') \subseteq (Sends \cup Rdmas) \cap Inside'
  <2>1. Cmd(packetizer) \cup Cmd(dmaPkts) \cup Cmd(netQueue') \subseteq (Sends \cup Rdmas) \cap Inside
    BY <1>10 DEF PacketsExact
  <2>2. CASE pkt.last
    BY <1>1, <1>4, <2>1, <2>2 DEF pkt, c
  <2>3. CASE ~ pkt.last
    BY <2>1, <2>3 DEF pkt, c
  <2> QED
    BY <2>2, <2>3
<1>12. \A e \in Range(packetizer) : unsent'[e.cmd] = e.left + made(e.cmd)
  <2>1. ASSUME NEW e \in Range(packetizer)
        PROVE  unsent'[e.cmd] = e.left + made(e.cmd)
    <3>1. e \in Turn
      BY DEF Range, PacketOK
    <3>2. e.cmd \in Cmds /\ e.left \in Nat
      BY <3>1 DEF Turn
    <3>3. unsent[e.cmd] = e.left + Made(e.cmd)
      BY DEF PacketsExact
    <3> QED
      BY <1>7, <1>8, <3>2, <3>3
  <2> QED
    BY <2>1
<1>13. \A x \in Cmds \ Cmd(packetizer) : unsent'[x] = made(x)
  <2>1. \A x \in Cmds \ Cmd(packetizer) : unsent[x] = Made(x)
    BY DEF PacketsExact
  <2> QED
    BY <1>7, <1>8, <2>1
<1>14. \A e \in Range(netQueue') : e.last => e.cmd \notin Cmd(packetizer) \cup Cmd(dmaPkts)
  BY <1>1, <1>3 DEF PacketsExact
<1> QED
  BY <1>1, <1>5, <1>6, <1>9, <1>11, <1>12, <1>13, <1>14 DEF PacketsExact

-----------------------------------------------------------------------------
(* The invariant, interface by interface.                                  *)
HdQueues == {"aw", "w", "writeIds", "ar", "readIds"}
Pair == [addr : Cmds, data : Cmds]
HdOK ==
  /\ hd \in [HdQueues -> Seq(Cmds)]
  /\ \A q \in {"aw", "w", "ar"} : Len(hd[q]) <= AxDepth
  /\ \A q \in {"writeIds", "readIds"} : Len(hd[q]) <= IdDepth
  /\ host \in [aw : Seq(Cmds), writes : Seq(Pair), reads : Seq(Cmds), b : Nat, r : Nat]
HdInv == HdOK /\ WritesExact /\ ReadsExact
EdmaOK ==
  /\ ids \in [Dirs -> Seq(Cmds)] /\ \A d \in Dirs : Len(ids[d]) <= RespFIFODepth
  /\ toPop \in [Dirs -> Nat] /\ dma \in [Dirs -> Seq(Cmds)]
EdmaInv == EdmaOK /\ TransfersExact
PacketInv == PacketOK /\ PacketsExact

(* The invariant, by the parts of the system it is about.                  *)
LEMMA Parts ==
  /\ IInv <=> UnitInv /\ HdInv /\ EdmaInv /\ PacketInv
  /\ IInv' <=> UnitInv' /\ HdInv' /\ EdmaInv' /\ PacketInv'
<1>1. TypeOK <=> UnitOK /\ HdOK /\ EdmaOK /\ PacketOK
  BY Zenon DEF TypeOK, UnitOK, HdOK, EdmaOK, PacketOK, HdQueues, Pair, Packet, Turn
<1>2. TypeOK' <=> UnitOK' /\ HdOK' /\ EdmaOK' /\ PacketOK'
  BY Zenon DEF TypeOK, UnitOK, HdOK, EdmaOK, PacketOK, HdQueues, Pair, Packet, Turn
<1> QED
  BY <1>1, <1>2 DEF IInv, UnitInv, HdInv, EdmaInv, PacketInv

(* An interface that takes no step keeps its invariant, whatever enters or *)
(* leaves another one.                                                     *)
LEMMA HdKept ==
  ASSUME HdInv, UNCHANGED hdVars, (Writes \cup Reads) \cap Inside \subseteq Inside',
         effected \cap Inside \subseteq effected'
  PROVE  HdInv'
<1>1. hd' = hd /\ host' = host
  BY DEF hdVars
<1>2. HdOK'
  BY <1>1 DEF HdInv, HdOK
<1>3. hd["writeIds"] \in Seq(Cmds) /\ hd["readIds"] \in Seq(Cmds) /\ host.b \in Nat /\ host.r \in Nat
  BY DEF HdInv, HdOK, HdQueues
<1>4. WritesAligned(hd["writeIds"], hd["aw"], hd["w"], host.aw, host.writes, host.b, Inside', effected')
  BY <1>3, WritesKept DEF HdInv, WritesExact
<1>5. ReadsAligned(hd["readIds"], hd["ar"], host.reads, host.r, Inside', effected')
  BY <1>3, ReadsKept DEF HdInv, ReadsExact
<1> QED
  BY <1>1, <1>2, <1>4, <1>5 DEF HdInv, WritesExact, ReadsExact

(* A step that leaves the DMA target alone keeps its part,                 *)
LEMMA EdmaKept ==
  ASSUME EdmaInv, UNCHANGED edmaVars, (ToHost \cup FromHost) \cap Inside \subseteq Inside',
         effected \cap Inside \subseteq effected'
  PROVE  EdmaInv'
<1>1. ids' = ids /\ toPop' = toPop /\ dma' = dma
  BY DEF edmaVars
<1>2. EdmaOK'
  BY <1>1 DEF EdmaInv, EdmaOK
<1>3. ASSUME NEW d \in Dirs
      PROVE  MovesAligned(Moves(d), ids[d], dma[d], toPop[d], Inside', effected')
  <2>1. ids[d] \in Seq(Cmds) /\ toPop[d] \in Nat
    BY DEF EdmaInv, EdmaOK
  <2>2. Moves(d) \cap Inside \subseteq Inside'
    BY DEF Moves
  <2> QED
    BY <2>1, <2>2, MovesKept DEF EdmaInv, TransfersExact
<1> QED
  BY <1>1, <1>2, <1>3 DEF EdmaInv, TransfersExact

(* and one that leaves the NIC model alone keeps that.                     *)
LEMMA PacketInvKept ==
  ASSUME PacketInv, UNCHANGED nicVars, (Sends \cup Rdmas) \cap Inside \subseteq Inside'
  PROVE  PacketInv'
BY PacketsKept DEF PacketInv

(* The steps of the unit itself, and those of no interface.                *)
LEMMA StepIssue ==
  ASSUME IInv, NEW c \in Cmds, NEW k \in Clusters, Issue(c, k)
  PROVE  IInv'
<1>1. UnitInv' /\ Inside' = Inside
  BY Parts, UnitIssue
<1>2. UNCHANGED <<hdVars, edmaVars, nicVars, effected>>
  BY DEF Issue
<1> QED
  BY <1>1, <1>2, Parts, HdKept, EdmaKept, PacketInvKept

(* The oldest answer of an interface is taken: its command is answered.    *)
LEMMA StepAnswer ==
  ASSUME IInv, NEW i \in Interfaces, Answer(i)
  PROVE  IInv'
<1> DEFINE c == Head(respBuffer[i])
<1>1. UnitInv' /\ Inside' = Inside /\ c \notin Inside /\ effected' = effected \ {c}
  BY Parts, UnitAnswer
<1>2. UNCHANGED <<hdVars, edmaVars, nicVars>>
  BY DEF Answer
<1>3. effected \cap Inside \subseteq effected'
  BY <1>1
<1> QED
  BY <1>1, <1>2, <1>3, Parts, HdKept, EdmaKept, PacketInvKept

(* Nothing happens.                                                        *)
LEMMA StepStutter ==
  ASSUME IInv, UNCHANGED vars
  PROVE  IInv'
<1>1. UNCHANGED <<unitVars, respBuffer, busy>> /\ effected' = effected
      /\ UNCHANGED <<hdVars, edmaVars, nicVars>>
  BY DEF vars
<1>2. UnitInv' /\ Inside' = Inside
  BY <1>1, Parts, UnitStays DEF UnitInv, UnitOK
<1> QED
  BY <1>1, <1>2, Parts, HdKept, EdmaKept, PacketInvKept

(* The host interface.                                                     *)
LEMMA HdTypes ==
  ASSUME HdInv
  PROVE  /\ \A q \in HdQueues : hd[q] \in Seq(Cmds) /\ Len(hd[q]) \in Nat
         /\ DOMAIN hd = HdQueues
         /\ host.aw \in Seq(Cmds) /\ host.reads \in Seq(Cmds) /\ host.writes \in Seq(Pair)
         /\ host.b \in Nat /\ host.r \in Nat
         /\ host = [aw |-> host.aw, writes |-> host.writes, reads |-> host.reads,
                    b |-> host.b, r |-> host.r]
         /\ WritesAligned(hd["writeIds"], hd["aw"], hd["w"], host.aw, host.writes, host.b,
                          Inside, effected)
         /\ ReadsAligned(hd["readIds"], hd["ar"], host.reads, host.r, Inside, effected)
<1>1. \A q \in HdQueues : hd[q] \in Seq(Cmds)
  BY DEF HdInv, HdOK
<1>2. \A q \in HdQueues : Len(hd[q]) \in Nat
  BY <1>1
<1>3. /\ host.aw \in Seq(Cmds) /\ host.reads \in Seq(Cmds) /\ host.writes \in Seq(Pair)
      /\ host.b \in Nat /\ host.r \in Nat
      /\ host = [aw |-> host.aw, writes |-> host.writes, reads |-> host.reads,
                 b |-> host.b, r |-> host.r]
  BY DEF HdInv, HdOK
<1> QED
  BY <1>1, <1>2, <1>3 DEF HdInv, HdOK, WritesExact, ReadsExact

(* A write goes to the host target.                                        *)
LEMMA StepDispatchWrite ==
  ASSUME IInv, NEW k \in Clusters, DispatchWrite(k)
  PROVE  IInv'
<1> DEFINE c == Head(spill[k])
<1>1. /\ Offered(k, Writes) /\ Accepted(k)
      /\ HdRoom("aw", AxDepth) /\ HdRoom("w", AxDepth) /\ HdRoom("writeIds", IdDepth)
      /\ hd' = Push(Push(Push(hd, "aw", c), "w", c), "writeIds", c)
      /\ respBuffer' = respBuffer /\ host' = host /\ busy' = busy /\ effected' = effected
      /\ UNCHANGED edmaVars /\ UNCHANGED nicVars
  BY DEF DispatchWrite
<1>2. UnitInv' /\ c \notin Inside /\ c \in Writes /\ c \in Cmds /\ Inside' = Inside \cup {c}
  BY <1>1, Parts, UnitAccept
<1> HIDE DEF c
<1>3. /\ \A q \in HdQueues : hd[q] \in Seq(Cmds) /\ Len(hd[q]) \in Nat
      /\ DOMAIN hd = HdQueues /\ host.writes \in Seq(Pair) /\ host.aw \in Seq(Cmds)
      /\ host.b \in Nat /\ host.r \in Nat
      /\ WritesAligned(hd["writeIds"], hd["aw"], hd["w"], host.aw, host.writes, host.b,
                       Inside, effected)
      /\ ReadsAligned(hd["readIds"], hd["ar"], host.reads, host.r, Inside, effected)
  BY Parts, HdTypes
<1>4. /\ hd' = [hd EXCEPT !["aw"] = Append(@, c), !["w"] = Append(@, c), !["writeIds"] = Append(@, c)]
      /\ DOMAIN hd' = HdQueues
      /\ hd'["aw"] = Append(hd["aw"], c) /\ hd'["w"] = Append(hd["w"], c)
      /\ hd'["writeIds"] = Append(hd["writeIds"], c)
      /\ hd'["ar"] = hd["ar"] /\ hd'["readIds"] = hd["readIds"]
  BY <1>1, <1>3 DEF Push, HdQueues
<1>5. \A s \in Seq(Cmds) : /\ Append(s, c) \in Seq(Cmds) /\ Len(Append(s, c)) = Len(s) + 1
  BY <1>2, AppendFacts
<1>6. HdOK'
  <2>1. hd' \in [HdQueues -> Seq(Cmds)]
    BY <1>1, <1>3, <1>4, <1>5 DEF HdQueues
  <2>2. /\ Len(hd["aw"]) < AxDepth /\ Len(hd["w"]) < AxDepth /\ Len(hd["writeIds"]) < IdDepth
        /\ Len(hd["ar"]) <= AxDepth /\ Len(hd["readIds"]) <= IdDepth
    BY <1>1, Parts DEF HdRoom, HdInv, HdOK
  <2>3. \A m \in Nat, n \in Nat : m < n => m + 1 <= n
    OBVIOUS
  <2>4. AxDepth \in Nat /\ IdDepth \in Nat
    BY CommandParams
  <2>5. /\ Len(hd'["aw"]) <= AxDepth /\ Len(hd'["w"]) <= AxDepth
        /\ Len(hd'["writeIds"]) <= IdDepth
    BY <1>3, <1>4, <1>5, <2>2, <2>3, <2>4, Zenon DEF HdQueues
  <2> QED
    BY <1>1, <1>4, <2>1, <2>2, <2>5, Parts DEF HdInv, HdOK
<1>7. WritesExact'
  <2>1. WritesAligned(Append(hd["writeIds"], c), Append(hd["aw"], c), Append(hd["w"], c), host.aw,
                      host.writes, host.b, Inside \cup {c}, effected)
    BY <1>2, <1>3, WritesEnter DEF HdQueues
  <2> QED
    BY <1>1, <1>2, <1>4, <2>1 DEF WritesExact
<1>8. ReadsExact'
  <2>1. ReadsAligned(hd["readIds"], hd["ar"], host.reads, host.r, Inside \cup {c}, effected)
    BY <1>3, ReadsKept DEF HdQueues
  <2> QED
    BY <1>1, <1>2, <1>4, <2>1 DEF ReadsExact
<1>9. EdmaInv' /\ PacketInv'
  BY <1>1, <1>2, Parts, EdmaKept, PacketInvKept
<1> QED
  BY <1>2, <1>6, <1>7, <1>8, <1>9, Parts DEF HdInv

(* A read goes to the host target.                                         *)
LEMMA StepDispatchRead ==
  ASSUME IInv, NEW k \in Clusters, DispatchRead(k)
  PROVE  IInv'
<1> DEFINE c == Head(spill[k])
<1>1. /\ Offered(k, Reads) /\ Accepted(k)
      /\ HdRoom("ar", AxDepth) /\ HdRoom("readIds", IdDepth)
      /\ hd' = Push(Push(hd, "ar", c), "readIds", c)
      /\ respBuffer' = respBuffer /\ host' = host /\ busy' = busy /\ effected' = effected
      /\ UNCHANGED edmaVars /\ UNCHANGED nicVars
  BY DEF DispatchRead
<1>2. UnitInv' /\ c \notin Inside /\ c \in Reads /\ c \in Cmds /\ Inside' = Inside \cup {c}
  BY <1>1, Parts, UnitAccept
<1> HIDE DEF c
<1>3. /\ \A q \in HdQueues : hd[q] \in Seq(Cmds) /\ Len(hd[q]) \in Nat
      /\ DOMAIN hd = HdQueues /\ host.reads \in Seq(Cmds) /\ host.b \in Nat /\ host.r \in Nat
      /\ WritesAligned(hd["writeIds"], hd["aw"], hd["w"], host.aw, host.writes, host.b,
                       Inside, effected)
      /\ ReadsAligned(hd["readIds"], hd["ar"], host.reads, host.r, Inside, effected)
  BY Parts, HdTypes
<1>4. /\ DOMAIN hd' = HdQueues
      /\ hd'["ar"] = Append(hd["ar"], c) /\ hd'["readIds"] = Append(hd["readIds"], c)
      /\ hd'["aw"] = hd["aw"] /\ hd'["w"] = hd["w"] /\ hd'["writeIds"] = hd["writeIds"]
      /\ hd' = [hd EXCEPT !["ar"] = Append(@, c), !["readIds"] = Append(@, c)]
  BY <1>1, <1>3 DEF Push, HdQueues
<1>5. \A s \in Seq(Cmds) : /\ Append(s, c) \in Seq(Cmds) /\ Len(Append(s, c)) = Len(s) + 1
  BY <1>2, AppendFacts
<1>6. HdOK'
  <2>1. hd' \in [HdQueues -> Seq(Cmds)]
    BY <1>1, <1>3, <1>4, <1>5 DEF HdQueues
  <2>2. /\ Len(hd["ar"]) < AxDepth /\ Len(hd["readIds"]) < IdDepth
        /\ Len(hd["aw"]) <= AxDepth /\ Len(hd["w"]) <= AxDepth /\ Len(hd["writeIds"]) <= IdDepth
    BY <1>1, Parts DEF HdRoom, HdInv, HdOK
  <2>3. \A m \in Nat, n \in Nat : m < n => m + 1 <= n
    OBVIOUS
  <2>4. AxDepth \in Nat /\ IdDepth \in Nat
    BY CommandParams
  <2>5. Len(hd'["ar"]) <= AxDepth /\ Len(hd'["readIds"]) <= IdDepth
    BY <1>3, <1>4, <1>5, <2>2, <2>3, <2>4, Zenon DEF HdQueues
  <2> QED
    BY <1>1, <1>4, <2>1, <2>2, <2>5, Parts DEF HdInv, HdOK
<1>7. ReadsExact'
  <2>1. ReadsAligned(Append(hd["readIds"], c), Append(hd["ar"], c), host.reads, host.r,
                     Inside \cup {c}, effected)
    BY <1>2, <1>3, ReadsSteps DEF HdQueues
  <2> QED
    BY <1>1, <1>2, <1>4, <2>1 DEF ReadsExact
<1>8. WritesExact'
  <2>1. WritesAligned(hd["writeIds"], hd["aw"], hd["w"], host.aw, host.writes, host.b,
                      Inside \cup {c}, effected)
    BY <1>3, WritesKept DEF HdQueues
  <2> QED
    BY <1>1, <1>2, <1>4, <2>1 DEF WritesExact
<1>9. EdmaInv' /\ PacketInv'
  BY <1>1, <1>2, Parts, EdmaKept, PacketInvKept
<1> QED
  BY <1>2, <1>6, <1>7, <1>8, <1>9, Parts DEF HdInv

(* The queues from which the host takes only get shorter.                  *)
LEMMA HdPop ==
  ASSUME HdOK, NEW q \in HdQueues, hd[q] # <<>>, hd' = Pop(hd, q),
         host' \in [aw : Seq(Cmds), writes : Seq(Pair), reads : Seq(Cmds), b : Nat, r : Nat]
  PROVE  /\ HdOK' /\ Head(hd[q]) \in Cmds
         /\ \A p \in HdQueues : hd'[p] = IF p = q THEN Tail(hd[q]) ELSE hd[p]
<1>1. hd \in [HdQueues -> Seq(Cmds)] /\ hd[q] \in Seq(Cmds)
  BY DEF HdOK
<1>2. /\ Tail(hd[q]) \in Seq(Cmds) /\ Len(Tail(hd[q])) = Len(hd[q]) - 1
      /\ Len(hd[q]) \in Nat \ {0} /\ Head(hd[q]) \in Cmds
  BY <1>1, TailFacts
<1>3. \A p \in HdQueues : hd'[p] = IF p = q THEN Tail(hd[q]) ELSE hd[p]
  BY <1>1 DEF Pop
<1>4. hd' \in [HdQueues -> Seq(Cmds)]
  BY <1>1, <1>2 DEF Pop
<1>5. \A n \in Nat : Len(hd[q]) <= n => Len(Tail(hd[q])) <= n
  BY <1>2
<1>6. AxDepth \in Nat /\ IdDepth \in Nat
  BY CommandParams
<1>7. /\ \A p \in {"aw", "w", "ar"} : Len(hd'[p]) <= AxDepth
      /\ \A p \in {"writeIds", "readIds"} : Len(hd'[p]) <= IdDepth
  BY <1>3, <1>5, <1>6, Zenon DEF HdOK, HdQueues
<1> QED
  BY <1>2, <1>3, <1>4, <1>7 DEF HdOK

(* What is left to show of a step inside the host interface, one that      *)
(* answers nothing.                                                        *)
LEMMA StepHost ==
  ASSUME IInv, HdUnchanged, respBuffer' = respBuffer, HdOK',
         effected \subseteq effected', effected' \subseteq busy,
         WritesAligned(hd'["writeIds"], hd'["aw"], hd'["w"], host'.aw, host'.writes, host'.b,
                       Inside, effected'),
         ReadsAligned(hd'["readIds"], hd'["ar"], host'.reads, host'.r, Inside, effected')
  PROVE  IInv'
<1>1. UNCHANGED <<unitVars, respBuffer, busy>> /\ UNCHANGED edmaVars /\ UNCHANGED nicVars
  BY DEF HdUnchanged
<1>2. UnitInv' /\ Inside' = Inside
  BY <1>1, Parts, UnitStays
<1>3. EdmaInv' /\ PacketInv'
  BY <1>1, <1>2, Parts, EdmaKept, PacketInvKept
<1>4. HdInv'
  BY <1>2 DEF HdInv, WritesExact, ReadsExact
<1> QED
  BY <1>2, <1>3, <1>4, Parts

(* The host takes an address,                                              *)
LEMMA StepHostTakesAw ==
  ASSUME IInv, HostTakesAw
  PROVE  IInv'
<1> DEFINE x == Head(hd["aw"])
<1>1. /\ hd["aw"] # <<>> /\ hd' = Pop(hd, "aw") /\ host' = Push(host, "aw", x)
      /\ HdUnchanged /\ respBuffer' = respBuffer /\ effected' = effected
  BY DEF HostTakesAw
<1>2. HdInv /\ HdOK /\ effected \subseteq busy
  BY Parts DEF HdInv, UnitInv, UnitOK
<1>3. /\ \A q \in HdQueues : hd[q] \in Seq(Cmds) /\ Len(hd[q]) \in Nat
      /\ host.aw \in Seq(Cmds) /\ host.reads \in Seq(Cmds) /\ host.writes \in Seq(Pair)
      /\ host.b \in Nat /\ host.r \in Nat
      /\ host = [aw |-> host.aw, writes |-> host.writes, reads |-> host.reads,
                 b |-> host.b, r |-> host.r]
      /\ WritesAligned(hd["writeIds"], hd["aw"], hd["w"], host.aw, host.writes, host.b,
                       Inside, effected)
      /\ ReadsAligned(hd["readIds"], hd["ar"], host.reads, host.r, Inside, effected)
  BY <1>2, HdTypes
<1>4. x \in Cmds
  BY <1>1, <1>3, TailFacts DEF HdQueues
<1>5. Append(host.aw, x) \in Seq(Cmds)
  BY <1>3, <1>4, AppendFacts
<1>6. host' = [aw |-> Append(host.aw, x), writes |-> host.writes, reads |-> host.reads,
               b |-> host.b, r |-> host.r]
  BY <1>1, <1>3 DEF Push
<1> HIDE DEF x
<1>7. host' \in [aw : Seq(Cmds), writes : Seq(Pair), reads : Seq(Cmds), b : Nat, r : Nat]
  BY <1>3, <1>5, <1>6
<1>8. /\ HdOK'
      /\ hd'["aw"] = Tail(hd["aw"]) /\ hd'["w"] = hd["w"] /\ hd'["writeIds"] = hd["writeIds"]
      /\ hd'["ar"] = hd["ar"] /\ hd'["readIds"] = hd["readIds"]
  BY <1>1, <1>2, <1>7, HdPop DEF HdQueues
<1>9. WritesAligned(hd["writeIds"], Tail(hd["aw"]), hd["w"], Append(host.aw, x), host.writes, host.b,
                    Inside, effected)
  BY <1>1, <1>3, WritesAddress DEF HdQueues, x
<1>10. /\ host'.aw = Append(host.aw, x) /\ host'.writes = host.writes /\ host'.reads = host.reads
       /\ host'.b = host.b /\ host'.r = host.r
  BY <1>6
<1> QED
  BY <1>1, <1>2, <1>3, <1>8, <1>9, <1>10, StepHost

(* the data of a write,                                                    *)
LEMMA StepHostTakesW ==
  ASSUME IInv, HostTakesW
  PROVE  IInv'
<1> DEFINE x == [addr |-> Head(host.aw), data |-> Head(hd["w"])]
<1>1. /\ hd["w"] # <<>> /\ host.aw # <<>> /\ hd' = Pop(hd, "w")
      /\ host' = Push(Pop(host, "aw"), "writes", x)
      /\ HdUnchanged /\ respBuffer' = respBuffer /\ effected' = effected
  BY DEF HostTakesW
<1>2. HdInv /\ HdOK /\ effected \subseteq busy
  BY Parts DEF HdInv, UnitInv, UnitOK
<1>3. /\ \A q \in HdQueues : hd[q] \in Seq(Cmds) /\ Len(hd[q]) \in Nat
      /\ host.aw \in Seq(Cmds) /\ host.reads \in Seq(Cmds) /\ host.writes \in Seq(Pair)
      /\ host.b \in Nat /\ host.r \in Nat
      /\ host = [aw |-> host.aw, writes |-> host.writes, reads |-> host.reads,
                 b |-> host.b, r |-> host.r]
      /\ WritesAligned(hd["writeIds"], hd["aw"], hd["w"], host.aw, host.writes, host.b,
                       Inside, effected)
      /\ ReadsAligned(hd["readIds"], hd["ar"], host.reads, host.r, Inside, effected)
  BY <1>2, HdTypes
<1>4. Head(hd["w"]) \in Cmds /\ Head(host.aw) \in Cmds /\ Tail(host.aw) \in Seq(Cmds)
  BY <1>1, <1>3, TailFacts DEF HdQueues
<1>5. x \in Pair
  BY <1>4 DEF Pair
<1>6. host' = [aw |-> Tail(host.aw), writes |-> Append(host.writes, x), reads |-> host.reads,
               b |-> host.b, r |-> host.r]
  BY <1>1, <1>3 DEF Push, Pop
<1> HIDE DEF x
<1>7. Append(host.writes, x) \in Seq(Pair)
  BY <1>3, <1>5, AppendFacts
<1>8. host' \in [aw : Seq(Cmds), writes : Seq(Pair), reads : Seq(Cmds), b : Nat, r : Nat]
  BY <1>3, <1>4, <1>6, <1>7
<1>9. /\ HdOK'
      /\ hd'["w"] = Tail(hd["w"]) /\ hd'["aw"] = hd["aw"] /\ hd'["writeIds"] = hd["writeIds"]
      /\ hd'["ar"] = hd["ar"] /\ hd'["readIds"] = hd["readIds"]
  BY <1>1, <1>2, <1>8, HdPop DEF HdQueues
<1>10. WritesAligned(hd["writeIds"], hd["aw"], Tail(hd["w"]), Tail(host.aw), Append(host.writes, x),
                     host.b, Inside, effected)
  BY <1>1, <1>3, WritesPair DEF HdQueues, x, Pair
<1>11. /\ host'.aw = Tail(host.aw) /\ host'.writes = Append(host.writes, x)
       /\ host'.reads = host.reads /\ host'.b = host.b /\ host'.r = host.r
  BY <1>6
<1> QED
  BY <1>1, <1>2, <1>3, <1>9, <1>10, <1>11, StepHost

(* or the address of a read.                                               *)
LEMMA StepHostTakesAr ==
  ASSUME IInv, HostTakesAr
  PROVE  IInv'
<1> DEFINE x == Head(hd["ar"])
<1>1. /\ hd["ar"] # <<>> /\ hd' = Pop(hd, "ar") /\ host' = Push(host, "reads", x)
      /\ HdUnchanged /\ respBuffer' = respBuffer /\ effected' = effected
  BY DEF HostTakesAr
<1>2. HdInv /\ HdOK /\ effected \subseteq busy
  BY Parts DEF HdInv, UnitInv, UnitOK
<1>3. /\ \A q \in HdQueues : hd[q] \in Seq(Cmds) /\ Len(hd[q]) \in Nat
      /\ host.aw \in Seq(Cmds) /\ host.reads \in Seq(Cmds) /\ host.writes \in Seq(Pair)
      /\ host.b \in Nat /\ host.r \in Nat
      /\ host = [aw |-> host.aw, writes |-> host.writes, reads |-> host.reads,
                 b |-> host.b, r |-> host.r]
      /\ WritesAligned(hd["writeIds"], hd["aw"], hd["w"], host.aw, host.writes, host.b,
                       Inside, effected)
      /\ ReadsAligned(hd["readIds"], hd["ar"], host.reads, host.r, Inside, effected)
  BY <1>2, HdTypes
<1>4. x \in Cmds
  BY <1>1, <1>3, TailFacts DEF HdQueues
<1>5. Append(host.reads, x) \in Seq(Cmds)
  BY <1>3, <1>4, AppendFacts
<1>6. host' = [aw |-> host.aw, writes |-> host.writes, reads |-> Append(host.reads, x),
               b |-> host.b, r |-> host.r]
  BY <1>1, <1>3 DEF Push
<1> HIDE DEF x
<1>7. host' \in [aw : Seq(Cmds), writes : Seq(Pair), reads : Seq(Cmds), b : Nat, r : Nat]
  BY <1>3, <1>5, <1>6
<1>8. /\ HdOK'
      /\ hd'["ar"] = Tail(hd["ar"]) /\ hd'["w"] = hd["w"] /\ hd'["writeIds"] = hd["writeIds"]
      /\ hd'["aw"] = hd["aw"] /\ hd'["readIds"] = hd["readIds"]
  BY <1>1, <1>2, <1>7, HdPop DEF HdQueues
<1>9. ReadsAligned(hd["readIds"], Tail(hd["ar"]), Append(host.reads, x), host.r, Inside, effected)
  BY <1>1, <1>3, ReadsSteps DEF HdQueues, x
<1>10. /\ host'.aw = host.aw /\ host'.writes = host.writes /\ host'.reads = Append(host.reads, x)
       /\ host'.b = host.b /\ host'.r = host.r
  BY <1>6
<1> QED
  BY <1>1, <1>2, <1>3, <1>8, <1>9, <1>10, StepHost

(* A write or a read is made: the one command the pair is made of, or the  *)
(* one the address came from, takes effect.                                *)
LEMMA StepHostWrites ==
  ASSUME IInv, HostWrites
  PROVE  IInv' /\ \E c \in busy : effected' = effected \cup {c}
<1> DEFINE p == Head(host.writes)
           c == p.addr
<1>1. /\ host.writes # <<>> /\ host' = [Pop(host, "writes") EXCEPT !.b = @ + 1]
      /\ effected' = effected \cup {x \in busy : p = [addr |-> x, data |-> x]}
      /\ HdUnchanged /\ respBuffer' = respBuffer /\ hd' = hd
  BY DEF HostWrites
<1>2. HdInv /\ HdOK /\ effected \subseteq busy
  BY Parts DEF HdInv, UnitInv, UnitOK
<1>3. /\ \A q \in HdQueues : hd[q] \in Seq(Cmds) /\ Len(hd[q]) \in Nat
      /\ host.aw \in Seq(Cmds) /\ host.reads \in Seq(Cmds) /\ host.writes \in Seq(Pair)
      /\ host.b \in Nat /\ host.r \in Nat
      /\ host = [aw |-> host.aw, writes |-> host.writes, reads |-> host.reads,
                 b |-> host.b, r |-> host.r]
      /\ WritesAligned(hd["writeIds"], hd["aw"], hd["w"], host.aw, host.writes, host.b,
                       Inside, effected)
      /\ ReadsAligned(hd["readIds"], hd["ar"], host.reads, host.r, Inside, effected)
  BY <1>2, HdTypes
<1>4. \A e \in Pair : e = [addr |-> e.addr, data |-> e.data]
  BY DEF Pair
<1>5. Tail(host.writes) \in Seq(Pair)
  BY <1>1, <1>3, TailFacts
<1>6. host' = [aw |-> host.aw, writes |-> Tail(host.writes), reads |-> host.reads,
               b |-> host.b + 1, r |-> host.r]
  BY <1>1, <1>3 DEF Pop
<1>7. /\ p = [addr |-> c, data |-> c] /\ c \in Inside
      /\ WritesAligned(hd["writeIds"], hd["aw"], hd["w"], host.aw, Tail(host.writes), host.b + 1,
                       Inside, effected \cup {c})
  BY <1>1, <1>3, <1>4, WritesMade DEF HdQueues
<1> HIDE DEF p, c
<1>8. c \in busy
  BY <1>7 DEF Inside
<1>9. effected' = effected \cup {c}
  <2>1. \A x : p = [addr |-> x, data |-> x] => x = c
    BY <1>7
  <2> QED
    BY <1>1, <1>7, <1>8, <2>1
<1>10. HdOK'
  <2>1. host.b + 1 \in Nat
    BY <1>3
  <2>2. host' \in [aw : Seq(Cmds), writes : Seq(Pair), reads : Seq(Cmds), b : Nat, r : Nat]
    BY <1>3, <1>5, <1>6, <2>1
  <2> QED
    BY <1>1, <1>2, <2>2 DEF HdOK
<1>11. /\ host'.aw = host.aw /\ host'.writes = Tail(host.writes) /\ host'.reads = host.reads
       /\ host'.b = host.b + 1 /\ host'.r = host.r
  BY <1>6
<1>12. ReadsAligned(hd["readIds"], hd["ar"], host.reads, host.r, Inside, effected')
  BY <1>3, <1>9, ReadsKept DEF HdQueues
<1>13. IInv'
  BY <1>1, <1>2, <1>7, <1>8, <1>9, <1>10, <1>11, <1>12, StepHost
<1> QED
  BY <1>8, <1>9, <1>13

(* The host reads: one command takes effect.                               *)
LEMMA StepHostReads ==
  ASSUME IInv, HostReads
  PROVE  IInv' /\ \E c \in busy : effected' = effected \cup {c}
<1> DEFINE c == Head(host.reads)
<1>1. /\ host.reads # <<>> /\ host' = [Pop(host, "reads") EXCEPT !.r = @ + 1]
      /\ effected' = effected \cup {c}
      /\ HdUnchanged /\ respBuffer' = respBuffer /\ hd' = hd
  BY DEF HostReads
<1>2. HdInv /\ HdOK /\ effected \subseteq busy
  BY Parts DEF HdInv, UnitInv, UnitOK
<1>3. /\ \A q \in HdQueues : hd[q] \in Seq(Cmds) /\ Len(hd[q]) \in Nat
      /\ host.aw \in Seq(Cmds) /\ host.reads \in Seq(Cmds) /\ host.writes \in Seq(Pair)
      /\ host.b \in Nat /\ host.r \in Nat
      /\ host = [aw |-> host.aw, writes |-> host.writes, reads |-> host.reads,
                 b |-> host.b, r |-> host.r]
      /\ WritesAligned(hd["writeIds"], hd["aw"], hd["w"], host.aw, host.writes, host.b,
                       Inside, effected)
      /\ ReadsAligned(hd["readIds"], hd["ar"], host.reads, host.r, Inside, effected)
  BY <1>2, HdTypes
<1>4. Tail(host.reads) \in Seq(Cmds)
  BY <1>1, <1>3, TailFacts
<1>5. host' = [aw |-> host.aw, writes |-> host.writes, reads |-> Tail(host.reads),
               b |-> host.b, r |-> host.r + 1]
  BY <1>1, <1>3 DEF Pop
<1>6. /\ c \in Inside
      /\ ReadsAligned(hd["readIds"], hd["ar"], Tail(host.reads), host.r + 1,
                      Inside, effected \cup {c})
  BY <1>1, <1>3, ReadsSteps DEF HdQueues
<1> HIDE DEF c
<1>7. c \in busy
  BY <1>6 DEF Inside
<1>8. HdOK'
  <2>1. host.r + 1 \in Nat
    BY <1>3
  <2>2. host' \in [aw : Seq(Cmds), writes : Seq(Pair), reads : Seq(Cmds), b : Nat, r : Nat]
    BY <1>3, <1>4, <1>5, <2>1
  <2> QED
    BY <1>1, <1>2, <2>2 DEF HdOK
<1>9. /\ host'.aw = host.aw /\ host'.writes = host.writes /\ host'.reads = Tail(host.reads)
      /\ host'.b = host.b /\ host'.r = host.r + 1
  BY <1>5
<1>10. WritesAligned(hd["writeIds"], hd["aw"], hd["w"], host.aw, host.writes, host.b,
                     Inside, effected')
  BY <1>1, <1>3, WritesKept DEF HdQueues
<1>11. IInv'
  BY <1>1, <1>2, <1>6, <1>7, <1>8, <1>9, <1>10, StepHost
<1> QED
  BY <1>1, <1>7, <1>11

(* The answers: the identifier at the head of the FIFO is that of a        *)
(* command that has been made.                                             *)
LEMMA StepReadResponse ==
  ASSUME IInv, ReadResponse
  PROVE  IInv' /\ busy' = busy /\ effected' = effected
<1> DEFINE c == Head(hd["readIds"])
<1>1. /\ host.r > 0 /\ Respond("hostdirect", c)
      /\ host' = [host EXCEPT !.r = @ - 1] /\ hd' = Pop(hd, "readIds")
      /\ UNCHANGED unitVars /\ UNCHANGED edmaVars /\ UNCHANGED nicVars
      /\ busy' = busy /\ effected' = effected
  BY DEF ReadResponse, HdUnchanged
<1>2. HdInv /\ HdOK /\ effected \subseteq busy /\ UnitInv
  BY Parts DEF HdInv, UnitInv, UnitOK
<1>3. /\ \A q \in HdQueues : hd[q] \in Seq(Cmds) /\ Len(hd[q]) \in Nat
      /\ host.aw \in Seq(Cmds) /\ host.reads \in Seq(Cmds) /\ host.writes \in Seq(Pair)
      /\ host.b \in Nat /\ host.r \in Nat
      /\ host = [aw |-> host.aw, writes |-> host.writes, reads |-> host.reads,
                 b |-> host.b, r |-> host.r]
      /\ WritesAligned(hd["writeIds"], hd["aw"], hd["w"], host.aw, host.writes, host.b,
                       Inside, effected)
      /\ ReadsAligned(hd["readIds"], hd["ar"], host.reads, host.r, Inside, effected)
  BY <1>2, HdTypes
<1>4. /\ hd["readIds"] # <<>> /\ c \in Reads \cap Inside /\ c \in effected
      /\ ReadsAligned(Tail(hd["readIds"]), hd["ar"], host.reads, host.r - 1,
                      Inside \ {c}, effected)
  BY <1>1, <1>3, ReadsSteps DEF HdQueues
<1>5. host' = [aw |-> host.aw, writes |-> host.writes, reads |-> host.reads,
               b |-> host.b, r |-> host.r - 1]
  BY <1>1, <1>3
<1>6. host.r - 1 \in Nat
  BY <1>1, <1>3
<1>7. host' \in [aw : Seq(Cmds), writes : Seq(Pair), reads : Seq(Cmds), b : Nat, r : Nat]
  BY <1>3, <1>5, <1>6
<1>8. /\ HdOK'
      /\ hd'["readIds"] = Tail(hd["readIds"]) /\ hd'["w"] = hd["w"] /\ hd'["aw"] = hd["aw"]
      /\ hd'["writeIds"] = hd["writeIds"] /\ hd'["ar"] = hd["ar"]
  BY <1>1, <1>2, <1>4, <1>7, HdPop DEF HdQueues
<1>9. UnitInv' /\ Inside' = Inside \ {c}
  BY <1>1, <1>2, <1>4, Kinds, UnitRespond DEF Interfaces
<1> HIDE DEF c
<1>10. /\ host'.aw = host.aw /\ host'.writes = host.writes /\ host'.reads = host.reads
       /\ host'.b = host.b /\ host'.r = host.r - 1
  BY <1>5
<1>11. Writes \cap Inside \subseteq Inside'
  BY <1>4, <1>9, CommandParams
<1>12. WritesAligned(hd["writeIds"], hd["aw"], hd["w"], host.aw, host.writes, host.b,
                     Inside', effected)
  BY <1>3, <1>11, WritesKept DEF HdQueues
<1>13. HdInv'
  BY <1>1, <1>4, <1>8, <1>9, <1>10, <1>12 DEF HdInv, WritesExact, ReadsExact
<1>14. EdmaInv' /\ PacketInv'
  <2>1. /\ (ToHost \cup FromHost) \cap Inside \subseteq Inside'
        /\ (Sends \cup Rdmas) \cap Inside \subseteq Inside'
    BY <1>4, <1>9, CommandParams
  <2> QED
    BY <1>1, <2>1, Parts, EdmaKept, PacketInvKept
<1> QED
  BY <1>1, <1>9, <1>13, <1>14, Parts

(* The host target takes the response to a write.                          *)
LEMMA StepWriteResponse ==
  ASSUME IInv, WriteResponse
  PROVE  IInv' /\ busy' = busy /\ effected' = effected
<1> DEFINE c == Head(hd["writeIds"])
<1>1. /\ host.b > 0 /\ Respond("hostdirect", c)
      /\ host' = [host EXCEPT !.b = @ - 1] /\ hd' = Pop(hd, "writeIds")
      /\ UNCHANGED unitVars /\ UNCHANGED edmaVars /\ UNCHANGED nicVars
      /\ busy' = busy /\ effected' = effected
  BY DEF WriteResponse, HdUnchanged
<1>2. HdInv /\ HdOK /\ effected \subseteq busy /\ UnitInv
  BY Parts DEF HdInv, UnitInv, UnitOK
<1>3. /\ \A q \in HdQueues : hd[q] \in Seq(Cmds) /\ Len(hd[q]) \in Nat
      /\ host.aw \in Seq(Cmds) /\ host.reads \in Seq(Cmds) /\ host.writes \in Seq(Pair)
      /\ host.b \in Nat /\ host.r \in Nat
      /\ host = [aw |-> host.aw, writes |-> host.writes, reads |-> host.reads,
                 b |-> host.b, r |-> host.r]
      /\ WritesAligned(hd["writeIds"], hd["aw"], hd["w"], host.aw, host.writes, host.b,
                       Inside, effected)
      /\ ReadsAligned(hd["readIds"], hd["ar"], host.reads, host.r, Inside, effected)
  BY <1>2, HdTypes
<1>4. /\ hd["writeIds"] # <<>> /\ c \in Writes \cap Inside /\ c \in effected
      /\ WritesAligned(Tail(hd["writeIds"]), hd["aw"], hd["w"], host.aw, host.writes, host.b - 1,
                       Inside \ {c}, effected)
  BY <1>1, <1>3, WritesAnswered DEF HdQueues
<1>5. host' = [aw |-> host.aw, writes |-> host.writes, reads |-> host.reads,
               b |-> host.b - 1, r |-> host.r]
  BY <1>1, <1>3
<1>6. host.b - 1 \in Nat
  BY <1>1, <1>3
<1>7. host' \in [aw : Seq(Cmds), writes : Seq(Pair), reads : Seq(Cmds), b : Nat, r : Nat]
  BY <1>3, <1>5, <1>6
<1>8. /\ HdOK'
      /\ hd'["writeIds"] = Tail(hd["writeIds"]) /\ hd'["w"] = hd["w"] /\ hd'["aw"] = hd["aw"]
      /\ hd'["readIds"] = hd["readIds"] /\ hd'["ar"] = hd["ar"]
  BY <1>1, <1>2, <1>4, <1>7, HdPop DEF HdQueues
<1>9. UnitInv' /\ Inside' = Inside \ {c}
  BY <1>1, <1>2, <1>4, Kinds, UnitRespond DEF Interfaces
<1> HIDE DEF c
<1>10. /\ host'.aw = host.aw /\ host'.writes = host.writes /\ host'.reads = host.reads
       /\ host'.b = host.b - 1 /\ host'.r = host.r
  BY <1>5
<1>11. Reads \cap Inside \subseteq Inside'
  BY <1>4, <1>9, CommandParams
<1>12. ReadsAligned(hd["readIds"], hd["ar"], host.reads, host.r, Inside', effected)
  BY <1>3, <1>11, ReadsKept DEF HdQueues
<1>13. HdInv'
  BY <1>1, <1>4, <1>8, <1>9, <1>10, <1>12 DEF HdInv, WritesExact, ReadsExact
<1>14. EdmaInv' /\ PacketInv'
  <2>1. /\ (ToHost \cup FromHost) \cap Inside \subseteq Inside'
        /\ (Sends \cup Rdmas) \cap Inside \subseteq Inside'
    BY <1>4, <1>9, CommandParams
  <2> QED
    BY <1>1, <2>1, Parts, EdmaKept, PacketInvKept
<1> QED
  BY <1>1, <1>9, <1>13, <1>14, Parts

(* The transfers.  The id FIFO of a direction has room whenever the unit   *)
(* offers a command: RespFIFODepth >= RespBuffSize.                        *)
LEMMA EdmaTypes ==
  ASSUME EdmaInv, NEW d \in Dirs
  PROVE  /\ ids[d] \in Seq(Cmds) /\ dma[d] \in Seq(Cmds) /\ toPop[d] \in Nat
         /\ Moves(d) \in SUBSET Cmds
         /\ MovesAligned(Moves(d), ids[d], dma[d], toPop[d], Inside, effected)
BY DEF EdmaInv, EdmaOK, TransfersExact, Moves, Cmds

(* The id FIFOs of the DMA target have room for every command that is let  *)
(* in.                                                                     *)
LEMMA EdmaRoom ==
  ASSUME UnitInv, EdmaInv, NEW d \in Dirs
  PROVE  Len(ids[d]) < RespFIFODepth
<1>1. ids[d] \in Seq(Cmds) /\ IsInjective(ids[d]) /\ Range(ids[d]) \subseteq Moves(d) \cap Inside
  BY EdmaTypes DEF MovesAligned, IdFifo
<1>2. Cardinality(Range(ids[d])) = Len(ids[d])
  BY <1>1, DistinctCount
<1>3. Range(ids[d]) \subseteq At("edma")
  BY <1>1, Kinds DEF Moves, At, Inside
<1>4. At("edma") \subseteq busy /\ IsFiniteSet(busy) /\ Cardinality(At("edma")) < RespBuffSize
  BY DEF At, UnitInv, UnitExact, Interfaces
<1>5. IsFiniteSet(At("edma")) /\ Cardinality(At("edma")) \in Nat
  BY <1>4, FS_Subset, FS_CardinalityType
<1>6. Cardinality(Range(ids[d])) <= Cardinality(At("edma"))
  BY <1>3, <1>5, FS_Subset
<1>7. Len(ids[d]) \in Nat
  BY <1>1
<1> QED
  BY <1>2, <1>4, <1>5, <1>6, <1>7, CommandParams

(* A transfer goes to the DMA target.                                      *)
LEMMA StepDispatchEdma ==
  ASSUME IInv, NEW k \in Clusters, DispatchEdma(k)
  PROVE  IInv' /\ busy' = busy /\ effected' = effected
<1> DEFINE c == Head(spill[k])
           d == Dir(c)
<1>1. UnitInv /\ EdmaInv /\ HdInv /\ PacketInv /\ d \in Dirs
  BY Parts DEF Dir, Dirs
<1>2. Len(ids[d]) < RespFIFODepth
  BY <1>1, EdmaRoom
<1>3. /\ Offered(k, ToHost \cup FromHost) /\ Accepted(k)
      /\ dma' = Push(dma, d, c) /\ ids' = Push(ids, d, c) /\ toPop' = toPop
      /\ UNCHANGED hdVars /\ UNCHANGED nicVars
      /\ respBuffer' = respBuffer /\ busy' = busy /\ effected' = effected
  BY <1>2 DEF DispatchEdma, EdmaUnchanged
<1>4. /\ UnitInv' /\ c \notin Inside /\ c \in ToHost \cup FromHost /\ c \in Cmds
      /\ Inside' = Inside \cup {c}
  BY <1>1, <1>3, UnitAccept
<1>5. c \in Moves(d) /\ \A x \in Dirs : x # d => c \notin Moves(x)
  BY <1>4, CommandParams DEF Moves, Dir, Dirs
<1>6. HdInv' /\ PacketInv'
  BY <1>1, <1>3, <1>4, HdKept, PacketInvKept
<1> HIDE DEF c, d
<1>7. \A x \in Dirs : /\ ids'[x] = IF x = d THEN Append(ids[d], c) ELSE ids[x]
                      /\ dma'[x] = IF x = d THEN Append(dma[d], c) ELSE dma[x]
  BY <1>1, <1>3 DEF Push, EdmaInv, EdmaOK
<1>8. ids[d] \in Seq(Cmds) /\ dma[d] \in Seq(Cmds) /\ toPop[d] \in Nat /\ Moves(d) \in SUBSET Cmds
      /\ MovesAligned(Moves(d), ids[d], dma[d], toPop[d], Inside, effected)
  BY <1>1, EdmaTypes
<1>9. /\ Append(ids[d], c) \in Seq(Cmds) /\ Len(Append(ids[d], c)) = Len(ids[d]) + 1
      /\ Append(dma[d], c) \in Seq(Cmds) /\ Len(ids[d]) \in Nat
  BY <1>4, <1>8, AppendFacts
<1>10. EdmaOK'
  <2>1. Len(Append(ids[d], c)) <= RespFIFODepth
    BY <1>2, <1>9, CommandParams
  <2> QED
    BY <1>1, <1>3, <1>7, <1>9, <2>1 DEF EdmaInv, EdmaOK, Push
<1>11. TransfersExact'
  <2>1. MovesAligned(Moves(d), Append(ids[d], c), Append(dma[d], c), toPop[d],
                     Inside \cup {c}, effected)
    BY <1>4, <1>5, <1>8, MovesSteps
  <2>2. ASSUME NEW x \in Dirs, x # d
        PROVE  MovesAligned(Moves(x), ids[x], dma[x], toPop[x], Inside \cup {c}, effected)
    BY <1>1, EdmaTypes, MovesKept
  <2>3. \A x \in Dirs :
          MovesAligned(Moves(x), ids'[x], dma'[x], toPop[x], Inside \cup {c}, effected)
    BY <1>7, <2>1, <2>2
  <2> QED
    BY <1>3, <1>4, <2>3 DEF TransfersExact
<1> QED
  BY <1>3, <1>4, <1>6, <1>10, <1>11, Parts DEF EdmaInv

(* A transfer is complete: one command takes effect.                       *)
LEMMA StepEdmaCompletes ==
  ASSUME IInv, NEW d \in Dirs, EdmaCompletes(d)
  PROVE  IInv' /\ busy' = busy /\ \E c \in busy : effected' = effected \cup {c}
<1> DEFINE c == Head(dma[d])
<1>1. UnitInv /\ EdmaInv /\ HdInv /\ PacketInv /\ effected \subseteq busy
  BY Parts DEF UnitInv, UnitOK
<1>2. /\ dma[d] # <<>> /\ dma' = Pop(dma, d) /\ toPop' = [toPop EXCEPT ![d] = @ + 1]
      /\ effected' = effected \cup {c} /\ ids' = ids
      /\ UNCHANGED hdVars /\ UNCHANGED nicVars
      /\ UNCHANGED <<unitVars, respBuffer, busy>>
  BY DEF EdmaCompletes, EdmaUnchanged
<1>3. ids[d] \in Seq(Cmds) /\ dma[d] \in Seq(Cmds) /\ toPop[d] \in Nat /\ Moves(d) \in SUBSET Cmds
      /\ MovesAligned(Moves(d), ids[d], dma[d], toPop[d], Inside, effected)
  BY <1>1, EdmaTypes
<1>4. /\ c \in Moves(d) \cap Inside
      /\ MovesAligned(Moves(d), ids[d], Tail(dma[d]), toPop[d] + 1, Inside, effected \cup {c})
  BY <1>2, <1>3, MovesSteps
<1>5. Tail(dma[d]) \in Seq(Cmds) /\ toPop[d] + 1 \in Nat
  BY <1>2, <1>3, TailFacts
<1> HIDE DEF c
<1>6. c \in busy
  BY <1>4 DEF Inside
<1>7. UnitInv' /\ Inside' = Inside
  BY <1>1, <1>2, <1>6, UnitStays
<1>8. HdInv' /\ PacketInv'
  BY <1>1, <1>2, <1>7, HdKept, PacketInvKept
<1>9. \A x \in Dirs : /\ dma'[x] = IF x = d THEN Tail(dma[d]) ELSE dma[x]
                      /\ toPop'[x] = IF x = d THEN toPop[d] + 1 ELSE toPop[x]
  BY <1>1, <1>2 DEF Pop, EdmaInv, EdmaOK
<1>10. EdmaOK'
  BY <1>1, <1>2, <1>5 DEF EdmaInv, EdmaOK, Pop
<1>11. TransfersExact'
  <2>1. ASSUME NEW x \in Dirs
        PROVE  MovesAligned(Moves(x), ids[x], dma[x], toPop[x], Inside, effected \cup {c})
    BY <1>1, EdmaTypes, MovesKept
  <2>2. \A x \in Dirs :
          MovesAligned(Moves(x), ids[x], dma'[x], toPop'[x], Inside, effected \cup {c})
    BY <1>4, <1>9, <2>1
  <2> QED
    BY <1>2, <1>7, <2>2 DEF TransfersExact
<1> QED
  BY <1>2, <1>6, <1>7, <1>8, <1>10, <1>11, Parts DEF EdmaInv

(* The DMA target answers the oldest transfer that is complete.            *)
LEMMA StepEdmaResponse ==
  ASSUME IInv, NEW d \in Dirs, EdmaResponse(d)
  PROVE  IInv' /\ busy' = busy /\ effected' = effected
<1> DEFINE c == Head(ids[d])
<1>1. UnitInv /\ EdmaInv /\ HdInv /\ PacketInv /\ effected \subseteq busy
  BY Parts DEF UnitInv, UnitOK
<1>2. /\ toPop[d] > 0 /\ toPop' = [toPop EXCEPT ![d] = @ - 1] /\ ids' = Pop(ids, d)
      /\ Respond("edma", c) /\ dma' = dma /\ effected' = effected /\ busy' = busy
      /\ UNCHANGED hdVars /\ UNCHANGED nicVars /\ UNCHANGED unitVars
  BY DEF EdmaResponse, EdmaUnchanged, RespAvail
<1>3. ids[d] \in Seq(Cmds) /\ dma[d] \in Seq(Cmds) /\ toPop[d] \in Nat /\ Moves(d) \in SUBSET Cmds
      /\ MovesAligned(Moves(d), ids[d], dma[d], toPop[d], Inside, effected)
  BY <1>1, EdmaTypes
<1>4. /\ ids[d] # <<>> /\ c \in Moves(d) \cap Inside /\ c \in effected
      /\ MovesAligned(Moves(d), Tail(ids[d]), dma[d], toPop[d] - 1, Inside \ {c}, effected)
  BY <1>2, <1>3, MovesSteps
<1>5. /\ Tail(ids[d]) \in Seq(Cmds) /\ Len(Tail(ids[d])) = Len(ids[d]) - 1 /\ Len(ids[d]) \in Nat
      /\ toPop[d] - 1 \in Nat
  BY <1>2, <1>3, <1>4, TailFacts
<1> HIDE DEF c
<1>6. c \in ToHost \cup FromHost /\ Interface(c) = "edma"
  BY <1>4, Kinds DEF Moves
<1>7. UnitInv' /\ Inside' = Inside \ {c}
  BY <1>1, <1>2, <1>4, <1>6, UnitRespond DEF Interfaces
<1>8. HdInv' /\ PacketInv'
  <2>1. /\ (Writes \cup Reads) \cap Inside \subseteq Inside'
        /\ (Sends \cup Rdmas) \cap Inside \subseteq Inside'
    BY <1>6, <1>7, CommandParams
  <2> QED
    BY <1>1, <1>2, <2>1, HdKept, PacketInvKept
<1>9. \A x \in Dirs : /\ ids'[x] = IF x = d THEN Tail(ids[d]) ELSE ids[x]
                      /\ toPop'[x] = IF x = d THEN toPop[d] - 1 ELSE toPop[x]
  BY <1>1, <1>2 DEF Pop, EdmaInv, EdmaOK
<1>10. EdmaOK'
  <2>1. Len(Tail(ids[d])) <= RespFIFODepth
    BY <1>1, <1>5, CommandParams DEF EdmaInv, EdmaOK
  <2> QED
    BY <1>1, <1>2, <1>5, <1>9, <2>1 DEF EdmaInv, EdmaOK, Pop
<1>11. TransfersExact'
  <2>1. ASSUME NEW x \in Dirs, x # d
        PROVE  MovesAligned(Moves(x), ids[x], dma[x], toPop[x], Inside \ {c}, effected)
    <3>1. c \notin Moves(x)
      BY <1>4, <2>1, CommandParams DEF Moves, Dirs
    <3> QED
      BY <1>1, <3>1, EdmaTypes, MovesKept
  <2>2. \A x \in Dirs :
          MovesAligned(Moves(x), ids'[x], dma[x], toPop'[x], Inside \ {c}, effected)
    BY <1>4, <1>9, <2>1
  <2> QED
    BY <1>2, <1>7, <2>2 DEF TransfersExact
<1> QED
  BY <1>2, <1>7, <1>8, <1>10, <1>11, Parts DEF EdmaInv

(* The packets.                                                            *)
LEMMA StepDispatchOutbound ==
  ASSUME IInv, NEW k \in Clusters, DispatchOutbound(k)
  PROVE  IInv' /\ busy' = busy /\ effected' = effected
<1> DEFINE c == Head(spill[k])
<1>1. UnitInv /\ EdmaInv /\ HdInv /\ PacketInv
  BY Parts
<1>2. /\ Offered(k, Sends \cup Rdmas) /\ Accepted(k)
      /\ respBuffer' = respBuffer /\ busy' = busy /\ effected' = effected
      /\ UNCHANGED hdVars /\ UNCHANGED edmaVars
  BY DEF DispatchOutbound
<1>3. UnitInv' /\ c \notin Inside /\ c \in Sends \cup Rdmas /\ Inside' = Inside \cup {c}
  BY <1>1, <1>2, UnitAccept
<1>4. PacketInv'
  BY <1>1, <1>3, PacketsDispatch DEF PacketInv
<1> QED
  BY <1>1, <1>2, <1>3, <1>4, Parts, HdKept, EdmaKept

(* The NIC model makes a packet, or has read its data.                     *)
LEMMA StepProgressPackets ==
  ASSUME IInv, ProgressPackets \/ ProgressReadResponses
  PROVE  IInv' /\ busy' = busy /\ effected' = effected
<1>1. UnitInv /\ EdmaInv /\ HdInv /\ PacketInv /\ effected \subseteq busy
  BY Parts DEF UnitInv, UnitOK
<1>2. /\ UNCHANGED <<unitVars, respBuffer, busy>> /\ busy' = busy /\ effected' = effected
      /\ UNCHANGED hdVars /\ UNCHANGED edmaVars
  BY DEF ProgressPackets, ProgressReadResponses
<1>3. UnitInv' /\ Inside' = Inside
  BY <1>1, <1>2, UnitStays
<1>4. PacketInv'
  BY <1>1, <1>3, PacketsMade, PacketsFetched DEF PacketInv
<1> QED
  BY <1>1, <1>2, <1>3, <1>4, Parts, HdKept, EdmaKept

(* A packet leaves; the last one of a command is its effect.               *)
LEMMA StepProgressNetqueue ==
  ASSUME IInv, ProgressNetqueue
  PROVE  /\ IInv' /\ busy' = busy
         /\ effected' = effected \/ \E c \in busy : effected' = effected \cup {c}
<1> DEFINE pkt == Head(netQueue)
           c == pkt.cmd
<1>1. UnitInv /\ EdmaInv /\ HdInv /\ PacketInv /\ effected \subseteq busy
  BY Parts DEF UnitInv, UnitOK
<1>2. /\ netQueue # <<>>
      /\ effected' = effected \cup (IF unsent[c] = 1 THEN {c} ELSE {})
      /\ IF pkt.last THEN Respond("outbound", c) ELSE respBuffer' = respBuffer
      /\ UNCHANGED unitVars /\ UNCHANGED hdVars /\ UNCHANGED edmaVars /\ busy' = busy
  BY DEF ProgressNetqueue
<1>3. /\ c \in (Sends \cup Rdmas) \cap Inside /\ pkt.last \in BOOLEAN
      /\ pkt.last => unsent[c] = 1
  BY <1>1, <1>2, PacketLeaves DEF PacketInv
<1>4. c \in busy /\ Interface(c) = "outbound"
  BY <1>3, Kinds DEF Inside
<1>5. effected \subseteq effected' /\ effected' \subseteq busy
  BY <1>1, <1>2, <1>4
<1>6. UnitInv' /\ IF pkt.last THEN Inside' = Inside \ {c} ELSE Inside' = Inside
  <2>1. CASE pkt.last
    <3>1. c \in effected' /\ Respond("outbound", c)
      BY <1>2, <1>3, <2>1
    <3> QED
      BY <1>1, <1>2, <1>3, <1>4, <1>5, <2>1, <3>1, UnitRespond DEF Interfaces
  <2>2. CASE ~ pkt.last
    <3>1. UNCHANGED <<unitVars, respBuffer, busy>>
      BY <1>2, <2>2
    <3> QED
      BY <1>1, <1>5, <2>2, <3>1, UnitStays
  <2> QED
    BY <2>1, <2>2
<1>7. PacketInv'
  BY <1>1, <1>6, PacketsSent DEF PacketInv
<1>8. /\ (Writes \cup Reads) \cap Inside \subseteq Inside'
      /\ (ToHost \cup FromHost) \cap Inside \subseteq Inside'
      /\ effected \cap Inside \subseteq effected'
  BY <1>3, <1>5, <1>6, CommandParams
<1>9. HdInv' /\ EdmaInv'
  BY <1>1, <1>2, <1>8, HdKept, EdmaKept
<1> QED
  BY <1>2, <1>4, <1>6, <1>7, <1>9, Parts

-----------------------------------------------------------------------------
(* The theorems.                                                           *)
LEMMA InitInv == Init => IInv
<1> SUFFICES ASSUME Init PROVE IInv
  OBVIOUS
<1>1. /\ spill = [k \in Clusters |-> <<>>] /\ inFlight = [i \in Interfaces |-> 0]
      /\ respBuffer = [i \in Interfaces |-> <<>>]
      /\ hd = [q \in HdQueues |-> <<>>]
      /\ host = [aw |-> <<>>, writes |-> <<>>, reads |-> <<>>, b |-> 0, r |-> 0]
      /\ ids = [d \in Dirs |-> <<>>] /\ toPop = [d \in Dirs |-> 0] /\ dma = [d \in Dirs |-> <<>>]
      /\ packetizer = <<>> /\ dmaPkts = <<>> /\ netQueue = <<>>
      /\ unsent = [c \in Cmds |-> 0] /\ busy = {} /\ effected = {}
  BY DEF Init, HdQueues
<1>2. /\ \A S : <<>> \in Seq(S)
      /\ Len(<<>>) = 0 /\ DOMAIN <<>> = {} /\ Range(<<>>) = {} /\ IsInjective(<<>>)
  BY DEF Range, IsInjective
<1>3. /\ RespBuffSize \in Nat \ {0} /\ RdmaPackets \in Nat /\ AxDepth \in Nat /\ IdDepth \in Nat
      /\ RespFIFODepth \in Nat /\ NumParallelCmd \in Nat /\ NetworkBuffer \in Nat
  BY CommandParams
<1>4. UnitInv
  <2>1. UnitOK
    BY <1>1, <1>2, <1>3 DEF UnitOK
  <2>2. \A i \in Interfaces : At(i) = {}
    BY <1>1 DEF At
  <2>3. UnitExact
    <3>1. IsFiniteSet(busy) /\ Cardinality({}) = 0
      BY <1>1, FS_EmptySet
    <3>2. \A i \in Interfaces : inFlight[i] = Cardinality(At(i)) /\ inFlight[i] < RespBuffSize
      <4>1. \A i \in Interfaces : inFlight[i] = 0 /\ At(i) = {}
        BY <1>1, <2>2
      <4>2. 0 < RespBuffSize
        BY <1>3
      <4> QED
        BY <3>1, <4>1, <4>2
    <3>3. \A i \in Interfaces : respBuffer[i] = <<>>
      BY <1>1
    <3>4. \A k \in Clusters : spill[k] = <<>>
      BY <1>1
    <3> QED
      BY <1>2, <3>1, <3>2, <3>3, <3>4 DEF UnitExact
  <2> QED
    BY <2>1, <2>3 DEF UnitInv
<1>5. \A S, n : Aligned(<<>>, n, <<>>) /\ PairsAligned(<<>>, n, <<>>) /\ IdFifo(<<>>, S, 0, Inside, effected)
  BY <1>2 DEF Aligned, PairsAligned, IdFifo
<1>6. HdInv
  <2>1. HdOK
    BY <1>1, <1>2, <1>3 DEF HdOK, HdQueues
  <2>2. /\ \A q \in HdQueues : hd[q] = <<>>
        /\ host.aw = <<>> /\ host.writes = <<>> /\ host.reads = <<>> /\ host.b = 0 /\ host.r = 0
    BY <1>1
  <2>3. WritesExact /\ ReadsExact
    BY <1>2, <1>5, <2>2 DEF WritesExact, WritesAligned, ReadsExact, ReadsAligned, HdQueues
  <2> QED
    BY <2>1, <2>3 DEF HdInv
<1>7. EdmaInv
  <2>1. EdmaOK
    BY <1>1, <1>2, <1>3 DEF EdmaOK
  <2>2. TransfersExact
    BY <1>1, <1>2, <1>5 DEF TransfersExact, MovesAligned
  <2> QED
    BY <2>1, <2>2 DEF EdmaInv
<1>8. PacketInv
  <2>1. PacketOK
    BY <1>1, <1>2, <1>3 DEF PacketOK
  <2>2. Cmd(<<>>) = {} /\ NoneAfter(<<>>)
    BY <1>2 DEF Cmd, NoneAfter
  <2>3. \A c : Count(<<>>, c) = 0
    <3>1. \A c : {k \in DOMAIN <<>> : <<>>[k].cmd = c} = {}
      BY <1>2
    <3> QED
      BY <3>1, FS_EmptySet DEF Count
  <2>4. \A c : Made(c) = 0
    BY <1>1, <2>3 DEF Made
  <2>5. PacketsExact
    BY <1>1, <1>2, <2>2, <2>4 DEF PacketsExact
  <2> QED
    BY <2>1, <2>5 DEF PacketInv
<1> QED
  BY <1>4, <1>6, <1>7, <1>8, Parts

(* What a step does to the invariant and to the status of the commands: it *)
(* issues one, lets one take effect, answers one, or none of these.        *)
IssueOne == \E c \in Cmds \ busy : busy' = busy \cup {c} /\ effected' = effected
EffectOne == \E c \in busy : busy' = busy /\ effected' = effected \cup {c}
AnswerOne == \E c \in effected : busy' = busy \ {c} /\ effected' = effected \ {c}
ServiceStep ==
  IssueOne \/ EffectOne \/ AnswerOne \/ (busy' = busy /\ effected' = effected)

(* Every step keeps the invariant, and is one that the service allows.     *)
LEMMA NextStep ==
  ASSUME IInv, [Next]_vars
  PROVE  IInv' /\ ServiceStep
<1>1. CASE UNCHANGED vars
  BY <1>1, StepStutter DEF ServiceStep, vars
<1>2. ASSUME NEW c \in Cmds, NEW k \in Clusters, Issue(c, k)
      PROVE  IInv' /\ ServiceStep
  <2>1. c \in Cmds \ busy /\ busy' = busy \cup {c} /\ effected' = effected
    BY <1>2 DEF Issue
  <2> QED
    BY <1>2, <2>1, StepIssue DEF ServiceStep, IssueOne
<1>3. ASSUME NEW k \in Clusters, Dispatch(k)
      PROVE  IInv' /\ ServiceStep
  <2>1. CASE DispatchWrite(k)
    BY <2>1, StepDispatchWrite DEF ServiceStep, DispatchWrite
  <2>2. CASE DispatchRead(k)
    BY <2>2, StepDispatchRead DEF ServiceStep, DispatchRead
  <2>3. CASE DispatchEdma(k)
    BY <2>3, StepDispatchEdma DEF ServiceStep
  <2>4. CASE DispatchOutbound(k)
    BY <2>4, StepDispatchOutbound DEF ServiceStep
  <2> QED
    BY <1>3, <2>1, <2>2, <2>3, <2>4 DEF Dispatch
<1>4. ASSUME NEW i \in Interfaces, Answer(i)
      PROVE  IInv' /\ ServiceStep
  <2>1. UnitInv
    BY Parts
  <2>2. AnswerOne
    BY <1>4, <2>1, UnitAnswer DEF AnswerOne
  <2> QED
    BY <1>4, <2>2, StepAnswer DEF ServiceStep
<1>5. CASE HostTakesAw \/ HostTakesW \/ HostTakesAr
  BY <1>5, StepHostTakesAw, StepHostTakesW, StepHostTakesAr
     DEF ServiceStep, HostTakesAw, HostTakesW, HostTakesAr, HdUnchanged
<1>6. CASE HostWrites \/ HostReads
  <2>1. busy' = busy
    BY <1>6 DEF HostWrites, HostReads, HdUnchanged
  <2> QED
    BY <1>6, <2>1, StepHostWrites, StepHostReads DEF ServiceStep, EffectOne
<1>7. CASE ReadResponse \/ WriteResponse
  BY <1>7, StepReadResponse, StepWriteResponse DEF ServiceStep
<1>8. ASSUME NEW d \in Dirs, EdmaCompletes(d) \/ EdmaResponse(d)
      PROVE  IInv' /\ ServiceStep
  BY <1>8, StepEdmaCompletes, StepEdmaResponse DEF ServiceStep, EffectOne
<1>9. CASE ProgressPackets \/ ProgressReadResponses
  BY <1>9, StepProgressPackets DEF ServiceStep
<1>10. CASE ProgressNetqueue
  BY <1>10, StepProgressNetqueue DEF ServiceStep, EffectOne
<1> QED
  BY <1>1, <1>2, <1>3, <1>4, <1>5, <1>6, <1>7, <1>8, <1>9, <1>10 DEF Next

(* The invariant holds throughout.                                         *)
THEOREM CommandsInvariance == Spec => []IInv
<1>1. IInv /\ [Next]_vars => IInv'
  BY NextStep
<1> QED
  BY <1>1, InitInv, PTL DEF Spec

(* The type invariant holds: no FIFO of host_direct, of soc_dma_wrap and   *)
(* of the NIC is ever written when it is full.                             *)
THEOREM TypeCorrect == Spec => []TypeOK
<1>1. IInv => TypeOK
  BY DEF IInv
<1> QED
  BY <1>1, CommandsInvariance, PTL

(* The response FIFOs, which nobody checks before a push, never overflow,  *)
(* and the in-flight counter never reaches the value that reads as zero    *)
(* (cmd_unit.sv:152-192).                                                  *)
THEOREM ResponsesAlwaysFit == Spec => []ResponsesFit
<1>1. ASSUME IInv
      PROVE  ResponsesFit
  <2>1. UnitInv
    BY <1>1, Parts
  <2>2. ASSUME NEW i \in Interfaces
        PROVE  Cardinality(Range(respBuffer[i])) = Len(respBuffer[i])
    <3>1. respBuffer[i] \in Seq(Cmds) /\ IsInjective(respBuffer[i])
      BY <2>1 DEF UnitInv, UnitOK, UnitExact
    <3> QED
      BY <3>1, DistinctCount
  <2> QED
    BY <2>1, <2>2 DEF ResponsesFit, UnitInv, UnitExact
<1> QED
  BY <1>1, CommandsInvariance, PTL

(* Every step of the interfaces is a step of the service or none: a        *)
(* command takes effect after it was issued and is answered after its      *)
(* effect, by the answer to its own request (cmd_unit.sv,                  *)
(* host_direct.sv:233-249, soc_dma_wrap.sv:112-170, NICOutbound.hpp).      *)
Status == [c \in Cmds |-> IF c \in effected THEN "done"
                          ELSE IF c \in busy THEN "issued" ELSE "idle"]

(* A step that the service allows is one of CommandService.                *)
LEMMA StatusStep ==
  ASSUME busy \subseteq Cmds, effected \subseteq busy, ServiceStep
  PROVE  Service!Next \/ Status' = Status
<1>1. CASE IssueOne
  <2>1. PICK c \in Cmds \ busy : busy' = busy \cup {c} /\ effected' = effected
    BY <1>1 DEF IssueOne
  <2>2. Status[c] = "idle" /\ Status' = [Status EXCEPT ![c] = "issued"]
    BY <2>1 DEF Status
  <2>3. Service!Issue(c)
    BY <2>2 DEF Status, Service!Issue
  <2> QED
    BY <2>3 DEF Service!Next
<1>2. CASE EffectOne
  <2>1. PICK c \in busy : busy' = busy /\ effected' = effected \cup {c}
    BY <1>2 DEF EffectOne
  <2>2. CASE c \in effected
    BY <2>1, <2>2 DEF Status
  <2>3. CASE c \notin effected
    <3>1. Status[c] = "issued" /\ Status' = [Status EXCEPT ![c] = "done"]
      BY <2>1, <2>3 DEF Status
    <3>2. Service!Effect(c) /\ c \in Cmds
      BY <3>1 DEF Status, Service!Effect
    <3> QED
      BY <3>2 DEF Service!Next
  <2> QED
    BY <2>2, <2>3
<1>3. CASE AnswerOne
  <2>1. PICK c \in effected : busy' = busy \ {c} /\ effected' = effected \ {c}
    BY <1>3 DEF AnswerOne
  <2>2. Status[c] = "done" /\ Status' = [Status EXCEPT ![c] = "idle"]
    BY <2>1 DEF Status
  <2>3. Service!Answer(c) /\ c \in Cmds
    BY <2>2 DEF Status, Service!Answer
  <2> QED
    BY <2>3 DEF Service!Next
<1>4. CASE busy' = busy /\ effected' = effected
  BY <1>4 DEF Status
<1> QED
  BY <1>1, <1>2, <1>3, <1>4 DEF ServiceStep

(* The command path implements the service of CommandService, in all that  *)
(* ImplementsService says but fairness: every command takes effect once,   *)
(* while it is accepted, and is answered once, afterwards                  *)
(* (cmd_unit.sv:30-160 and the three targets).                             *)
THEOREM ServesCommands == Spec => Service!Init /\ [][Service!Next]_Status
<1>1. Init => Service!Init
  BY DEF Init, Service!Init
<1>2. IInv /\ [Next]_vars => [Service!Next]_Status
  <2> SUFFICES ASSUME IInv, [Next]_vars
               PROVE  Service!Next \/ Status' = Status
    OBVIOUS
  <2>1. busy \subseteq Cmds /\ effected \subseteq busy
    BY DEF IInv, TypeOK
  <2> QED
    BY <2>1, NextStep, StatusStep
<1> QED
  BY <1>1, <1>2, CommandsInvariance, PTL DEF Spec

=============================================================================
