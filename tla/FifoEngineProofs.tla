--------------------------- MODULE FifoEngineProofs ---------------------------
(***************************************************************************)
(* The lists of FifoEngine partition the used cells, and the engine        *)
(* implements the queues of PktQueues, for any number of FIFOs and cells.  *)
(***************************************************************************)
EXTENDS FifoEngine, FiniteSetTheorems, WellFoundedInduction, TLAPS

(* The cells s, in this order, are a list with head h and last cell l in   *)
(* the links nx and the end flags il; e says whether it is empty.          *)
Listed(s, h, l, e, nx, il) ==
  /\ s \in Seq(Cells)
  /\ e <=> s = <<>>
  /\ ~ e => s[1] = h /\ s[Len(s)] = l
  /\ \A k \in DOMAIN s : il[s[k]] <=> k = Len(s)
  /\ \A k \in DOMAIN s : k # Len(s) => nx[s[k]] = s[k + 1]
  /\ IsInjective(s)

IsList(f, s) == Listed(s, head[f], last[f], empty[f], next, isLast)

IInv ==
  /\ TypeOK
  /\ \A f \in Fifos : IsList(f, Chain(f))
  /\ CellsPartitioned

-----------------------------------------------------------------------------
(* A set of natural numbers that is not empty has a least member.          *)
LEMMA LeastExists ==
  ASSUME NEW S \in SUBSET Nat, S # {}
  PROVE  \E x \in S : \A y \in S : x <= y
<1> DEFINE R == {ss \in Nat \X Nat : ss[1] < ss[2]}
<1>1. R = OpToRel(<, Nat)
  BY DEF OpToRel
<1>2. IsWellFoundedOn(R, Nat)
  BY <1>1, NatLessThanWellFounded
<1> HIDE DEF R
<1>3. PICK x \in S : \A y \in S : ~ (<<y, x>> \in R)
  BY <1>2, WFMin
<1>4. \A y \in S : ~ (y < x)
  BY <1>3 DEF R
<1> QED
  BY <1>3, <1>4

(* The numbers of cells.                                                   *)
LEMMA Params ==
  /\ NumFifo \in Nat \ {0} /\ NumCells \in Nat \ {0} /\ NumStatic \in Nat \ {0}
  /\ TotCells \in Nat /\ TotCells >= NumCells
  /\ NumStatic * NumFifo \in Nat /\ TotCells = NumCells + NumStatic * NumFifo
<1>1. \A m, n \in Nat : m * n \in Nat
  OBVIOUS
<1> QED
  BY <1>1, FifoParams DEF TotCells

(* The walk from a head exists: TotCells steps along the links.            *)
LEMMA WalkFacts ==
  ASSUME NEW f \in Fifos, TypeOK
  PROVE  /\ Walk(f) \in [1 .. TotCells -> Cells]
         /\ \A k \in 1 .. TotCells : Walk(f)[k] = IF k = 1 THEN head[f] ELSE next[Walk(f)[k - 1]]
<1> DEFINE W(g, n) == \A k \in 1 .. n : g[k] = IF k = 1 THEN head[f] ELSE next[g[k - 1]]
           Has(n) == \E g \in [1 .. n -> Cells] : W(g, n)
           S == {n \in Nat : ~ Has(n)}
<1>1. head[f] \in Cells /\ \A c \in Cells : next[c] \in Cells
  BY DEF TypeOK
<1>2. Has(0)
  <2>1. [k \in 1 .. 0 |-> head[f]] \in [1 .. 0 -> Cells]
    BY <1>1
  <2>2. \A k \in 1 .. 0 : FALSE
    OBVIOUS
  <2>3. W([k \in 1 .. 0 |-> head[f]], 0)
    BY <2>2
  <2> QED
    BY <2>1, <2>3
<1>3. ASSUME NEW n \in Nat, Has(n)
      PROVE  Has(n + 1)
  <2>1. PICK g \in [1 .. n -> Cells] : W(g, n)
    BY <1>3
  <2> DEFINE G == [k \in 1 .. n + 1 |-> IF k = n + 1 THEN IF n = 0 THEN head[f] ELSE next[g[n]]
                                                    ELSE g[k]]
  <2>2. G \in [1 .. n + 1 -> Cells]
    BY <1>1
  <2>3. ASSUME NEW k \in 1 .. n + 1
        PROVE  G[k] = IF k = 1 THEN head[f] ELSE next[G[k - 1]]
    <3>1. CASE k = n + 1
      <4>1. n # 0 => G[n] = g[n]
        OBVIOUS
      <4> QED
        BY <3>1, <4>1
    <3>2. CASE k # n + 1
      <4>1. k \in 1 .. n /\ G[k] = g[k]
        BY <3>2
      <4>2. k # 1 => G[k - 1] = g[k - 1]
        BY <4>1
      <4> QED
        BY <2>1, <4>1, <4>2
    <3> QED
      BY <3>1, <3>2
  <2> QED
    BY <2>2, <2>3
<1>4. S = {}
  <2> SUFFICES ASSUME S # {} PROVE FALSE
    OBVIOUS
  <2>1. S \subseteq Nat
    OBVIOUS
  <2> HIDE DEF Has
  <2>2. PICK n \in S : \A y \in S : n <= y
    BY <2>1, LeastExists
  <2>3. n # 0 /\ n - 1 \in Nat /\ n - 1 \notin S
    BY <1>2, <2>2
  <2>4. Has(n - 1)
    BY <2>3
  <2>5. Has((n - 1) + 1)
    BY <1>3, <2>3, <2>4
  <2> QED
    BY <2>2, <2>5
<1>5. PICK g \in [1 .. TotCells -> Cells] : W(g, TotCells)
  <2> HIDE DEF W
  <2>1. TotCells \in Nat
    BY Params
  <2> QED
    BY <1>4, <2>1
<1>6. g = [k \in 1 .. TotCells |-> IF k = 1 THEN head[f] ELSE next[g[k - 1]]]
  BY <1>5
<1> DEFINE at == CHOOSE h : h = [k \in 1 .. TotCells |-> IF k = 1 THEN head[f] ELSE next[h[k - 1]]]
<1>7. at = [k \in 1 .. TotCells |-> IF k = 1 THEN head[f] ELSE next[at[k - 1]]]
  BY <1>6
<1>8. Walk(f) = at
  BY DEF Walk
<1> HIDE DEF at
<1>9. DOMAIN at = 1 .. TotCells /\ W(at, TotCells)
  BY <1>7
<1> DEFINE Bad == {k \in 1 .. TotCells : at[k] \notin Cells}
<1>10. Bad = {}
  <2> SUFFICES ASSUME Bad # {} PROVE FALSE
    OBVIOUS
  <2>1. PICK k \in Bad : \A y \in Bad : k <= y
    <3>1. Bad \subseteq Nat
      BY Params
    <3> QED
      BY <3>1, LeastExists
  <2>2. k \in 1 .. TotCells /\ at[k] \notin Cells
    OBVIOUS
  <2>3. k # 1
    BY <1>1, <1>9, <2>2
  <2>4. k - 1 \in 1 .. TotCells /\ k - 1 \notin Bad
    BY <2>1, <2>2, <2>3, Params
  <2> QED
    BY <1>1, <1>9, <2>2, <2>3, <2>4
<1>11. at \in [1 .. TotCells -> Cells]
  BY <1>7, <1>10
<1> QED
  BY <1>8, <1>9, <1>11

(* A list has no more members than there are cells, and goes from the head *)
(* to the last cell.                                                       *)
LEMMA ListFacts ==
  ASSUME NEW s, NEW h, NEW l, NEW e, NEW nx, NEW il, Listed(s, h, l, e, nx, il)
  PROVE  /\ Len(s) \in 0 .. TotCells /\ DOMAIN s = 1 .. Len(s)
         /\ \A k \in DOMAIN s : s[k] \in Cells
         /\ s # <<>> => 1 \in DOMAIN s /\ Len(s) \in DOMAIN s /\ s[1] = h /\ s[Len(s)] = l
<1> DEFINE n == Len(s)
<1>1. n \in Nat /\ DOMAIN s = 1 .. n /\ s \in [1 .. n -> Cells] /\ (s # <<>> => n # 0)
  BY DEF Listed
<1> HIDE DEF n
<1>2. s \in Injection(1 .. n, Cells)
  BY <1>1 DEF Injection, Listed
<1>3. IsFiniteSet(Cells) /\ Cardinality(Cells) = TotCells
  <2>1. TotCells - 1 \in Int /\ (0 > TotCells - 1 <=> TotCells = 0)
    BY Params
  <2> QED
    BY <2>1, FS_Interval, Params DEF Cells
<1>4. IsFiniteSet(1 .. n) /\ Cardinality(1 .. n) = n
  BY <1>1, FS_Interval
<1>5. n <= TotCells
  BY <1>2, <1>3, <1>4, FS_Injection
<1>6. Len(s) = n
  BY DEF n
<1> QED
  BY <1>1, <1>5, <1>6, Params DEF Listed

(* Whatever satisfies the description of the list is the chain.            *)
LEMMA ListIsChain ==
  ASSUME TypeOK, NEW f \in Fifos, NEW s, IsList(f, s)
  PROVE  Chain(f) = s
<1> DEFINE n == Len(s)
           w == Walk(f)
<1>1. /\ n \in 0 .. TotCells /\ DOMAIN s = 1 .. n
      /\ empty[f] <=> s = <<>>
      /\ s # <<>> => n # 0 /\ s[1] = head[f]
      /\ \A k \in 1 .. n : s[k] \in Cells /\ (isLast[s[k]] <=> k = n)
      /\ \A k \in 1 .. n : k # n => next[s[k]] = s[k + 1]
  <2>1. /\ Len(s) \in 0 .. TotCells /\ DOMAIN s = 1 .. Len(s)
        /\ \A k \in DOMAIN s : s[k] \in Cells
        /\ s # <<>> => 1 \in DOMAIN s /\ s[1] = head[f]
    BY ListFacts DEF IsList
  <2>2. /\ empty[f] <=> s = <<>>
        /\ \A k \in DOMAIN s : isLast[s[k]] <=> k = Len(s)
        /\ \A k \in DOMAIN s : k # Len(s) => next[s[k]] = s[k + 1]
    BY DEF IsList, Listed
  <2>3. n = Len(s)
    OBVIOUS
  <2> HIDE DEF n
  <2>4. n \in 0 .. TotCells /\ DOMAIN s = 1 .. n
    BY <2>1, <2>3
  <2>5. s # <<>> => n # 0 /\ s[1] = head[f]
    BY <2>1, <2>4
  <2>6. \A k \in 1 .. n : s[k] \in Cells /\ (isLast[s[k]] <=> k = n)
    BY <2>1, <2>2, <2>3, <2>4, Zenon
  <2>7. \A k \in 1 .. n : k # n => next[s[k]] = s[k + 1]
    BY <2>2, <2>3, <2>4
  <2> QED
    BY <2>2, <2>4, <2>5, <2>6, <2>7
<1>2. /\ w \in [1 .. TotCells -> Cells]
      /\ \A k \in 1 .. TotCells : w[k] = IF k = 1 THEN head[f] ELSE next[w[k - 1]]
  BY WalkFacts
<1>3. s \in [1 .. n -> Cells]
  BY DEF IsList, Listed
<1>4. Chain(f) = IF empty[f] THEN <<>> ELSE [k \in Places(f) |-> w[k]]
  BY DEF Chain
<1>5. Places(f) = {k \in 1 .. TotCells : \A j \in 1 .. k - 1 : ~ isLast[w[j]]}
  BY DEF Places
<1> HIDE DEF n, w
<1>6. CASE s = <<>>
  BY <1>1, <1>4, <1>6
<1>7. CASE s # <<>>
  <2> DEFINE Bad == {k \in 1 .. n : w[k] # s[k]}
  <2>1. Bad = {}
    <3> SUFFICES ASSUME Bad # {} PROVE FALSE
      OBVIOUS
    <3>1. Bad \subseteq Nat
      BY <1>1
    <3>2. PICK k \in Bad : \A y \in Bad : k <= y
      BY <3>1, LeastExists
    <3>3. k \in 1 .. n /\ w[k] # s[k] /\ k \in 1 .. TotCells /\ n \in Nat
      BY <1>1, Params
    <3>4. k # 1
      BY <1>1, <1>2, <1>7, <3>3
    <3>5. k - 1 \in 1 .. n /\ k - 1 # n /\ (k - 1) + 1 = k /\ ~ (k <= k - 1)
      BY <3>3, <3>4
    <3>6. w[k - 1] = s[k - 1]
      BY <3>2, <3>5
    <3>7. w[k] = next[s[k - 1]]
      BY <1>2, <3>3, <3>4, <3>6
    <3> QED
      BY <1>1, <3>3, <3>5, <3>7
  <2> HIDE DEF Bad
  <2>2. \A k \in 1 .. n : w[k] = s[k]
    BY <2>1 DEF Bad
  <2>3. n \in Nat /\ n # 0 /\ n <= TotCells /\ TotCells \in Nat
    BY <1>1, <1>7, Params
  <2>4. Places(f) = 1 .. n
    <3>1. ASSUME NEW k \in 1 .. n
          PROVE  k \in Places(f)
      <4>1. \A j \in 1 .. k - 1 : j \in 1 .. n /\ j # n
        BY <2>3
      <4>2. \A j \in 1 .. k - 1 : ~ isLast[w[j]]
        BY <1>1, <2>2, <4>1
      <4> QED
        BY <1>5, <2>3, <4>2
    <3>2. ASSUME NEW k \in 1 .. TotCells, k > n
          PROVE  k \notin Places(f)
      <4>1. n \in 1 .. n /\ n \in 1 .. k - 1
        BY <2>3, <3>2
      <4>2. isLast[w[n]]
        BY <1>1, <2>2, <4>1
      <4> QED
        BY <1>5, <4>1, <4>2
    <3>3. Places(f) \subseteq 1 .. TotCells
      BY <1>5
    <3>4. \A k \in 1 .. TotCells : k \in 1 .. n \/ k > n
      BY <2>3
    <3> QED
      BY <3>1, <3>2, <3>3, <3>4
  <2>5. [k \in 1 .. n |-> w[k]] = [k \in 1 .. n |-> s[k]]
    BY <2>2
  <2> QED
    BY <1>1, <1>3, <1>4, <1>7, <2>4, <2>5
<1> QED
  BY <1>6, <1>7

-----------------------------------------------------------------------------
(* What the operations do to a list.                                       *)
LEMMA KeepList ==
  ASSUME NEW s, NEW h, NEW l, NEW e, NEW nx, NEW il, Listed(s, h, l, e, nx, il),
         NEW nx2, NEW il2,
         \A k \in DOMAIN s : nx2[s[k]] = nx[s[k]] /\ il2[s[k]] = il[s[k]]
  PROVE  Listed(s, h, l, e, nx2, il2)
BY DEF Listed

(* What a push adds to a queue.                                            *)
LEMMA AppendFacts ==
  ASSUME NEW S, NEW s \in Seq(S), NEW x \in S
  PROVE  LET t == Append(s, x)
         IN  /\ t \in Seq(S) /\ Len(t) = Len(s) + 1 /\ Len(s) \in Nat
             /\ DOMAIN s = 1 .. Len(s) /\ DOMAIN t = 1 .. Len(s) + 1
             /\ t[Len(s) + 1] = x /\ \A k \in DOMAIN s : t[k] = s[k]
             /\ Range(t) = Range(s) \cup {x}
             /\ IsInjective(s) /\ x \notin Range(s) => IsInjective(t)
<1> DEFINE t == Append(s, x)
           n == Len(s)
<1>1. /\ t \in Seq(S) /\ Len(t) = n + 1 /\ n \in Nat
      /\ DOMAIN t = 1 .. n + 1 /\ DOMAIN s = 1 .. n
      /\ t[n + 1] = x /\ \A k \in DOMAIN s : t[k] = s[k]
  OBVIOUS
<1> HIDE DEF t, n
<1>2. \A k \in DOMAIN t : k \in DOMAIN s \/ k = n + 1
  BY <1>1
<1>3. \A k \in DOMAIN s : k \in DOMAIN t
  BY <1>1
<1>4. n + 1 \in DOMAIN t
  BY <1>1
<1>5. Range(t) = Range(s) \cup {x}
  BY <1>1, <1>2, <1>3, <1>4 DEF Range
<1>6. IsInjective(s) /\ x \notin Range(s) => IsInjective(t)
  BY <1>1, <1>2 DEF IsInjective, Range
<1> QED
  BY <1>1, <1>5, <1>6 DEF t, n

(* What a pop takes from it.                                               *)
LEMMA TailFacts ==
  ASSUME NEW S, NEW s \in Seq(S), s # <<>>
  PROVE  LET t == Tail(s)
         IN  /\ t \in Seq(S) /\ Len(t) = Len(s) - 1 /\ Len(s) \in Nat \ {0} /\ Head(s) \in S
             /\ DOMAIN s = 1 .. Len(s) /\ DOMAIN t = 1 .. Len(s) - 1
             /\ 1 \in DOMAIN s /\ Head(s) = s[1]
             /\ \A k \in DOMAIN t : k + 1 \in DOMAIN s /\ t[k] = s[k + 1]
             /\ Range(s) = Range(t) \cup {Head(s)}
             /\ IsInjective(s) => IsInjective(t) /\ Head(s) \notin Range(t)
<1> DEFINE t == Tail(s)
           n == Len(s)
<1>1. /\ t \in Seq(S) /\ Len(t) = n - 1 /\ n \in Nat \ {0} /\ Head(s) \in S /\ Head(s) = s[1]
      /\ DOMAIN t = 1 .. n - 1 /\ DOMAIN s = 1 .. n
      /\ \A k \in 1 .. n - 1 : t[k] = s[k + 1]
  OBVIOUS
<1> HIDE DEF t, n
<1>2. 1 \in DOMAIN s /\ \A k \in DOMAIN t : k + 1 \in DOMAIN s /\ t[k] = s[k + 1]
  BY <1>1
<1>3. \A k \in DOMAIN s : k = 1 \/ (k - 1 \in DOMAIN t /\ s[k] = t[k - 1])
  BY <1>1
<1>4. Range(s) = Range(t) \cup {Head(s)}
  BY <1>1, <1>2, <1>3 DEF Range
<1>5. ASSUME IsInjective(s)
      PROVE  IsInjective(t) /\ Head(s) \notin Range(t)
  <2>1. \A k \in DOMAIN t : k \in Nat /\ k # 0
    BY <1>1
  <2>2. ASSUME NEW j \in DOMAIN t, NEW k \in DOMAIN t, t[j] = t[k]
        PROVE  j = k
    <3>1. j + 1 = k + 1
      BY <1>2, <1>5, <2>2 DEF IsInjective
    <3> QED
      BY <2>1, <3>1
  <2>3. ASSUME NEW k \in DOMAIN t
        PROVE  t[k] # Head(s)
    <3>1. k + 1 # 1
      BY <2>1
    <3> QED
      BY <1>1, <1>2, <1>5, <3>1 DEF IsInjective
  <2> QED
    BY <2>2, <2>3 DEF IsInjective, Range
<1> QED
  BY <1>1, <1>2, <1>4, <1>5 DEF t, n

(* A queue without repetition has as many members as entries.              *)
LEMMA DistinctCount ==
  ASSUME NEW S, NEW s \in Seq(S), IsInjective(s)
  PROVE  IsFiniteSet(Range(s)) /\ Cardinality(Range(s)) = Len(s)
<1> DEFINE n == Len(s)
<1>1. n \in Nat /\ DOMAIN s = 1 .. n /\ s \in [1 .. n -> S]
  OBVIOUS
<1> HIDE DEF n
<1>2. s \in [1 .. n -> Range(s)]
  BY <1>1 DEF Range
<1>3. s \in Bijection(1 .. n, Range(s))
  BY <1>2 DEF Bijection, Injection, Surjection, Range
<1>4. ExistsBijection(1 .. n, Range(s))
  BY <1>3 DEF ExistsBijection
<1>5. IsFiniteSet(Range(s)) /\ Cardinality(Range(s)) = n
  BY <1>1, <1>4, FS_CountingElements, FS_NatBijection
<1> QED
  BY <1>5 DEF n

(* Without its head a list goes on at the next cell; it ends there when    *)
(* the head was the last cell.                                             *)
LEMMA PopList ==
  ASSUME NEW s, NEW h, NEW l, NEW nx, NEW il, Listed(s, h, l, FALSE, nx, il)
  PROVE  /\ Listed(Tail(s), nx[h], l, il[h], nx, il)
         /\ il[h] => Len(s) = 1
<1> DEFINE t == Tail(s)
           n == Len(s)
<1>1. s \in Seq(Cells) /\ s # <<>> /\ IsInjective(s)
  BY DEF Listed
<1>2. /\ t \in Seq(Cells) /\ Len(t) = n - 1 /\ n \in Nat \ {0}
      /\ DOMAIN t = 1 .. n - 1 /\ DOMAIN s = 1 .. n
      /\ \A k \in DOMAIN t : k + 1 \in DOMAIN s /\ t[k] = s[k + 1]
      /\ IsInjective(t)
  BY <1>1, TailFacts
<1>3. /\ s[1] = h /\ s[n] = l
      /\ \A k \in 1 .. n : il[s[k]] <=> k = n
      /\ \A k \in 1 .. n : k # n => nx[s[k]] = s[k + 1]
  BY <1>2 DEF Listed
<1> HIDE DEF t
<1> DEFINE m == Len(t)
<1>10. t = <<>> <=> m = 0
  BY <1>2
<1> HIDE DEF n
<1>4. m = n - 1 /\ DOMAIN t = 1 .. m /\ (t = <<>> <=> m = 0)
  BY <1>2, <1>10
<1> HIDE DEF m
<1>5. il[h] <=> n = 1
  BY <1>2, <1>3
<1>6. il[h] <=> t = <<>>
  BY <1>2, <1>4, <1>5
<1>7. ~ il[h] => t[1] = nx[h] /\ t[m] = l
  <2> SUFFICES ASSUME ~ il[h] PROVE t[1] = nx[h] /\ t[m] = l
    OBVIOUS
  <2>1. n # 1 /\ 1 \in DOMAIN t /\ m \in DOMAIN t /\ m + 1 = n /\ 1 \in 1 .. n /\ 1 + 1 = 2
    BY <1>2, <1>4, <1>5
  <2>2. t[1] = s[2] /\ t[m] = s[n]
    BY <1>2, <2>1
  <2> QED
    BY <1>3, <2>1, <2>2
<1>8. ASSUME NEW k \in DOMAIN t
      PROVE  /\ il[t[k]] <=> k = m
             /\ k # m => nx[t[k]] = t[k + 1]
  <2>1. k + 1 \in 1 .. n /\ t[k] = s[k + 1] /\ (k = m <=> k + 1 = n) /\ k \in Nat
    BY <1>2, <1>4
  <2>2. il[t[k]] <=> k = m
    BY <1>3, <2>1
  <2>3. ASSUME k # m
        PROVE  nx[t[k]] = t[k + 1]
    <3>1. k + 1 \in DOMAIN t
      BY <1>2, <1>4, <2>1, <2>3
    <3> QED
      BY <1>2, <1>3, <2>1, <2>3, <3>1
  <2> QED
    BY <2>2, <2>3
<1>9. Listed(t, nx[h], l, il[h], nx, il)
  BY <1>2, <1>6, <1>7, <1>8 DEF Listed, m
<1> QED
  BY <1>5, <1>9 DEF t, n

(* The list t is s with cell c behind it; the links nx2, il2 are nx, il    *)
(* but for that cell and the end of s.                                     *)
Extends(s, h, l, e, c, nx, il, t, h2, e2, nx2, il2) ==
  /\ t = Append(s, c) /\ h2 = (IF e THEN c ELSE h) /\ e2 = FALSE
  /\ c \notin Range(s) /\ il2[c]
  /\ \A k \in DOMAIN s : k # Len(s) => nx2[s[k]] = nx[s[k]] /\ il2[s[k]] = il[s[k]]
  /\ ~ e => nx2[l] = c /\ ~ il2[l]

(* With one more cell, which is linked behind the last one and marked as   *)
(* the last, it is a list.                                                 *)
LEMMA PushList ==
  ASSUME NEW s, NEW h, NEW l, NEW e, NEW nx, NEW il, Listed(s, h, l, e, nx, il),
         NEW c \in Cells, NEW nx2, NEW il2, NEW t, NEW h2, NEW e2,
         Extends(s, h, l, e, c, nx, il, t, h2, e2, nx2, il2)
  PROVE  Listed(t, h2, c, e2, nx2, il2)
<1> DEFINE n == Len(s)
           m == Len(t)
<1>0. /\ c \notin Range(s) /\ il2[c]
      /\ \A k \in DOMAIN s : k # n => nx2[s[k]] = nx[s[k]] /\ il2[s[k]] = il[s[k]]
      /\ ~ e => nx2[l] = c /\ ~ il2[l]
      /\ t = Append(s, c) /\ h2 = (IF e THEN c ELSE h) /\ e2 = FALSE
  BY DEF Extends
<1>1. s \in Seq(Cells) /\ IsInjective(s) /\ (e <=> s = <<>>)
  BY DEF Listed
<1>2. /\ t \in Seq(Cells) /\ Len(t) = n + 1 /\ n \in Nat
      /\ DOMAIN s = 1 .. n /\ DOMAIN t = 1 .. n + 1
      /\ t[n + 1] = c /\ \A k \in DOMAIN s : t[k] = s[k]
      /\ IsInjective(t)
  <2>1. t = Append(s, c) /\ c \notin Range(s)
    BY <1>0
  <2> HIDE DEF n
  <2>2. Len(t) = Len(s) + 1 /\ n = Len(s)
    BY <1>1, <2>1, AppendFacts DEF n
  <2> QED
    BY <1>1, <2>1, <2>2, AppendFacts
<1>3. m = n + 1 /\ (t = <<>> <=> m = 0) /\ (s = <<>> <=> n = 0)
  BY <1>1, <1>2
<1>4. /\ s # <<>> => s[1] = h /\ s[n] = l
      /\ \A k \in DOMAIN s : il[s[k]] <=> k = n
      /\ \A k \in DOMAIN s : k # n => nx[s[k]] = s[k + 1]
  BY DEF Listed
<1> HIDE DEF n, m
<1>6. t[1] = h2 /\ t[m] = c
  BY <1>0, <1>1, <1>2, <1>3, <1>4
<1>7. ASSUME NEW k \in DOMAIN t
      PROVE  /\ il2[t[k]] <=> k = m
             /\ k # m => nx2[t[k]] = t[k + 1]
  <2>1. CASE k = m
    BY <1>0, <1>2, <1>3, <2>1
  <2>2. CASE k # m /\ k = n
    <3>1. k \in DOMAIN s /\ ~ e /\ t[k] = l /\ t[k + 1] = c
      BY <1>1, <1>2, <1>3, <1>4, <2>2
    <3> QED
      BY <1>0, <2>2, <3>1
  <2>3. CASE k # m /\ k # n
    <3>1. k \in DOMAIN s /\ k + 1 \in DOMAIN s
      BY <1>2, <1>3, <2>3
    <3>2. t[k] = s[k] /\ t[k + 1] = s[k + 1]
      BY <1>2, <3>1
    <3>3. nx2[s[k]] = nx[s[k]] /\ il2[s[k]] = il[s[k]]
      BY <1>0, <2>3, <3>1
    <3> QED
      BY <1>4, <2>3, <3>1, <3>2, <3>3
  <2> QED
    BY <2>1, <2>2, <2>3
<1>8. m # 0
  BY <1>2, <1>3
<1>9. Listed(t, h2, c, e2, nx2, il2)
  BY <1>0, <1>2, <1>3, <1>6, <1>7, <1>8 DEF Listed, m
<1> QED
  BY <1>9

-----------------------------------------------------------------------------
(* n sets of at most k members, one of them smaller, have fewer than k * n *)
(* members together.                                                       *)
LEMMA PartsBound ==
  ASSUME NEW n \in Nat, NEW k \in Nat, NEW G, NEW f \in 0 .. n - 1,
         \A i \in 0 .. n - 1 : IsFiniteSet(G[i]) /\ Cardinality(G[i]) <= k,
         Cardinality(G[f]) < k
  PROVE  /\ IsFiniteSet(UNION {G[i] : i \in 0 .. n - 1})
         /\ Cardinality(UNION {G[i] : i \in 0 .. n - 1}) < k * n
<1> DEFINE U(j) == UNION {G[i] : i \in 0 .. j - 1}
           x(j) == IF f < j THEN 1 ELSE 0
           B(j) == IsFiniteSet(U(j)) /\ Cardinality(U(j)) + x(j) <= k * j
           S == {j \in 0 .. n : ~ B(j)}
<1>1. B(0)
  <2>1. U(0) = {}
    OBVIOUS
  <2>2. k * 0 = 0 /\ x(0) = 0
    OBVIOUS
  <2>3. IsFiniteSet(U(0)) /\ Cardinality(U(0)) = 0
    BY <2>1, FS_EmptySet, Zenon
  <2> HIDE DEF U, x
  <2> QED
    BY <2>2, <2>3
<1>2. ASSUME NEW j \in 0 .. n - 1, B(j)
      PROVE  B(j + 1)
  <2>1. U(j + 1) = U(j) \cup G[j]
    <3>1. 0 .. (j + 1) - 1 = (0 .. j - 1) \cup {j}
      OBVIOUS
    <3> QED
      BY <3>1
  <2>2. x(j + 1) = IF j = f THEN 1 ELSE x(j)
    OBVIOUS
  <2>3. j = f => x(j) = 0
    OBVIOUS
  <2>4. k * (j + 1) = k * j + k /\ k * j \in Nat
    <3>1. \A a, b \in Nat : a * (b + 1) = a * b + a /\ a * b \in Nat
      OBVIOUS
    <3> QED
      BY <3>1
  <2>5. x(j) \in 0 .. 1
    OBVIOUS
  <2> DEFINE u == U(j)
             g == G[j]
  <2>6. /\ IsFiniteSet(u) /\ Cardinality(u) + x(j) <= k * j
        /\ IsFiniteSet(g) /\ Cardinality(g) <= k /\ (j = f => Cardinality(g) < k)
    BY <1>2
  <2> HIDE DEF U, x, u, g
  <2>7. IsFiniteSet(u \cup g) /\ Cardinality(u \cup g) = Cardinality(u) + Cardinality(g) - Cardinality(u \cap g)
    BY <2>6, FS_Union
  <2>8. IsFiniteSet(u \cap g)
    BY <2>6, FS_Subset
  <2>9. Cardinality(u) \in Nat /\ Cardinality(g) \in Nat /\ Cardinality(u \cap g) \in Nat
    BY <2>6, <2>8, FS_CardinalityType
  <2>10. Cardinality(u \cup g) + x(j + 1) <= k * (j + 1)
    BY <2>2, <2>3, <2>4, <2>5, <2>6, <2>7, <2>9
  <2> QED
    BY <2>1, <2>7, <2>10 DEF u, g
<1>3. S = {}
  <2> SUFFICES ASSUME S # {} PROVE FALSE
    OBVIOUS
  <2>1. S \subseteq Nat
    OBVIOUS
  <2> HIDE DEF B
  <2>2. PICK j \in S : \A y \in S : j <= y
    BY <2>1, LeastExists
  <2>3. j \in 0 .. n /\ j # 0
    BY <1>1, <2>2
  <2>4. j - 1 \in 0 .. n - 1 /\ j - 1 \notin S /\ (j - 1) + 1 = j
    BY <2>2, <2>3
  <2>5. B(j - 1)
    BY <2>4
  <2>6. B((j - 1) + 1)
    BY <1>2, <2>4, <2>5
  <2> QED
    BY <2>4, <2>6
<1>4. B(n)
  <2> HIDE DEF B
  <2> QED
    BY <1>3
<1>5. x(n) = 1
  OBVIOUS
<1>6. k * n \in Nat /\ Cardinality(U(n)) \in Nat
  <2>1. \A a, b \in Nat : a * b \in Nat
    OBVIOUS
  <2> QED
    BY <1>4, <2>1, FS_CardinalityType
<1> HIDE DEF x
<1>7. IsFiniteSet(U(n)) /\ Cardinality(U(n)) < k * n
  BY <1>4, <1>5, <1>6
<1> QED
  BY <1>7 DEF U

(* The leading-zero counter finds a free cell if there is one.             *)
LEMMA FirstFreeFacts ==
  ASSUME NEW C \in SUBSET Nat, ~ (C \subseteq used)
  PROVE  FirstFree(C) \in C \ used
<1>1. \E c \in C \ used : \A d \in C \ used : c <= d
  <2>1. (C \ used) \in SUBSET Nat /\ C \ used # {}
    OBVIOUS
  <2> QED
    BY <2>1, LeastExists
<1> QED
  BY <1>1 DEF FirstFree

(* The dynamic and the static cells, and how many there are.               *)
LEMMA CellClasses ==
  /\ Cells \subseteq Nat /\ DynamicCells \subseteq Nat /\ StaticCells \subseteq Nat
  /\ Cells = DynamicCells \cup StaticCells /\ DynamicCells \cap StaticCells = {}
  /\ IsFiniteSet(Cells) /\ IsFiniteSet(DynamicCells) /\ IsFiniteSet(StaticCells)
  /\ Cardinality(DynamicCells) = NumCells
  /\ Cardinality(StaticCells) = NumStatic * NumFifo
<1> DEFINE n == NumStatic * NumFifo
<1>1. NumCells \in Nat \ {0} /\ n \in Nat /\ TotCells = NumCells + n /\ TotCells \in Nat
  BY Params
<1> HIDE DEF n
<1>2. /\ Cells \subseteq Nat /\ DynamicCells \subseteq Nat /\ StaticCells \subseteq Nat
      /\ Cells = DynamicCells \cup StaticCells /\ DynamicCells \cap StaticCells = {}
  BY <1>1 DEF Cells, DynamicCells, StaticCells
<1>3. TotCells - 1 \in Int /\ NumCells - 1 \in Int /\ NumCells \in Int
  BY <1>1
<1>4. IsFiniteSet(Cells) /\ IsFiniteSet(DynamicCells) /\ IsFiniteSet(StaticCells)
  BY <1>3, FS_Interval DEF Cells, DynamicCells, StaticCells
<1>5. Cardinality(DynamicCells) = NumCells
  BY <1>1, <1>3, FS_Interval DEF DynamicCells
<1>6. Cardinality(StaticCells) = IF NumCells > TotCells - 1 THEN 0 ELSE (TotCells - 1) - NumCells + 1
  BY <1>3, FS_Interval DEF StaticCells
<1>7. Cardinality(StaticCells) = n
  BY <1>1, <1>6
<1> QED
  BY <1>2, <1>4, <1>5, <1>7 DEF n

(* A FIFO below its static share finds a static cell, and one that is not  *)
(* full finds a cell: the pushed cell is free, and static as long as the   *)
(* share lasts (fifo_engine.sv:113-125).                                   *)
LEMMA PushCellFree ==
  ASSUME TypeOK, CellsPartitioned, NEW f \in Fifos, ~ Full(f)
  PROVE  /\ PushCell(f) \in Cells \ used
         /\ PushCell(f) \in StaticCells <=> PushingToStatic(f)
<1>1. CASE PushingToStatic(f)
  <2> DEFINE G == [g \in Fifos |-> ChainCells(g) \cap StaticCells]
  <2>1. \A g \in Fifos : staticOccup[g] \in 0 .. NumStatic /\ staticOccup[g] = Cardinality(G[g])
    BY DEF TypeOK, CellsPartitioned
  <2>2. \A g \in Fifos : IsFiniteSet(G[g]) /\ Cardinality(G[g]) <= NumStatic
    <3>1. \A g \in Fifos : IsFiniteSet(G[g])
      BY CellClasses, FS_Subset
    <3>2. \A g \in Fifos : Cardinality(G[g]) <= NumStatic
      BY <2>1, Params
    <3> QED
      BY <3>1, <3>2
  <2>3. Cardinality(G[f]) < NumStatic
    BY <1>1, <2>1 DEF PushingToStatic
  <2>4. used \cap StaticCells = UNION {G[g] : g \in 0 .. NumFifo - 1}
    BY DEF CellsPartitioned, Fifos
  <2>5. Cardinality(used \cap StaticCells) < NumStatic * NumFifo
    <3> HIDE DEF G
    <3> QED
      BY <2>2, <2>3, <2>4, Params, PartsBound DEF Fifos
  <2>6. ~ (StaticCells \subseteq used)
    <3> SUFFICES ASSUME StaticCells \subseteq used PROVE FALSE
      OBVIOUS
    <3>1. used \cap StaticCells = StaticCells
      OBVIOUS
    <3> QED
      BY <2>5, <3>1, CellClasses, Params
  <2>7. PushCell(f) \in StaticCells \ used
    BY <1>1, <2>6, FirstFreeFacts, CellClasses DEF PushCell
  <2> QED
    BY <1>1, <2>7, CellClasses
<1>2. CASE ~ PushingToStatic(f)
  <2>1. staticOccup[f] = NumStatic
    BY <1>2, Params DEF PushingToStatic, TypeOK
  <2>2. ~ (DynamicCells \subseteq used)
    BY <2>1 DEF Full, NoFreeDynamic
  <2>3. PushCell(f) \in DynamicCells \ used
    BY <1>2, <2>2, FirstFreeFacts, CellClasses DEF PushCell
  <2> QED
    BY <1>2, <2>3, CellClasses
<1> QED
  BY <1>1, <1>2

-----------------------------------------------------------------------------
(* What a cycle does to the links, spelled out for the FIFO pushed, if any *)
(* (fifo_engine.sv:166-202).                                               *)
Linked(g, r, pop) == ~ empty[g] /\ ~ (pop /\ r = g /\ isLast[head[r]])

Pushed(g, c, lk, e) ==
  /\ \A f \in Fifos : last'[f] = IF f = g THEN c ELSE last[f]
  /\ \A d \in Cells : /\ next'[d] = IF lk /\ d = last[g] THEN c ELSE next[d]
                      /\ isLast'[d] = IF lk /\ d = last[g] THEN FALSE ELSE isLast[d] \/ d = c
                      /\ mem'[d] = IF d = c THEN e ELSE mem[d]

(* A cycle without a push leaves the links alone.                          *)
LEMMA NoPush ==
  ASSUME TypeOK, NEW e, NEW r, NEW pop, FifoCycle({}, e, r, pop)
  PROVE  next' = next /\ isLast' = isLast /\ last' = last /\ mem' = mem
<1>1. next' = [c \in Cells |-> next[c]] /\ isLast' = [c \in Cells |-> isLast[c] \/ FALSE]
  BY DEF FifoCycle, LinkCells
<1>2. last' = [f \in Fifos |-> last[f]] /\ mem' = [c \in Cells |-> mem[c]]
  BY DEF FifoCycle, LinkCells
<1> QED
  BY <1>1, <1>2 DEF TypeOK

(* A cycle with a push writes the new cell and links it behind the last    *)
(* one.                                                                    *)
LEMMA OnePush ==
  ASSUME TypeOK, NEW g \in Fifos, NEW e, NEW r, NEW pop,
         NEW P, P = {g}, FifoCycle(P, e, r, pop)
  PROVE  Pushed(g, PushCell(g), Linked(g, r, pop), e)
<1> DEFINE c == PushCell(g)
           linked == {f \in {g} : ~ empty[f] /\ ~ SwapSingle({g}, r, pop)}
           succ(d) == {f \in linked : last[f] = d}
<1>0. FifoCycle({g}, e, r, pop)
  OBVIOUS
<1>1. SwapSingle({g}, r, pop) <=> pop /\ r = g /\ isLast[head[r]]
  BY DEF SwapSingle
<1>2. \A d : succ(d) = IF Linked(g, r, pop) /\ d = last[g] THEN {g} ELSE {}
  BY <1>1 DEF Linked
<1>3. /\ last' = [f \in Fifos |-> IF f \in {g} THEN PushCell(f) ELSE last[f]]
      /\ isLast' = [d \in Cells |-> IF succ(d) # {} THEN FALSE
                                    ELSE isLast[d] \/ \E f \in {g} : d = PushCell(f)]
      /\ next' = [d \in Cells |-> IF \E f \in succ(d) : TRUE
                                  THEN PushCell(CHOOSE f \in succ(d) : TRUE)
                                  ELSE next[d]]
      /\ mem' = [d \in Cells |-> IF \E f \in {g} : d = PushCell(f) THEN e ELSE mem[d]]
  BY <1>0 DEF FifoCycle, LinkCells
<1> HIDE DEF succ
<1>4. \A d : (\E f \in {g} : d = PushCell(f)) <=> d = c
  OBVIOUS
<1>5. (CHOOSE f \in {g} : TRUE) = g
  OBVIOUS
<1>6. \A d \in Cells : isLast'[d] = IF Linked(g, r, pop) /\ d = last[g] THEN FALSE ELSE isLast[d] \/ d = c
  BY <1>2, <1>3, <1>4
<1>7. \A d \in Cells : next'[d] = IF Linked(g, r, pop) /\ d = last[g] THEN c ELSE next[d]
  <2>1. ASSUME NEW d \in Cells, Linked(g, r, pop) /\ d = last[g]
        PROVE  next'[d] = c
    <3>1. succ(d) = {g}
      BY <1>2, <2>1
    <3> QED
      BY <1>3, <1>5, <3>1
  <2>2. ASSUME NEW d \in Cells, ~ (Linked(g, r, pop) /\ d = last[g])
        PROVE  next'[d] = next[d]
    <3>1. succ(d) = {}
      BY <1>2, <2>2
    <3> QED
      BY <1>3, <3>1
  <2> QED
    BY <2>1, <2>2
<1>8. /\ \A f \in Fifos : last'[f] = IF f = g THEN c ELSE last[f]
      /\ \A d \in Cells : mem'[d] = IF d = c THEN e ELSE mem[d]
  BY <1>3, <1>4
<1> QED
  BY <1>6, <1>7, <1>8 DEF Pushed

(* The list of FIFO f after the cycle.                                     *)
Rest(f, r, pop) == IF pop /\ f = r THEN Tail(Chain(f)) ELSE Chain(f)
NewChain(f, P, r, pop) ==
  IF f \in P THEN Append(Rest(f, r, pop), PushCell(f)) ELSE Rest(f, r, pop)

(* The chain of a FIFO is empty when its flag says so, and starts at its   *)
(* head otherwise.                                                         *)
LEMMA ChainFacts ==
  ASSUME IInv, NEW f \in Fifos
  PROVE  /\ Chain(f) \in Seq(Cells)
         /\ empty[f] <=> Chain(f) = <<>>
         /\ \A k \in DOMAIN Chain(f) : Chain(f)[k] \in ChainCells(f)
         /\ ChainCells(f) \subseteq used
         /\ ~ empty[f] => head[f] \in ChainCells(f) /\ last[f] \in ChainCells(f)
         /\ ~ empty[f] => Chain(f) # <<>> /\ Head(Chain(f)) = head[f]
<1>1. Listed(Chain(f), head[f], last[f], empty[f], next, isLast)
  BY DEF IInv, IsList
<1>2. Chain(f) \in Seq(Cells) /\ (empty[f] <=> Chain(f) = <<>>)
  BY <1>1 DEF Listed
<1>3. \A k \in DOMAIN Chain(f) : Chain(f)[k] \in ChainCells(f)
  BY DEF ChainCells, Range
<1>4. ChainCells(f) \subseteq used
  BY DEF IInv, CellsPartitioned
<1>5. ASSUME ~ empty[f]
      PROVE  /\ head[f] \in ChainCells(f) /\ last[f] \in ChainCells(f)
             /\ Head(Chain(f)) = head[f]
  <2>1. /\ Chain(f) # <<>> => /\ 1 \in DOMAIN Chain(f) /\ Len(Chain(f)) \in DOMAIN Chain(f)
                              /\ Chain(f)[1] = head[f] /\ Chain(f)[Len(Chain(f))] = last[f]
    BY <1>1, ListFacts
  <2>2. Head(Chain(f)) = Chain(f)[1]
    BY <1>2, <1>5
  <2> QED
    BY <1>2, <1>3, <1>5, <2>1, <2>2
<1> QED
  BY <1>2, <1>3, <1>4, <1>5

(* The rest of a list stays one when nothing is pushed to its FIFO.        *)
LEMMA RestList ==
  ASSUME IInv, NEW f \in Fifos, NEW r \in Fifos, NEW pop \in BOOLEAN, pop => ~ empty[r]
  PROVE  /\ Listed(Rest(f, r, pop), IF pop /\ f = r THEN next[head[f]] ELSE head[f], last[f],
                   IF pop /\ f = r THEN isLast[head[f]] ELSE empty[f], next, isLast)
         /\ Range(Rest(f, r, pop)) \subseteq ChainCells(f)
         /\ pop /\ f = r => /\ head[f] \notin Range(Rest(f, r, pop))
                            /\ ChainCells(f) = Range(Rest(f, r, pop)) \cup {head[f]}
<1>1. Listed(Chain(f), head[f], last[f], empty[f], next, isLast)
  BY DEF IInv, IsList
<1>2. CASE pop /\ f = r
  <2>1. empty[f] = FALSE
    BY <1>2 DEF IInv, TypeOK
  <2>2. Listed(Tail(Chain(f)), next[head[f]], last[f], isLast[head[f]], next, isLast)
    BY <1>1, <2>1, PopList
  <2>3. /\ Range(Chain(f)) = Range(Tail(Chain(f))) \cup {Head(Chain(f))}
        /\ IsInjective(Chain(f)) => Head(Chain(f)) \notin Range(Tail(Chain(f)))
    BY <2>1, ChainFacts, TailFacts
  <2>4. IsInjective(Chain(f)) /\ Head(Chain(f)) = head[f]
    BY <1>1, <2>1, ChainFacts DEF Listed
  <2> QED
    BY <1>2, <2>2, <2>3, <2>4 DEF Rest, ChainCells
<1>3. CASE ~ (pop /\ f = r)
  BY <1>1, <1>3 DEF Rest, ChainCells
<1> QED
  BY <1>2, <1>3

(* What is described as the list of a FIFO is its chain, in this state     *)
LEMMA ChainsAreLists == TypeOK => \A f \in Fifos, s \in Seq(Cells) : IsList(f, s) => Chain(f) = s
BY ListIsChain

(* and in the next one.                                                    *)
LEMMA ChainsStayLists == (TypeOK => \A f \in Fifos, s \in Seq(Cells) : IsList(f, s) => Chain(f) = s)'
BY ChainsAreLists, PTL

(* The lists after a cycle (fifo_engine.sv:166-202).                       *)
LEMMA StepLists ==
  ASSUME IInv, NEW r \in Fifos, NEW pop \in BOOLEAN, NEW P \in {{}} \cup {{f} : f \in Fifos},
         NEW e \in Elems, \A f \in P : ~ Full(f), pop => ~ empty[r], FifoCycle(P, e, r, pop),
         NEW f \in Fifos
  PROVE  Listed(NewChain(f, P, r, pop), head'[f], last'[f], empty'[f], next', isLast')
<1> DEFINE s == Rest(f, r, pop)
           h == IF pop /\ f = r THEN next[head[f]] ELSE head[f]
           em == IF pop /\ f = r THEN isLast[head[f]] ELSE empty[f]
<1>1. /\ Listed(s, h, last[f], em, next, isLast)
      /\ Range(s) \subseteq ChainCells(f)
  BY RestList
<1>2. /\ head' = [x \in Fifos |->
                    IF pop /\ x = r
                    THEN IF SwapSingle(P, r, pop) THEN PushCell(x) ELSE next[head[x]]
                    ELSE IF x \in P /\ empty[x] THEN PushCell(x) ELSE head[x]]
      /\ empty' = [x \in Fifos |->
                     IF pop /\ x = r
                     THEN IF SwapSingle(P, r, pop) THEN empty[x] ELSE isLast[head[x]]
                     ELSE empty[x] /\ x \notin P]
  BY DEF FifoCycle, LinkCells
<1>3. TypeOK /\ CellsPartitioned
  BY DEF IInv
<1>4. /\ s \in Seq(Cells) /\ IsInjective(s) /\ DOMAIN s = 1 .. Len(s) /\ Len(s) \in Nat
      /\ ~ em => s # <<>> /\ Len(s) \in DOMAIN s /\ s[Len(s)] = last[f]
      /\ \A k \in DOMAIN s : s[k] \in ChainCells(f) /\ s[k] \in Cells /\ s[k] \in used
  <2>1. s \in Seq(Cells) /\ IsInjective(s) /\ (em <=> s = <<>>)
    BY <1>1 DEF Listed
  <2>2. /\ DOMAIN s = 1 .. Len(s) /\ Len(s) \in Nat /\ \A k \in DOMAIN s : s[k] \in Cells
        /\ s # <<>> => Len(s) \in DOMAIN s /\ s[Len(s)] = last[f]
    BY <1>1, ListFacts
  <2>3. \A k \in DOMAIN s : s[k] \in Range(s)
    BY DEF Range
  <2>4. ChainCells(f) \subseteq used
    BY ChainFacts
  <2> HIDE DEF s
  <2> QED
    BY <1>1, <2>1, <2>2, <2>3, <2>4
<1> HIDE DEF s
<1>5. CASE f \notin P
  <2>1. head'[f] = h /\ empty'[f] = em
    <3>1. f = r => ~ SwapSingle(P, r, pop)
      BY <1>5 DEF SwapSingle
    <3>2. em \in BOOLEAN /\ empty[f] \in BOOLEAN
      BY <1>3 DEF TypeOK
    <3> QED
      BY <1>2, <1>5, <3>1, <3>2
  <2>2. last'[f] = last[f]
    BY <1>5 DEF FifoCycle, LinkCells
  <2>3. NewChain(f, P, r, pop) = s
    BY <1>5 DEF NewChain, s
  <2>4. \A k \in DOMAIN s : next'[s[k]] = next[s[k]] /\ isLast'[s[k]] = isLast[s[k]]
    <3>1. CASE P = {}
      BY <1>3, <3>1, NoPush
    <3>2. ASSUME NEW g \in Fifos, P = {g}
          PROVE  \A k \in DOMAIN s : next'[s[k]] = next[s[k]] /\ isLast'[s[k]] = isLast[s[k]]
      <4> DEFINE c == PushCell(g)
      <4>1. c \notin used /\ f # g
        BY <1>3, <1>5, <3>2, PushCellFree
      <4>2. Linked(g, r, pop) => last[g] \in ChainCells(g)
        BY ChainFacts DEF Linked
      <4>3. ChainCells(f) \cap ChainCells(g) = {}
        BY <1>3, <4>1 DEF CellsPartitioned
      <4>4. \A d \in Cells :
               /\ next'[d] = IF Linked(g, r, pop) /\ d = last[g] THEN c ELSE next[d]
               /\ isLast'[d] = IF Linked(g, r, pop) /\ d = last[g] THEN FALSE ELSE isLast[d] \/ d = c
        <5>1. Pushed(g, c, Linked(g, r, pop), e)
          BY <1>3, <3>2, OnePush
        <5> QED
          BY <5>1 DEF Pushed
      <4>5. \A d \in Cells : isLast[d] \in BOOLEAN
        BY <1>3 DEF TypeOK
      <4> HIDE DEF c
      <4>6. ASSUME NEW k \in DOMAIN s
            PROVE  next'[s[k]] = next[s[k]] /\ isLast'[s[k]] = isLast[s[k]]
        <5>1. s[k] \in Cells /\ s[k] # c /\ ~ (Linked(g, r, pop) /\ s[k] = last[g])
          BY <1>4, <4>1, <4>2, <4>3
        <5> QED
          BY <4>4, <4>5, <5>1
      <4> QED
        BY <4>6
    <3> QED
      BY <3>1, <3>2
  <2> HIDE DEF h, em
  <2> QED
    BY <1>1, <2>1, <2>2, <2>3, <2>4, KeepList
<1>6. CASE f \in P
  <2>1. P = {f}
    BY <1>6
  <2> DEFINE c == PushCell(f)
             lk == Linked(f, r, pop)
  <2>2. c \in Cells /\ c \notin used
    BY <1>3, <2>1, PushCellFree
  <2>3. SwapSingle(P, r, pop) <=> pop /\ f = r /\ isLast[head[f]]
    BY <2>1 DEF SwapSingle
  <2>4. em \in BOOLEAN /\ (lk <=> ~ em)
    BY <1>3 DEF TypeOK, Linked
  <2>5. head'[f] = (IF em THEN c ELSE h) /\ empty'[f] = FALSE
    <3>1. empty[f] \in BOOLEAN /\ isLast[head[f]] \in BOOLEAN
      BY <1>3 DEF TypeOK
    <3> QED
      BY <1>2, <1>6, <2>3, <3>1
  <2>7. /\ last'[f] = c
        /\ \A d \in Cells : next'[d] = IF lk /\ d = last[f] THEN c ELSE next[d]
        /\ \A d \in Cells : isLast'[d] = IF lk /\ d = last[f] THEN FALSE ELSE isLast[d] \/ d = c
    <3>1. Pushed(f, c, lk, e)
      BY <1>3, <2>1, OnePush
    <3> QED
      BY <3>1 DEF Pushed
  <2>8. NewChain(f, P, r, pop) = Append(s, c)
    BY <1>6 DEF NewChain, s
  <2>9. \A d \in Cells : isLast[d] \in BOOLEAN
    BY <1>3 DEF TypeOK
  <2> HIDE DEF c, lk, em, h
  <2>10. isLast'[c]
    <3>1. ~ (lk /\ c = last[f])
      BY <1>4, <2>2, <2>4
    <3> QED
      BY <2>2, <2>7, <3>1
  <2>11. \A k \in DOMAIN s : k # Len(s) => next'[s[k]] = next[s[k]] /\ isLast'[s[k]] = isLast[s[k]]
    <3>1. ASSUME NEW k \in DOMAIN s, k # Len(s)
          PROVE  s[k] \in Cells /\ s[k] # c /\ ~ (lk /\ s[k] = last[f])
      <4>1. s[k] \in Cells /\ s[k] # c
        BY <1>4, <2>2
      <4>2. ~ em => s[k] # last[f]
        BY <1>4, <3>1 DEF IsInjective
      <4> QED
        BY <2>4, <4>1, <4>2
    <3> QED
      BY <2>7, <2>9, <3>1
  <2>12. ~ em => next'[last[f]] = c /\ ~ isLast'[last[f]]
    <3>1. ~ em => last[f] \in Cells
      BY <1>4
    <3> QED
      BY <2>4, <2>7, <3>1
  <2>13. c \notin Range(s)
    BY <1>4, <2>2 DEF Range
  <2> QED
    <3>1. Extends(s, h, last[f], em, c, next, isLast,
                  NewChain(f, P, r, pop), head'[f], empty'[f], next', isLast')
      BY <2>5, <2>8, <2>10, <2>11, <2>12, <2>13 DEF Extends
    <3>2. Listed(NewChain(f, P, r, pop), head'[f], c, empty'[f], next', isLast')
      BY <1>1, <2>2, <3>1, PushList
    <3> QED
      BY <2>7, <3>2
<1> QED
  BY <1>5, <1>6

(* The cells on the lists after a cycle (fifo_engine.sv:129-164).          *)
Popped(f, r, pop) == IF pop /\ f = r THEN {head[f]} ELSE {}
Gained(f, P) == IF f \in P THEN {PushCell(f)} ELSE {}

(* The cells of a list after a cycle: one is popped, one that nobody used  *)
(* is gained.                                                              *)
LEMMA NewCells ==
  ASSUME IInv, NEW r \in Fifos, NEW pop \in BOOLEAN, NEW P, \A f \in P : f \in Fifos /\ ~ Full(f),
         pop => ~ empty[r], NEW f \in Fifos
  PROVE  /\ Range(NewChain(f, P, r, pop)) = (ChainCells(f) \ Popped(f, r, pop)) \cup Gained(f, P)
         /\ Popped(f, r, pop) \subseteq ChainCells(f)
         /\ Gained(f, P) \cap used = {}
<1> DEFINE s == Rest(f, r, pop)
<1>1. TypeOK /\ CellsPartitioned
  BY DEF IInv
<1>2. Range(s) = ChainCells(f) \ Popped(f, r, pop) /\ Popped(f, r, pop) \subseteq ChainCells(f)
  <2>1. CASE pop /\ f = r
    <3>1. head[f] \notin Range(s) /\ ChainCells(f) = Range(s) \cup {head[f]}
      BY <2>1, RestList
    <3> QED
      BY <2>1, <3>1 DEF Popped
  <2>2. CASE ~ (pop /\ f = r)
    BY <2>2 DEF Popped, Rest, ChainCells
  <2> QED
    BY <2>1, <2>2
<1>3. CASE f \notin P
  BY <1>2, <1>3 DEF NewChain, Gained
<1>4. CASE f \in P
  <2>1. PushCell(f) \in Cells /\ PushCell(f) \notin used
    BY <1>1, <1>4, PushCellFree
  <2>2. s \in Seq(Cells)
    BY RestList DEF Listed
  <2>3. NewChain(f, P, r, pop) = Append(s, PushCell(f))
    BY <1>4 DEF NewChain
  <2> DEFINE c == PushCell(f)
             t == Append(s, c)
  <2>4. Range(t) = Range(s) \cup {c}
    <3> HIDE DEF s, c
    <3> QED
      BY <2>1, <2>2, AppendFacts DEF c
  <2>5. Gained(f, P) = {c}
    BY <1>4 DEF Gained
  <2> HIDE DEF c, s, t
  <2>6. Range(NewChain(f, P, r, pop)) = Range(s) \cup {c}
    BY <2>3, <2>4 DEF c, t
  <2> QED
    BY <1>2, <2>1, <2>5, <2>6 DEF c
<1> QED
  BY <1>3, <1>4

(* The counter of static cells goes on counting those of the list.         *)
LEMMA StaticStep ==
  ASSUME IInv, NEW r \in Fifos, NEW pop \in BOOLEAN, NEW P, \A f \in P : f \in Fifos /\ ~ Full(f),
         pop => ~ empty[r], NEW f \in Fifos, NEW n, n = StaticCount(P, r, pop)[f]
  PROVE  /\ n = Cardinality(Range(NewChain(f, P, r, pop)) \cap StaticCells)
         /\ n \in 0 .. NumStatic
<1> DEFINE S == ChainCells(f) \cap StaticCells
           D == Popped(f, r, pop) \cap StaticCells
           I == Gained(f, P) \cap StaticCells
           T == Range(NewChain(f, P, r, pop)) \cap StaticCells
           inc == f \in P /\ PushingToStatic(f)
           dec == pop /\ f = r /\ PoppingFromStatic(f)
           so == staticOccup[f]
<1>1. TypeOK /\ CellsPartitioned
  BY DEF IInv
<1>2. T = (S \ D) \cup I /\ D \subseteq S /\ I \cap S = {}
  <2>1. ChainCells(f) \subseteq used
    BY ChainFacts
  <2> QED
    BY <2>1, NewCells
<1>3. IsFiniteSet(S) /\ Cardinality(S) = so /\ so \in 0 .. NumStatic /\ NumStatic \in Nat
  <2>1. IsFiniteSet(S)
    BY CellClasses, FS_Subset
  <2> QED
    BY <1>1, <2>1, Params DEF TypeOK, CellsPartitioned
<1>4. D = IF dec THEN {head[f]} ELSE {}
  BY DEF Popped, PoppingFromStatic
<1>5. I = IF inc THEN {PushCell(f)} ELSE {}
  <2>1. f \in P => (PushCell(f) \in StaticCells <=> PushingToStatic(f))
    BY <1>1, PushCellFree
  <2> QED
    BY <2>1 DEF Gained
<1>6. inc => so < NumStatic
  BY DEF PushingToStatic
<1>7. n = IF inc /\ ~ dec THEN so + 1 ELSE IF dec /\ ~ inc THEN so - 1 ELSE so
  BY DEF StaticCount
<1> DEFINE c == PushCell(f)
           h == head[f]
<1>8. dec => h \in S
  BY <1>2, <1>4
<1>9. inc => c \notin S /\ c \notin S \ D
  BY <1>2, <1>5
<1> HIDE DEF S, I, T, inc, dec, so, c, h
<1>10. IsFiniteSet(S \ D) /\ Cardinality(S \ D) = IF dec THEN so - 1 ELSE so
  <2>1. dec => IsFiniteSet(S \ {h}) /\ Cardinality(S \ {h}) = so - 1
    BY <1>3, <1>8, FS_RemoveElement
  <2>2. dec => S \ D = S \ {h}
    BY <1>4 DEF h
  <2>3. ~ dec => S \ D = S
    BY <1>4
  <2> QED
    BY <1>3, <2>1, <2>2, <2>3
<1> HIDE DEF D
<1>11. Cardinality(T) = IF inc THEN Cardinality(S \ D) + 1 ELSE Cardinality(S \ D)
  <2>1. inc => T = (S \ D) \cup {c}
    BY <1>2, <1>5 DEF c
  <2>2. ~ inc => T = S \ D
    BY <1>2, <1>5
  <2>3. inc => Cardinality((S \ D) \cup {c}) = Cardinality(S \ D) + 1
    BY <1>9, <1>10, FS_AddElement
  <2> QED
    BY <2>1, <2>2, <2>3
<1>12. Cardinality(T) = n
  BY <1>3, <1>7, <1>10, <1>11
<1>13. dec => so # 0
  <2>1. dec => Cardinality(S) # 0
    BY <1>3, <1>8, FS_EmptySet
  <2> QED
    BY <1>3, <2>1
<1>14. n \in 0 .. NumStatic
  BY <1>3, <1>6, <1>7, <1>13
<1> QED
  BY <1>12, <1>14 DEF T

-----------------------------------------------------------------------------
(* The driver's side of a cycle, as in Next.                               *)
Legal(P, e, r, pop) ==
  /\ r \in Fifos /\ pop \in BOOLEAN /\ P \in {{}} \cup {{f} : f \in Fifos} /\ e \in Elems
  /\ \A f \in P : ~ Full(f)
  /\ pop => ~ empty[r]

(* A legal cycle keeps the types.                                          *)
LEMMA StepTypes ==
  ASSUME IInv, NEW P, NEW e, NEW r, NEW pop, Legal(P, e, r, pop), FifoCycle(P, e, r, pop)
  PROVE  TypeOK'
<1>1. TypeOK /\ CellsPartitioned
  BY DEF IInv
<1>2. \A f \in P : f \in Fifos /\ ~ Full(f)
  BY DEF Legal
<1>3. \A f \in P : PushCell(f) \in Cells
  BY <1>1, <1>2, PushCellFree
<1>4. mem' \in [Cells -> Elems] /\ dout' \in Elems
  <2>1. head[r] \in Cells /\ e \in Elems
    BY <1>1 DEF TypeOK, Legal
  <2> QED
    BY <1>1, <2>1 DEF TypeOK, FifoCycle
<1>5. used' \subseteq Cells
  <2>1. used' \subseteq used \cup {PushCell(f) : f \in P}
    BY DEF FifoCycle, UsedCells
  <2> QED
    BY <1>1, <1>3, <2>1 DEF TypeOK
<1>6. staticOccup' \in [Fifos -> 0 .. NumStatic]
  <2>1. staticOccup' = StaticCount(P, r, pop)
    BY DEF FifoCycle
  <2>2. \A f \in Fifos : StaticCount(P, r, pop)[f] \in 0 .. NumStatic
    BY <1>2, StaticStep DEF Legal
  <2>3. StaticCount(P, r, pop) = [f \in Fifos |-> StaticCount(P, r, pop)[f]]
    BY DEF StaticCount
  <2> QED
    BY <2>1, <2>2, <2>3
<1>7. /\ last' = [f \in Fifos |-> IF f \in P THEN PushCell(f) ELSE last[f]]
      /\ head' = [f \in Fifos |->
                    IF pop /\ f = r
                    THEN IF SwapSingle(P, r, pop) THEN PushCell(f) ELSE next[head[f]]
                    ELSE IF f \in P /\ empty[f] THEN PushCell(f) ELSE head[f]]
      /\ empty' = [f \in Fifos |->
                     IF pop /\ f = r
                     THEN IF SwapSingle(P, r, pop) THEN empty[f] ELSE isLast[head[f]]
                     ELSE empty[f] /\ f \notin P]
  BY DEF FifoCycle, LinkCells
<1>8. last' \in [Fifos -> Cells]
  BY <1>1, <1>3, <1>7 DEF TypeOK
<1>9. head' \in [Fifos -> Cells]
  <2>1. SwapSingle(P, r, pop) => r \in P
    BY DEF SwapSingle
  <2>2. \A f \in Fifos : head[f] \in Cells /\ next[head[f]] \in Cells
    BY <1>1 DEF TypeOK
  <2> QED
    BY <1>3, <1>7, <2>1, <2>2
<1>10. empty' \in [Fifos -> BOOLEAN]
  <2>1. \A f \in Fifos : empty[f] \in BOOLEAN /\ isLast[head[f]] \in BOOLEAN
    BY <1>1 DEF TypeOK
  <2> QED
    BY <1>7, <2>1
<1>11. next' \in [Cells -> Cells] /\ isLast' \in [Cells -> BOOLEAN]
  <2>1. CASE P = {}
    BY <1>1, <2>1, NoPush DEF TypeOK
  <2>2. ASSUME NEW g \in Fifos, P = {g}
        PROVE  next' \in [Cells -> Cells] /\ isLast' \in [Cells -> BOOLEAN]
    <3> DEFINE c == PushCell(g)
               lk == Linked(g, r, pop)
    <3>1. Pushed(g, c, lk, e)
      BY <1>1, <2>2, OnePush
    <3>2. c \in Cells
      BY <1>3, <2>2
    <3> HIDE DEF c, lk
    <3>3. \A d \in Cells : /\ next'[d] = IF lk /\ d = last[g] THEN c ELSE next[d]
                           /\ isLast'[d] = IF lk /\ d = last[g] THEN FALSE ELSE isLast[d] \/ d = c
      BY <3>1 DEF Pushed
    <3>4. \A d \in Cells : next'[d] \in Cells /\ isLast'[d] \in BOOLEAN
      BY <1>1, <3>2, <3>3 DEF TypeOK
    <3>5. next' = [d \in Cells |-> next'[d]] /\ isLast' = [d \in Cells |-> isLast'[d]]
      BY DEF FifoCycle, LinkCells
    <3> QED
      BY <3>4, <3>5
  <2> QED
    BY <2>1, <2>2 DEF Legal
<1> QED
  BY <1>4, <1>5, <1>6, <1>8, <1>9, <1>10, <1>11 DEF TypeOK

(* A legal cycle keeps the invariant, and makes of every list the list     *)
(* expected.                                                               *)
LEMMA CycleStep ==
  ASSUME IInv, NEW P, NEW e, NEW r, NEW pop, Legal(P, e, r, pop), FifoCycle(P, e, r, pop)
  PROVE  IInv' /\ \A f \in Fifos : Chain(f)' = NewChain(f, P, r, pop)
<1>1. TypeOK /\ CellsPartitioned
  BY DEF IInv
<1>2. /\ r \in Fifos /\ pop \in BOOLEAN /\ P \in {{}} \cup {{f} : f \in Fifos} /\ e \in Elems
      /\ pop => ~ empty[r]
      /\ \A f \in P : f \in Fifos /\ ~ Full(f)
  BY DEF Legal
<1>3. TypeOK'
  BY StepTypes
<1>4. \A f \in Fifos : Listed(NewChain(f, P, r, pop), head'[f], last'[f], empty'[f], next', isLast')
  BY <1>2, StepLists
<1>5. ASSUME NEW f \in Fifos
      PROVE  Chain(f)' = NewChain(f, P, r, pop) /\ IsList(f, Chain(f))'
  <2>1. NewChain(f, P, r, pop) \in Seq(Cells)
    BY <1>4 DEF Listed
  <2>2. \A x \in Fifos, s \in Seq(Cells) : IsList(x, s)' => Chain(x)' = s
    BY <1>3, ChainsStayLists
  <2>3. \A s : IsList(f, s)' <=> Listed(s, head'[f], last'[f], empty'[f], next', isLast')
    BY DEF IsList, Listed
  <2>4. Chain(f)' = NewChain(f, P, r, pop)
    BY <1>4, <2>1, <2>2, <2>3
  <2>5. IsList(f, Chain(f))' <=> Listed(Chain(f)', head'[f], last'[f], empty'[f], next', isLast')
    BY DEF IsList, Listed
  <2> QED
    BY <1>4, <2>4, <2>5
<1>6. \A f \in Fifos : ChainCells(f)' = (ChainCells(f) \ Popped(f, r, pop)) \cup Gained(f, P)
  <2>1. \A f \in Fifos : ChainCells(f)' = Range(Chain(f)')
    BY DEF ChainCells, Range
  <2> QED
    BY <1>2, <1>5, <2>1, NewCells
<1>7. \A f \in Fifos : /\ ChainCells(f) \subseteq used /\ Popped(f, r, pop) \subseteq ChainCells(f)
                       /\ Gained(f, P) \cap used = {}
  BY <1>2, NewCells, ChainFacts
<1>8. \A f, g \in Fifos : f # g => ChainCells(f) \cap ChainCells(g) = {} /\ ~ (f \in P /\ g \in P)
  BY <1>1, <1>2 DEF CellsPartitioned
<1>9. used' = UNION {ChainCells(f)' : f \in Fifos}
  <2>1. used' = (used \cup UNION {Gained(f, P) : f \in Fifos}) \ Popped(r, r, pop)
    <3>1. {PushCell(f) : f \in P} = UNION {Gained(f, P) : f \in Fifos}
      BY <1>2 DEF Gained
    <3>2. {head[f] : f \in IF pop THEN {r} ELSE {}} = Popped(r, r, pop)
      BY DEF Popped
    <3> QED
      BY <3>1, <3>2 DEF FifoCycle, UsedCells
  <2>2. used = UNION {ChainCells(f) : f \in Fifos}
    BY <1>1 DEF CellsPartitioned
  <2>3. \A f \in Fifos : Popped(f, r, pop) = IF f = r THEN Popped(r, r, pop) ELSE {}
    BY DEF Popped
  <2>4. ASSUME NEW x \in used'
        PROVE  x \in UNION {ChainCells(f)' : f \in Fifos}
    <3>1. x \notin Popped(r, r, pop) /\ \E f \in Fifos : x \in ChainCells(f) \/ x \in Gained(f, P)
      BY <2>1, <2>2
    <3> QED
      BY <1>6, <2>3, <3>1
  <2>5. ASSUME NEW f \in Fifos, NEW x \in ChainCells(f)'
        PROVE  x \in used'
    <3>1. CASE x \in Gained(f, P)
      BY <1>2, <1>7, <2>1, <3>1
    <3>2. CASE x \in ChainCells(f) \ Popped(f, r, pop)
      <4>1. x \notin Popped(r, r, pop)
        <5>1. CASE f = r
          BY <3>2, <5>1
        <5>2. CASE f # r
          BY <1>2, <1>7, <1>8, <3>2, <5>2
        <5> QED
          BY <5>1, <5>2
      <4> QED
        BY <1>7, <2>1, <3>2, <4>1
    <3> QED
      BY <1>6, <3>1, <3>2
  <2> QED
    BY <2>4, <2>5
<1>10. ASSUME NEW f \in Fifos, NEW g \in Fifos, f # g
       PROVE  ChainCells(f)' \cap ChainCells(g)' = {}
  <2>1. Gained(f, P) = {} \/ Gained(g, P) = {}
    BY <1>8, <1>10 DEF Gained
  <2> QED
    BY <1>6, <1>7, <1>8, <1>10, <2>1
<1>11. ASSUME NEW f \in Fifos
       PROVE  /\ Cardinality(ChainCells(f)') = Len(Chain(f)')
              /\ ~ empty'[f] => Chain(f)'[Len(Chain(f)')] = last'[f]
              /\ staticOccup'[f] = Cardinality(ChainCells(f)' \cap StaticCells)
  <2> DEFINE s == NewChain(f, P, r, pop)
  <2>1. Chain(f)' = s /\ ChainCells(f)' = Range(s)
    BY <1>5 DEF ChainCells, Range
  <2>2. Listed(s, head'[f], last'[f], empty'[f], next', isLast')
    BY <1>4
  <2>3. staticOccup'[f] = StaticCount(P, r, pop)[f]
    BY DEF FifoCycle
  <2>4. staticOccup'[f] = Cardinality(Range(s) \cap StaticCells)
    BY <1>2, <2>3, StaticStep
  <2> HIDE DEF s
  <2>5. s \in Seq(Cells) /\ IsInjective(s) /\ (~ empty'[f] => s[Len(s)] = last'[f])
    BY <2>2 DEF Listed
  <2>6. Cardinality(Range(s)) = Len(s)
    BY <2>5, DistinctCount
  <2> QED
    BY <2>1, <2>4, <2>5, <2>6
<1>12. CellsPartitioned'
  BY <1>9, <1>10, <1>11 DEF CellsPartitioned
<1> QED
  BY <1>3, <1>5, <1>12 DEF IInv

(* All lists are empty at first.                                           *)
LEMMA InitInv == Init => IInv
<1> SUFFICES ASSUME Init PROVE IInv
  OBVIOUS
<1>1. NumStatic \in Nat /\ 0 \in Cells
  BY Params DEF Cells
<1>2. TypeOK
  <2>1. \E x \in Elems : mem = [c \in Cells |-> x] /\ dout = x
    BY DEF Init
  <2>2. mem \in [Cells -> Elems] /\ dout \in Elems
    BY <2>1
  <2>3. 0 \in 0 .. NumStatic
    BY <1>1
  <2> QED
    BY <1>1, <2>2, <2>3 DEF Init, TypeOK
<1>3. \A f \in Fifos : empty[f] = TRUE /\ Chain(f) = <<>> /\ staticOccup[f] = 0
  BY DEF Init, Chain
<1>4. <<>> \in Seq(Cells) /\ Len(<<>>) = 0 /\ DOMAIN <<>> = {} /\ Range(<<>>) = {}
  <2>1. \A k \in 1 .. 0 : FALSE
    OBVIOUS
  <2>2. <<>> \in Seq(Cells) /\ Len(<<>>) = 0 /\ DOMAIN <<>> = 1 .. 0
    OBVIOUS
  <2> QED
    BY <2>1, <2>2 DEF Range
<1>5. \A f \in Fifos : IsList(f, Chain(f))
  BY <1>3, <1>4 DEF IsList, Listed, IsInjective
<1>6. \A f \in Fifos : ChainCells(f) = {}
  BY <1>3, <1>4 DEF ChainCells
<1>7. CellsPartitioned
  <2>1. used = {} /\ {} \cap StaticCells = {}
    BY DEF Init
  <2> QED
    BY <1>3, <1>4, <1>6, <2>1, FS_EmptySet DEF CellsPartitioned
<1> QED
  BY <1>2, <1>5, <1>7 DEF IInv

(* Nothing happens.                                                        *)
LEMMA Stutter ==
  ASSUME IInv, UNCHANGED vars
  PROVE  IInv' /\ \A f \in Fifos : Chain(f)' = Chain(f)
<1>1. TypeOK'
  BY DEF IInv, TypeOK, vars
<1>2. ASSUME NEW f \in Fifos
      PROVE  IsList(f, Chain(f))' /\ Chain(f)' = Chain(f) /\ ChainCells(f)' = ChainCells(f)
  <2>1. Listed(Chain(f), head[f], last[f], empty[f], next, isLast)
    BY DEF IInv, IsList
  <2>2. Chain(f) \in Seq(Cells)
    BY <2>1 DEF Listed
  <2>3. \A x \in Fifos, s \in Seq(Cells) : IsList(x, s)' => Chain(x)' = s
    BY <1>1, ChainsStayLists
  <2>4. \A s : IsList(f, s)' <=> Listed(s, head[f], last[f], empty[f], next, isLast)
    BY DEF IsList, Listed, vars
  <2>5. Chain(f)' = Chain(f)
    BY <2>1, <2>2, <2>3, <2>4
  <2>6. IsList(f, Chain(f))' <=> Listed(Chain(f)', head[f], last[f], empty[f], next, isLast)
    BY DEF IsList, Listed, vars
  <2> QED
    BY <2>1, <2>5, <2>6 DEF ChainCells, Range
<1>3. CellsPartitioned'
  BY <1>2 DEF IInv, CellsPartitioned, vars
<1> QED
  BY <1>1, <1>2, <1>3 DEF IInv

(* Every step is a legal cycle.                                            *)
LEMMA NextLegal ==
  ASSUME Next
  PROVE  \E P, e, r, pop : Legal(P, e, r, pop) /\ FifoCycle(P, e, r, pop)
<1>1. PICK r \in Fifos, pop \in BOOLEAN, P \in {{}} \cup {{f} : f \in Fifos}, e \in Elems :
         /\ \A f \in P : ~ Full(f)
         /\ pop => ~ empty[r]
         /\ FifoCycle(P, e, r, pop)
  BY DEF Next
<1>2. Legal(P, e, r, pop)
  BY <1>1 DEF Legal
<1> QED
  BY <1>1, <1>2

(* The inductive invariant: the cells form lists, and the lists partition  *)
(* the used cells.                                                         *)
THEOREM FifoInvariance == Spec => []IInv
<1>1. IInv /\ [Next]_vars => IInv'
  <2> SUFFICES ASSUME IInv, [Next]_vars PROVE IInv'
    OBVIOUS
  <2>1. CASE Next
    BY <2>1, NextLegal, CycleStep
  <2>2. CASE UNCHANGED vars
    BY <2>2, Stutter
  <2> QED
    BY <2>1, <2>2
<1> QED
  BY InitInv, <1>1, PTL DEF Spec

(* The registers, links and cells keep their types                         *)
(* (fifo_engine.sv:204-221).                                               *)
THEOREM TypeCorrect == Spec => []TypeOK
<1>1. IInv => TypeOK
  BY DEF IInv
<1> QED
  BY FifoInvariance, <1>1, PTL

(* No cell is leaked, shared or listed twice, and the static occupations   *)
(* are exact, whatever is pushed and popped in the same cycles             *)
(* (fifo_engine.sv:129-202).                                               *)
THEOREM CellsArePartitioned == Spec => []CellsPartitioned
<1>1. IInv => CellsPartitioned
  BY DEF IInv
<1> QED
  BY FifoInvariance, <1>1, PTL

-----------------------------------------------------------------------------
(* The elements of the lists are the queues of PktQueues.                  *)
Contents == [f \in Fifos |-> Entries(mem, Chain(f))]

(* What a list holds follows it when its head is popped,                   *)
LEMMA EntriesTail ==
  ASSUME NEW s \in Seq(Cells), s # <<>>, NEW m
  PROVE  Entries(m, Tail(s)) = Tail(Entries(m, s))
<1> DEFINE t == Tail(s)
           n == Len(s)
           q == Entries(m, s)
<1>1. /\ Len(t) = n - 1 /\ n \in Nat \ {0}
      /\ \A k \in 1 .. n - 1 : t[k] = s[k + 1]
  OBVIOUS
<1>2. q = [k \in 1 .. n |-> Entry(m, s[k])]
  BY DEF Entries
<1>3. Entries(m, t) = [k \in 1 .. Len(t) |-> Entry(m, t[k])]
  BY DEF Entries
<1> HIDE DEF t, n
<1>4. Entries(m, t) = [k \in 1 .. n - 1 |-> Entry(m, s[k + 1])]
  BY <1>1, <1>3
<1>5. \A k \in 1 .. n - 1 : q[k + 1] = Entry(m, s[k + 1])
  BY <1>1, <1>2
<1> HIDE DEF q
<1>6. q \in Seq({Entry(m, s[k]) : k \in 1 .. n}) /\ Len(q) = n
  BY <1>1, <1>2
<1>7. Tail(q) = [k \in 1 .. n - 1 |-> q[k + 1]]
  <2> DEFINE S == {Entry(m, s[k]) : k \in 1 .. n}
             u == Tail(q)
  <2>1. q # <<>>
    BY <1>1, <1>6
  <2>2. /\ u \in Seq(S) /\ Len(u) = Len(q) - 1 /\ DOMAIN u = 1 .. Len(q) - 1
        /\ \A k \in DOMAIN u : u[k] = q[k + 1]
    <3> HIDE DEF S
    <3> QED
      BY <1>6, <2>1, TailFacts DEF S
  <2> HIDE DEF u, S
  <2>3. u = [k \in DOMAIN u |-> u[k]]
    BY <2>2
  <2>4. u = [k \in 1 .. n - 1 |-> q[k + 1]]
    BY <1>6, <2>2, <2>3
  <2> QED
    BY <2>4 DEF u
<1>8. Entries(m, t) = Tail(q)
  BY <1>4, <1>5, <1>7
<1> QED
  BY <1>8 DEF t, q

(* when a cell is pushed,                                                  *)
LEMMA EntriesAppend ==
  ASSUME NEW s \in Seq(Cells), NEW c \in Cells, NEW m
  PROVE  Entries(m, Append(s, c)) = Append(Entries(m, s), Entry(m, c))
<1> DEFINE t == Append(s, c)
           n == Len(s)
           q == Entries(m, s)
           x == Entry(m, c)
<1>1. /\ Len(t) = n + 1 /\ n \in Nat
      /\ \A k \in 1 .. n : t[k] = s[k]
      /\ t[n + 1] = c
  OBVIOUS
<1>2. q = [k \in 1 .. n |-> Entry(m, s[k])]
  BY DEF Entries
<1>3. Entries(m, t) = [k \in 1 .. Len(t) |-> Entry(m, t[k])]
  BY DEF Entries
<1> HIDE DEF t, n, x, q
<1>4. q \in Seq({Entry(m, s[k]) : k \in 1 .. n}) /\ Len(q) = n
  BY <1>1, <1>2
<1>5. Append(q, x) = [k \in 1 .. n + 1 |-> IF k = n + 1 THEN x ELSE q[k]]
  <2> DEFINE S == {Entry(m, s[k]) : k \in 1 .. n} \cup {x}
             u == Append(q, x)
  <2>1. q \in Seq(S) /\ x \in S
    BY <1>4
  <2>2. /\ u \in Seq(S) /\ DOMAIN u = 1 .. Len(q) + 1 /\ DOMAIN q = 1 .. Len(q)
        /\ u[Len(q) + 1] = x /\ \A k \in DOMAIN q : u[k] = q[k]
    <3> HIDE DEF S
    <3> QED
      BY <2>1, AppendFacts
  <2> HIDE DEF u, S
  <2>3. u = [k \in DOMAIN u |-> u[k]]
    BY <2>2
  <2>4. \A k \in 1 .. n + 1 : u[k] = IF k = n + 1 THEN x ELSE q[k]
    <3>1. DOMAIN q = 1 .. n /\ u[n + 1] = x
      BY <1>4, <2>2
    <3>2. \A k \in 1 .. n + 1 : k # n + 1 => k \in 1 .. n
      BY <1>1
    <3>3. \A k \in 1 .. n : u[k] = q[k]
      BY <2>2, <3>1
    <3> QED
      BY <3>1, <3>2, <3>3, Zenon
  <2>5. u = [k \in 1 .. n + 1 |-> IF k = n + 1 THEN x ELSE q[k]]
    BY <1>4, <2>2, <2>3, <2>4
  <2> QED
    BY <2>5 DEF u
<1>6. \A k \in 1 .. n + 1 : Entry(m, t[k]) = IF k = n + 1 THEN x ELSE q[k]
  <2>1. Entry(m, t[n + 1]) = x
    BY <1>1 DEF x
  <2>2. ASSUME NEW k \in 1 .. n + 1, k # n + 1
        PROVE  Entry(m, t[k]) = q[k]
    <3>1. k \in 1 .. n
      BY <1>1, <2>2
    <3> QED
      BY <1>1, <1>2, <3>1
  <2> QED
    BY <2>1, <2>2
<1>7. Entries(m, t) = Append(q, x)
  BY <1>1, <1>3, <1>5, <1>6
<1> QED
  BY <1>7 DEF t, q, x

(* and when other cells are written.                                       *)
LEMMA EntriesSame ==
  ASSUME NEW s \in Seq(Cells), NEW m, NEW m2, \A k \in DOMAIN s : m2[s[k]] = m[s[k]]
  PROVE  Entries(m2, s) = Entries(m, s)
<1>1. DOMAIN s = 1 .. Len(s)
  OBVIOUS
<1>2. \A k \in 1 .. Len(s) : Entry(m2, s[k]) = Entry(m, s[k])
  BY <1>1 DEF Entry
<1> QED
  BY <1>2 DEF Entries

(* What a FIFO holds, place by place.                                      *)
LEMMA ContentsFacts ==
  ASSUME IInv, NEW f \in Fifos
  PROVE  /\ Contents[f] = Entries(mem, Chain(f))
         /\ DOMAIN Contents[f] = DOMAIN Chain(f) /\ DOMAIN Chain(f) = 1 .. Len(Chain(f))
         /\ Len(Chain(f)) \in Nat
         /\ \A k \in DOMAIN Chain(f) : Contents[f][k].static = (Chain(f)[k] \in StaticCells)
         /\ \A k \in DOMAIN Chain(f) : Contents[f][k].el = mem[Chain(f)[k]]
         /\ Contents[f] = <<>> <=> Chain(f) = <<>>
<1> DEFINE s == Chain(f)
<1>1. s \in Seq(Cells)
  BY ChainFacts
<1>2. DOMAIN s = 1 .. Len(s) /\ Len(s) \in Nat /\ (s = <<>> <=> Len(s) = 0)
  BY <1>1
<1>3. Contents[f] = [k \in 1 .. Len(s) |-> Entry(mem, s[k])]
  BY DEF Contents, Entries
<1>4. \A k \in DOMAIN s : Contents[f][k] = [el |-> mem[s[k]], static |-> s[k] \in StaticCells]
  BY <1>2, <1>3 DEF Entry
<1>5. Contents[f] \in Seq({Entry(mem, s[k]) : k \in 1 .. Len(s)}) /\ Len(Contents[f]) = Len(s)
  <2> HIDE DEF s
  <2> QED
    BY <1>2, <1>3
<1>6. Contents[f] = <<>> <=> Len(Contents[f]) = 0
  BY <1>5
<1> QED
  BY <1>2, <1>3, <1>4, <1>5, <1>6 DEF Contents

(* The counter of static cells is what PktQueues counts.                   *)
LEMMA StaticUsedIs ==
  ASSUME IInv, NEW f \in Fifos
  PROVE  Cardinality({k \in DOMAIN Contents[f] : Contents[f][k].static}) = staticOccup[f]
<1> DEFINE K == {k \in DOMAIN Contents[f] : Contents[f][k].static}
           T == ChainCells(f) \cap StaticCells
           s == Chain(f)
           g == [k \in K |-> s[k]]
<1>1. K = {k \in DOMAIN s : s[k] \in StaticCells}
  BY ContentsFacts
<1>2. IsInjective(s) /\ T = {s[k] : k \in DOMAIN s} \cap StaticCells
  BY DEF IInv, IsList, Listed, ChainCells, Range
<1>3. g \in Bijection(K, T)
  <2> HIDE DEF K, T, s
  <2>1. g \in [K -> T]
    BY <1>1, <1>2
  <2>2. \A j, k \in K : g[j] = g[k] => j = k
    BY <1>1, <1>2 DEF IsInjective
  <2>3. \A x \in T : \E k \in K : g[k] = x
    BY <1>1, <1>2
  <2> QED
    BY <2>1, <2>2, <2>3 DEF Bijection, Injection, Surjection, IsInjective
<1>4. IsFiniteSet(T) /\ Cardinality(T) = staticOccup[f]
  <2>1. IsFiniteSet(T)
    BY CellClasses, FS_Subset
  <2> QED
    BY <2>1 DEF IInv, CellsPartitioned
<1> HIDE DEF K, T, g
<1>5. g \in Injection(K, T) /\ g \in Surjection(K, T)
  BY <1>3 DEF Bijection
<1>6. Cardinality(K) = Cardinality(T)
  BY <1>4, <1>5, FS_Injection
<1> QED
  BY <1>4, <1>6 DEF K

(* PktQueues counts the dynamic cells that are used: all of them when the  *)
(* engine finds no free one.                                               *)
LEMMA DynamicPlacesAre ==
  ASSUME IInv
  PROVE  Cardinality(UNION {{<<f, k>> : k \in {j \in DOMAIN Contents[f] : ~ Contents[f][j].static}} :
                              f \in Fifos}) = NumCells <=> NoFreeDynamic
<1> DEFINE K == UNION {{<<f, k>> : k \in {j \in DOMAIN Contents[f] : ~ Contents[f][j].static}} :
                         f \in Fifos}
           T == used \cap DynamicCells
           g == [p \in K |-> Chain(p[1])[p[2]]]
<1>1. ASSUME NEW p \in K
      PROVE  /\ p[1] \in Fifos /\ p[2] \in DOMAIN Chain(p[1]) /\ p = <<p[1], p[2]>>
             /\ Chain(p[1])[p[2]] \in T
  <2>1. PICK f \in Fifos : p \in {<<f, k>> : k \in {j \in DOMAIN Contents[f] : ~ Contents[f][j].static}}
    OBVIOUS
  <2>2. PICK k \in DOMAIN Contents[f] : p = <<f, k>> /\ ~ Contents[f][k].static
    BY <2>1
  <2>3. k \in DOMAIN Chain(f) /\ Chain(f)[k] \notin StaticCells
    BY <2>2, ContentsFacts
  <2>4. Chain(f)[k] \in used /\ used \subseteq Cells
    BY <2>3, ChainFacts DEF IInv, TypeOK
  <2>5. p[1] = f /\ p[2] = k
    BY <2>2
  <2> QED
    BY <2>2, <2>3, <2>4, <2>5, CellClasses
<1>2. ASSUME NEW f \in Fifos, NEW k \in DOMAIN Chain(f), Chain(f)[k] \in DynamicCells
      PROVE  <<f, k>> \in K
  <2>1. k \in DOMAIN Contents[f] /\ ~ Contents[f][k].static
    BY <1>2, ContentsFacts, CellClasses
  <2> QED
    BY <2>1
<1> HIDE DEF K
<1>3. g \in Injection(K, T)
  <2>1. g \in [K -> T]
    BY <1>1
  <2>2. ASSUME NEW p \in K, NEW q \in K, g[p] = g[q]
        PROVE  p = q
    <3>1. Chain(p[1])[p[2]] = Chain(q[1])[q[2]]
      BY <2>2
    <3>2. Chain(p[1])[p[2]] \in ChainCells(p[1]) /\ Chain(q[1])[q[2]] \in ChainCells(q[1])
      BY <1>1, ChainFacts
    <3>3. p[1] = q[1]
      BY <1>1, <3>1, <3>2 DEF IInv, CellsPartitioned
    <3>4. IsInjective(Chain(p[1]))
      BY <1>1 DEF IInv, IsList, Listed
    <3>5. p[2] = q[2]
      BY <1>1, <3>1, <3>3, <3>4 DEF IsInjective
    <3> QED
      BY <1>1, <3>3, <3>5
  <2> QED
    BY <2>1, <2>2 DEF Injection, IsInjective
<1>4. g \in Surjection(K, T)
  <2>1. ASSUME NEW x \in T
        PROVE  \E p \in K : g[p] = x
    <3>1. PICK f \in Fifos : x \in ChainCells(f)
      BY DEF IInv, CellsPartitioned
    <3>2. PICK k \in DOMAIN Chain(f) : Chain(f)[k] = x
      BY <3>1 DEF ChainCells, Range
    <3>3. <<f, k>> \in K
      BY <1>2, <3>2
    <3>4. g[<<f, k>>] = x
      BY <3>2, <3>3
    <3> QED
      BY <3>3, <3>4
  <2> QED
    BY <1>3, <2>1 DEF Surjection, Injection
<1> HIDE DEF T, g
<1>5. IsFiniteSet(T) /\ T \subseteq DynamicCells
  BY CellClasses, FS_Subset DEF T
<1>6. Cardinality(K) = Cardinality(T)
  BY <1>3, <1>4, <1>5, FS_Injection
<1>7. Cardinality(T) = NumCells <=> T = DynamicCells
  BY <1>5, CellClasses, FS_Subset
<1>8. T = DynamicCells <=> NoFreeDynamic
  BY DEF T, NoFreeDynamic
<1> QED
  BY <1>6, <1>7, <1>8 DEF K

(* Cardinality is the same in the instance.                                *)
LEMMA SameCount == \A S : Queues!Cardinality(S) = Cardinality(S)
BY DEF Queues!Cardinality, Cardinality, Queues!IsFiniteSet, IsFiniteSet

(* A FIFO is full, and a new element gets a static cell, when PktQueues    *)
(* says so.                                                                *)
LEMMA FullIs ==
  ASSUME IInv, NEW f \in Fifos
  PROVE  /\ Queues!Full(f) <=> Full(f)
         /\ \A e : Queues!NewCell(f, e) = [el |-> e, static |-> PushingToStatic(f)]
<1>1. Queues!StaticUsed(f) = staticOccup[f]
  <2>1. Queues!StaticUsed(f) = Cardinality({k \in DOMAIN Contents[f] : Contents[f][k].static})
    <3>1. [g \in Fifos |-> Entries(mem, Chain(g))] = Contents
      BY DEF Contents
    <3> QED
      BY <3>1, SameCount, Zenon DEF Queues!StaticUsed
  <2> QED
    BY <2>1, StaticUsedIs
<1>2. Queues!NoFreeDynamic <=> NoFreeDynamic
  <2>1. Queues!DynamicPlaces =
          UNION {{<<g, k>> : k \in {j \in DOMAIN Contents[g] : ~ Contents[g][j].static}} : g \in Fifos}
    BY Zenon DEF Queues!DynamicPlaces, Queues!Fifos, Fifos, Contents
  <2> QED
    BY <2>1, DynamicPlacesAre, SameCount, Zenon DEF Queues!NoFreeDynamic
<1> QED
  BY <1>1, <1>2 DEF Queues!Full, Full, Queues!NewCell, PushingToStatic

(* One cycle of the engine is one of the queues.                           *)
LEMMA QueueStep ==
  ASSUME IInv, NEW P, NEW e, NEW r, NEW pop, Legal(P, e, r, pop), FifoCycle(P, e, r, pop)
  PROVE  Queues!QueueNext
<1>1. /\ r \in Fifos /\ pop \in BOOLEAN /\ P \in {{}} \cup {{f} : f \in Fifos} /\ e \in Elems
      /\ pop => ~ empty[r]
      /\ \A f \in P : f \in Fifos /\ ~ Full(f)
  BY DEF Legal
<1>2. TypeOK /\ CellsPartitioned
  BY DEF IInv
<1>3. \A f \in P : ~ Queues!Full(f)
  BY <1>1, FullIs
<1>4. pop => Contents[r] # <<>>
  BY <1>1, ContentsFacts, ChainFacts
<1>5. dout' \in Elems
  BY StepTypes DEF TypeOK
<1>6. Contents[r] # <<>> => dout' = Head(Contents[r]).el
  <2> SUFFICES ASSUME Contents[r] # <<>> PROVE dout' = Head(Contents[r]).el
    OBVIOUS
  <2> DEFINE s == Chain(r)
  <2>1. s # <<>> /\ ~ empty[r]
    BY <1>1, ContentsFacts, ChainFacts
  <2>2. s \in Seq(Cells) /\ Head(s) = head[r]
    BY <1>1, <2>1, ChainFacts
  <2>3. 1 \in DOMAIN s /\ s[1] = head[r]
    BY <2>1, <2>2
  <2>4. Contents[r][1].el = mem[head[r]]
    BY <1>1, <2>3, ContentsFacts
  <2>5. Contents[r] = [k \in 1 .. Len(s) |-> Entry(mem, s[k])] /\ Len(s) \in Nat
    BY <1>1, <2>2 DEF Contents, Entries
  <2> HIDE DEF s
  <2>6. Contents[r] \in Seq({Entry(mem, s[k]) : k \in 1 .. Len(s)})
    BY <2>5
  <2>7. Head(Contents[r]) = Contents[r][1]
    BY <2>6
  <2> QED
    BY <2>4, <2>7 DEF FifoCycle
<1>7. ASSUME NEW f \in Fifos
      PROVE  Contents'[f] = LET rest == IF pop /\ f = r THEN Tail(Contents[f]) ELSE Contents[f]
                            IN  IF f \in P THEN Append(rest, Queues!NewCell(f, e)) ELSE rest
  <2> DEFINE s == Rest(f, r, pop)
             rest == IF pop /\ f = r THEN Tail(Contents[f]) ELSE Contents[f]
             c == PushCell(f)
  <2>1. Contents'[f] = Entries(mem', NewChain(f, P, r, pop))
    BY CycleStep DEF Contents, Entries, Entry
  <2>2. s \in Seq(Cells) /\ Range(s) \subseteq used
    BY <1>1, RestList, ChainFacts DEF Listed
  <2>3. Entries(mem, s) = rest
    <3>1. CASE pop /\ f = r
      <4>1. Chain(f) \in Seq(Cells) /\ Chain(f) # <<>>
        BY <1>1, <3>1, ChainFacts
      <4> QED
        BY <3>1, <4>1, EntriesTail, ContentsFacts DEF Rest
    <3>2. CASE ~ (pop /\ f = r)
      BY <3>2, ContentsFacts DEF Rest
    <3> QED
      BY <3>1, <3>2
  <2>4. \A k \in DOMAIN s : s[k] \in Cells /\ s[k] \in used
    BY <2>2 DEF Range
  <2>5. \A k \in DOMAIN s : mem'[s[k]] = mem[s[k]]
    <3>1. CASE P = {}
      BY <1>2, <3>1, NoPush
    <3>2. ASSUME NEW g \in Fifos, P = {g}
          PROVE  \A k \in DOMAIN s : mem'[s[k]] = mem[s[k]]
      <4>1. Pushed(g, PushCell(g), Linked(g, r, pop), e)
        BY <1>2, <3>2, OnePush
      <4>2. PushCell(g) \notin used
        BY <1>1, <1>2, <3>2, PushCellFree
      <4> HIDE DEF s
      <4> QED
        BY <2>4, <4>1, <4>2 DEF Pushed
    <3> QED
      BY <1>1, <3>1, <3>2
  <2>6. Entries(mem', s) = rest
    <3> HIDE DEF s, rest
    <3> QED
      BY <2>2, <2>3, <2>5, EntriesSame
  <2>7. CASE f \notin P
    BY <2>1, <2>6, <2>7 DEF NewChain
  <2>8. CASE f \in P
    <3>1. P = {f}
      BY <1>1, <2>8
    <3>2. c \in Cells /\ (c \in StaticCells <=> PushingToStatic(f))
      BY <1>1, <1>2, <2>8, PushCellFree
    <3>3. mem'[c] = e
      <4>1. Pushed(f, c, Linked(f, r, pop), e)
        BY <1>2, <3>1, OnePush
      <4> QED
        BY <3>2, <4>1 DEF Pushed
    <3>4. Entry(mem', c) = Queues!NewCell(f, e)
      <4>1. Queues!NewCell(f, e) = [el |-> e, static |-> PushingToStatic(f)]
        BY FullIs
      <4>2. (c \in StaticCells) = PushingToStatic(f)
        BY <3>2 DEF PushingToStatic
      <4> QED
        BY <3>3, <4>1, <4>2 DEF Entry
    <3>5. NewChain(f, P, r, pop) = Append(s, c)
      BY <2>8 DEF NewChain
    <3>6. Entries(mem', Append(s, c)) = Append(Entries(mem', s), Entry(mem', c))
      <4> HIDE DEF s, c
      <4> QED
        BY <2>2, <3>2, EntriesAppend
    <3> HIDE DEF s, c, rest
    <3>7. Contents'[f] = Append(rest, Queues!NewCell(f, e))
      BY <2>1, <2>6, <3>4, <3>5, <3>6
    <3> QED
      BY <2>8, <3>7 DEF rest
  <2> QED
    BY <2>7, <2>8
<1>8. Contents' = [f \in Fifos |->
                     LET rest == IF pop /\ f = r THEN Tail(Contents[f]) ELSE Contents[f]
                     IN  IF f \in P THEN Append(rest, Queues!NewCell(f, e)) ELSE rest]
  <2>1. Contents' = [f \in Fifos |-> Contents'[f]]
    BY DEF Contents
  <2> QED
    BY <1>7, <2>1
<1>9. Queues!QueueCycle(P, e, r, pop)
  <2>1. [f \in Fifos |-> Entries(mem, Chain(f))] = Contents
    BY DEF Contents
  <2>2. [f \in Fifos |-> Entries(mem, Chain(f))]' = Contents'
    BY DEF Contents
  <2> HIDE DEF Contents
  <2> QED
    BY <1>5, <1>6, <1>8, <2>1, <2>2 DEF Queues!QueueCycle, Queues!Fifos, Fifos
<1>10. Queues!Fifos = Fifos
  BY DEF Queues!Fifos, Fifos
<1>11. pop => [f \in Fifos |-> Entries(mem, Chain(f))][r] # <<>>
  BY <1>4 DEF Contents
<1> QED
  BY <1>1, <1>3, <1>9, <1>10, <1>11 DEF Queues!QueueNext

(* The linked lists implement the queues that the MPQ engine is built on:  *)
(* what is pushed comes out in order, at the data output one cycle later,  *)
(* and a queue that is not full takes an element, whatever happens in the  *)
(* same cycle (fifo_engine.sv:98-202).                                     *)
THEOREM EngineImplementsQueues == Spec => ImplementsQueues
<1>1. Init => Queues!QueueInit
  <2> SUFFICES ASSUME Init PROVE Queues!QueueInit
    OBVIOUS
  <2>1. IInv
    BY InitInv
  <2>2. dout \in Elems
    BY <2>1 DEF IInv, TypeOK
  <2>3. \A f \in Fifos : Contents[f] = <<>>
    BY <2>1, ContentsFacts, ChainFacts DEF Init
  <2>4. Contents = [f \in Fifos |-> <<>>]
    BY <2>3 DEF Contents
  <2> QED
    BY <2>2, <2>4 DEF Queues!QueueInit, Queues!Fifos, Fifos, Contents
<1>2. IInv /\ [Next]_vars => [Queues!QueueNext]_(Queues!queueVars)
  <2> SUFFICES ASSUME IInv, [Next]_vars PROVE [Queues!QueueNext]_(Queues!queueVars)
    OBVIOUS
  <2>1. CASE Next
    BY <2>1, NextLegal, QueueStep
  <2>2. CASE UNCHANGED vars
    <3>1. \A f \in Fifos : Chain(f)' = Chain(f)
      BY <2>2, Stutter
    <3>2. mem' = mem /\ dout' = dout
      BY <2>2 DEF vars
    <3> QED
      BY <3>1, <3>2 DEF Queues!queueVars, Entries, Entry
  <2> QED
    BY <2>1, <2>2
<1> QED
  BY FifoInvariance, <1>1, <1>2, PTL DEF Spec, ImplementsQueues, Queues!QueueSpec
===============================================================================
