------------------------------ MODULE ClusterRB ------------------------------
(***************************************************************************)
(* hw/src/pkt_scheduler/cluster_rb.sv and cluster_rb_shim.sv: the          *)
(* allocator of a cluster's L1 packet buffer.  The buffer is split into    *)
(* NumRB ring buffers of NumSlots slots; a packet takes consecutive slots  *)
(* of one ring, allocated at its tail and freed in any order.              *)
(*                                                                         *)
(* Sizes and indices are in slots of MemSlotSize bytes (the code rounds    *)
(* sizes up and multiplies indices back).  One step is one clock cycle.    *)
(***************************************************************************)
EXTENDS Integers, FiniteSets

CONSTANTS
  NumRB,      (* ring buffers in the shim                                  *)
  NumSlots,   (* slots per ring, a power of two: pointers wrap around      *)
  Sizes,      (* packet sizes in slots                                     *)
  Handshake   (* TRUE: the requester waits for alloc_ready_o; FALSE: it    *)
              (* trusts free_space_o, as cluster_scheduler.sv does         *)

ASSUME RBParams ==
  /\ NumRB \in Nat \ {0}
  /\ NumSlots \in Nat \ {0}
  /\ Sizes \subseteq 0 .. NumSlots
  /\ Handshake \in BOOLEAN

RBs   == 0 .. NumRB - 1
Slots == 0 .. NumSlots - 1
(* Slots of the whole buffer, ring after ring; a packet placed too high    *)
(* spills into the next ring or past the last one.                         *)
Buffer == 0 .. NumRB * NumSlots - 1

VARIABLES
  rb,       (* rb[i]: [bitmap (the used slots), head, tail] of ring i      *)
  live      (* packets in the buffer: [start, size], start counted from 0  *)

vars == <<rb, live>>

Packets == [start : Nat, size : Sizes]

TypeOK ==
  /\ rb \in [RBs -> [bitmap : SUBSET Slots, head : Slots, tail : Slots]]
  /\ live \subseteq Packets

Init ==
  /\ rb = [i \in RBs |-> [bitmap |-> {}, head |-> 0, tail |-> 0]]
  /\ live = {}

-----------------------------------------------------------------------------
EqualFull(b)  == b.head = b.tail /\ b.bitmap # {}
(* Mutant: the pointers are never reset.                                   *)
NeverEmpty(b) == FALSE
EqualEmpty(b) == b.head = b.tail /\ b.bitmap = {}

ToEnd(b) == NumSlots - b.tail

(* free_slots: what the ring reports as available.                         *)
FreeSlots(b) ==
  IF EqualFull(b) THEN 0
  ELSE IF b.head <= b.tail
       THEN IF ToEnd(b) > b.head THEN ToEnd(b) ELSE b.head
       ELSE b.head - b.tail

(* data_fits and padding: at the tail, or at the start of the ring.  When  *)
(* head > tail the comparison is on unsigned tail - head, which is always  *)
(* large enough (line 171).                                                *)
(* Mutant: off by one at the end of the ring.                              *)
FitsNearTail(b, n) == b.head <= b.tail /\ ToEnd(b) + 1 >= n
FitsAtTail(b, n)  == b.head <= b.tail /\ ToEnd(b) >= n
FitsAtStart(b, n) == b.head <= b.tail /\ ToEnd(b) < n /\ n < b.head
DataFits(b, n)    == ~ EqualFull(b) /\ (FitsAtTail(b, n) \/ FitsAtStart(b, n) \/ b.head > b.tail)
Padding(b, n)     == IF ~ EqualFull(b) /\ FitsAtStart(b, n) THEN ToEnd(b) ELSE 0

(* Pointers are as wide as the ring: they wrap around.                     *)
(* Mutant: they do not.                                                    *)
AdvanceFlat(p, k) == p + k
Advance(p, k) == (p + k) % NumSlots

(* Mutant: a packet that does not fit at the end is placed there.          *)
PushIdxAtTail(b, n) == b.tail
PushIdx(b, n) == Advance(b.tail, Padding(b, n))

(* head_ptr_incr: how far the head can move over free slots, not past the  *)
(* tail.                                                                   *)
FreeRun(b) == CHOOSE k \in 0 .. NumSlots :
                /\ \A j \in 0 .. k - 1 : (b.head + j) % NumSlots \notin b.bitmap
                /\ k < NumSlots => (b.head + k) % NumSlots \in b.bitmap
MaxRun(b)  == (b.tail - b.head) % NumSlots
HeadIncr(b) == IF MaxRun(b) > FreeRun(b) THEN FreeRun(b) ELSE MaxRun(b)

(* The next state of ring b: A is {} or the size requested from it, F is   *)
(* {} or the packet (ring-relative) freed in it.                           *)
NextRB(b, A, F) ==
  LET P      == {n \in A : DataFits(b, n)}
      quiet  == P = {} /\ F = {} /\ EqualEmpty(b)
      pushed == UNION {PushIdx(b, n) .. PushIdx(b, n) + n - 1 : n \in P}
      popped == UNION {p.start .. p.start + p.size - 1 : p \in F}
      flip   == (pushed \cup popped) \cap Slots
  IN  [bitmap |-> (b.bitmap \ flip) \cup (flip \ b.bitmap),
       head   |-> IF quiet THEN 0 ELSE Advance(b.head, HeadIncr(b)),
       tail   |-> IF quiet THEN 0
                  ELSE IF P = {} THEN b.tail
                  ELSE LET n == CHOOSE n \in P : TRUE
                       IN  Advance(PushIdx(b, n), n)]

(* The shim serves a request from the first ring that reports enough       *)
(* space (the last one when none does), and reports the largest space.     *)
WithSpace(n)  == {i \in RBs : FreeSlots(rb[i]) >= n}
SelRB(n)      == IF WithSpace(n) = {} THEN NumRB - 1
                 ELSE CHOOSE i \in WithSpace(n) : \A j \in WithSpace(n) : i <= j
SpaceFor(n)   == WithSpace(n) # {}
AllocReady(n) == DataFits(rb[SelRB(n)], n)
AllocIndex(n) == SelRB(n) * NumSlots + PushIdx(rb[SelRB(n)], n)

FreedRB(p)    == p.start \div NumSlots
(* Mutant: the ring's own offset is not subtracted.                        *)
Absolute(p)   == p
Relative(p)   == [p EXCEPT !.start = @ % NumSlots]

(* One clock cycle: A is {} or the size of the accepted task, F is {} or   *)
(* the packet whose feedback is forwarded.  The packet occupies the slots  *)
(* at alloc_index_o whether or not the ring recorded it.                   *)
RBCycle(A, F) ==
  /\ rb' = [i \in RBs |-> NextRB(rb[i], {n \in A : SelRB(n) = i},
                                        {Relative(p) : p \in {q \in F : FreedRB(q) = i}})]
  /\ live' = (live \ F) \cup {[start |-> AllocIndex(n), size |-> n] : n \in A}

(* A task is taken when the reported space suffices                        *)
(* (cluster_scheduler.sv:205); the allocator's own handshake is ignored    *)
(* there (pkt_alloc_ready, line 94).                                       *)
MayAlloc(n) == SpaceFor(n) /\ (Handshake => AllocReady(n))

Next ==
  \E A \in {{}} \cup {{n} : n \in Sizes}, F \in {{}} \cup {{p} : p \in live} :
     /\ \A n \in A : MayAlloc(n)
     /\ RBCycle(A, F)

(* An idle cycle: the clock runs with no request and no free.              *)
Quiet == RBCycle({}, {})

Spec == Init /\ [][Next]_vars
FairSpec == Spec /\ WF_vars(Quiet)

-----------------------------------------------------------------------------
Occupied(p) == p.start .. p.start + p.size - 1

(* No slot of the packet buffer belongs to two packets, no packet leaves   *)
(* the buffer, and the bitmaps say exactly which slots are taken: frees in *)
(* any order, wrap-around and the skipped slots at the end of a ring       *)
(* included (cluster_rb.sv:82-176).                                        *)
PacketsDisjoint ==
  /\ \A p \in live : Occupied(p) \subseteq Buffer
  /\ \A p, q \in live : p # q => Occupied(p) \cap Occupied(q) = {}
BitmapExact ==
  \A i \in RBs : rb[i].bitmap =
     {s \in Slots : \E p \in live : i * NumSlots + s \in Occupied(p)}

(* The space a ring reports is there: a run of that many free slots starts *)
(* where the next packet of that size would go (cluster_rb.sv:128-139).    *)
ReportedSpaceIsFree ==
  \A i \in RBs : \A n \in Sizes : FreeSlots(rb[i]) >= n /\ DataFits(rb[i], n) =>
     /\ PushIdx(rb[i], n) + n <= NumSlots
     /\ (PushIdx(rb[i], n) .. PushIdx(rb[i], n) + n - 1) \cap rb[i].bitmap = {}

(* A request the allocator reports space for is accepted: what makes it    *)
(* safe to ignore alloc_ready_o (cluster_rb.sv:15, cluster_scheduler.sv:94 *)
(* and 205).                                                               *)
ReportedSpaceIsGranted == \A n \in Sizes \ {0} : SpaceFor(n) => AllocReady(n)

(* No space is lost: a buffer whose packets are all freed offers each ring *)
(* in full again, once the pointers had a quiet cycle to reset             *)
(* (cluster_rb.sv:145-150).                                                *)
SpaceRecovered ==
  live = {} ~> live # {} \/ \A i \in RBs : FreeSlots(rb[i]) = NumSlots
=============================================================================
