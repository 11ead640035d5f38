----------------------------- MODULE NicInbound -----------------------------
(***************************************************************************)
(* hw/verilator_model/src/NICInbound.hpp: the NIC model in front of PsPIN. *)
(* It allocates space for every incoming packet in a ring of L2 memory,    *)
(* writes the packet there, hands its HER to PsPIN once the write has      *)
(* completed, and frees the space when the feedback comes, in any order.   *)
(*                                                                         *)
(* One step is one simulated clock cycle (SimControl.hpp:97-120): the      *)
(* clock edge of PsPIN, then the posedge handler of the NIC, which sees    *)
(* PsPIN's outputs after the edge and drives its inputs for the next one.  *)
(* Of PsPIN the module keeps the packet FIFOs of the MPQs (PktQueues) and  *)
(* the packets being processed.  Sizes and addresses are in segments of    *)
(* NI_PKT_ADDR_ALIGNMENT bytes, to which the code rounds sizes up.         *)
(***************************************************************************)
EXTENDS Naturals, Sequences, FiniteSets

CONSTANTS
  Size,       (* segments of the L2 packet buffer (L2_PKT_BUFF_SIZE)       *)
  Sizes,      (* sizes of packets                                          *)
  NumPkts,    (* packets of the trace (added before the simulation starts) *)
  NumMsgs,    (* MPQs they go to                                           *)
  NumCells, NumStatic  (* cells of PsPIN's packet FIFOs                    *)

ASSUME NicParams ==
  /\ Size \in Nat \ {0} /\ NumPkts \in Nat \ {0} /\ NumMsgs \in Nat \ {0}
  /\ Sizes \subseteq 1 .. Size

Ids  == 1 .. NumPkts
Msgs == 0 .. NumMsgs - 1
Offsets == 0 .. Size

VARIABLES
  trace,      (* trace[p]: message and size of packet p                    *)
  incoming,   (* incoming_hers                                             *)
  queued,     (* queued_hers: written, the write not completed             *)
  ready,      (* ready_hers: written, the HER not sent                     *)
  addr,       (* her_addr of the packets allocated so far                  *)
  ring,       (* head_ptr, tail_ptr, cut_ptr, cut and in_flight_packets    *)
  freeReq,    (* free_req_queue: the size freed at each offset, 0 if none  *)
  pktmap,     (* the packets sent to PsPIN and not fed back                *)
  her,        (* the HER ports: [valid, pkt]                               *)
  eos,        (* eos_o                                                     *)
  fifo,       (* PsPIN: the packets queued in each MPQ                     *)
  running     (* PsPIN: packets taken from their MPQ, not fed back         *)

vars == <<trace, incoming, queued, ready, addr, ring, freeReq, pktmap, her, eos,
          fifo, running>>

PsPIN == INSTANCE PktQueues WITH NumFifo <- NumMsgs, Elems <- Ids, queue <- fifo, dout <- 1

TypeOK ==
  /\ trace \in [Ids -> [msg : Msgs, size : Sizes]]
  /\ incoming \in Seq(Ids) /\ queued \in Seq(Ids) /\ ready \in Seq(Ids)
  /\ addr \in [Ids -> Offsets]
  /\ ring \in [head : Offsets, tail : Offsets, cutPtr : Offsets, cut : BOOLEAN,
               inFlight : 0 .. NumPkts]
  /\ freeReq \in [Offsets -> {0} \cup Sizes]
  /\ pktmap \subseteq Ids /\ running \subseteq Ids
  /\ her \in [valid : BOOLEAN, pkt : Ids] /\ eos \in BOOLEAN
  /\ fifo \in [Msgs -> Seq(PsPIN!Cell)]

Init ==
  /\ trace \in [Ids -> [msg : Msgs, size : Sizes]]
  /\ incoming = [p \in Ids |-> p] /\ queued = <<>> /\ ready = <<>>
  /\ addr = [p \in Ids |-> 0]
  /\ ring = [head |-> 0, tail |-> 0, cutPtr |-> 0, cut |-> FALSE, inFlight |-> 0]
  /\ freeReq = [o \in Offsets |-> 0]
  /\ pktmap = {} /\ running = {}
  /\ her = [valid |-> FALSE, pkt |-> 1] /\ eos = FALSE
  /\ fifo = [m \in Msgs |-> <<>>]

-----------------------------------------------------------------------------
(* allocate_pkt_space: a packet of s segments goes behind the tail, up to  *)
(* the end of the buffer or to the head, or to the start of the buffer     *)
(* when the space in front of the head is large enough.  Mutants: one      *)
(* segment too many; the head is not kept clear; the rest of the buffer is *)
(* not cut off.                                                            *)
Linear(r) == r.tail > r.head \/ (r.tail = r.head /\ r.inFlight = 0)
FitsPastEnd(r, s)  == Linear(r) /\ Size - r.tail + 1 >= s
FitsAtEnd(r, s)    == Linear(r) /\ Size - r.tail >= s
FitsAtStart(r, s)  == Linear(r) /\ ~ FitsAtEnd(r, s) /\ r.head >= s
FitsBelowHeadLoose(r, s) == r.head > r.tail /\ Size - r.tail >= s
FitsBelowHead(r, s) == r.head > r.tail /\ r.head - r.tail >= s
CanAllocate(r, s)  == FitsAtEnd(r, s) \/ FitsAtStart(r, s) \/ FitsBelowHead(r, s)

WrapUncut(r, s) == IF FitsAtStart(r, s) THEN [r EXCEPT !.tail = 0] ELSE r
Wrap(r, s) == IF FitsAtStart(r, s)
              THEN [r EXCEPT !.cutPtr = r.tail, !.cut = TRUE, !.tail = 0] ELSE r

Allocate(r, s) == LET w == Wrap(r, s)
                  IN  [w EXCEPT !.tail = @ + s, !.inFlight = @ + 1]

(* free_pkt_space: the head moves over the packets freed so far, as long   *)
(* as the packet at the head is one of them.  Mutant: it moves over one    *)
(* packet only.                                                            *)
Advance(r, req) ==
  LET h == r.head + req[r.head]
      back == r.cut /\ h = r.cutPtr
  IN  <<[r EXCEPT !.head = IF back THEN 0 ELSE h, !.cut = r.cut /\ ~ back,
                  !.inFlight = @ - 1],
        [req EXCEPT ![r.head] = 0]>>

ReclaimOne(r, req) == IF req[r.head] # 0 THEN Advance(r, req) ELSE <<r, req>>
Reclaim(r, req) ==
  LET after[n \in 0 .. NumPkts] ==
        IF n = 0 THEN <<r, req>>
        ELSE LET s == after[n - 1]
             IN  IF s[2][s[1].head] # 0 THEN Advance(s[1], s[2]) ELSE s
  IN  after[NumPkts]

Free(r, req, p) ==
  IF p = {} THEN <<r, req>>
  ELSE LET q == CHOOSE q \in p : TRUE
       IN  Reclaim(r, [req EXCEPT ![addr[q]] = trace[q].size])

-----------------------------------------------------------------------------
(* The edge of PsPIN's clock: the HER on the ports is taken when the MPQ   *)
(* it goes to is not full; a packet may leave an MPQ (pop), and the        *)
(* processing of one may end (fb).                                         *)
Taken == her.valid /\ ~ PsPIN!Full(trace[her.pkt].msg)

Edge(pop, fb) ==
  /\ \A m \in pop : fifo[m] # <<>>
  /\ fb \subseteq running
  /\ fifo' = [m \in Msgs |->
                LET rest == IF m \in pop THEN Tail(fifo[m]) ELSE fifo[m]
                IN  IF Taken /\ trace[her.pkt].msg = m
                    THEN Append(rest, PsPIN!NewCell(m, her.pkt)) ELSE rest]
  /\ running' = (running \ fb) \cup {Head(fifo[m]).el : m \in pop}

(* her_ready_i, which answers for the message of the HER last driven, after *)
(* PsPIN has taken it.  Mutant: the answer of before the edge.             *)
HerReadyBefore == \A m \in Msgs : m = trace[her.pkt].msg => ~ PsPIN!Full(m)
HerReady == \A m \in Msgs : m = trace[her.pkt].msg => ~ PsPIN!Full(m)'

(* The posedge handler: the answer to the oldest write (written), the next *)
(* packet when it is due (arrives) and its space is there, the next HER,   *)
(* and the feedback.  The wait cycles between packets are any number.      *)
Posedge(written, arrives, fb) ==
  LET ready1 == IF written THEN Append(ready, Head(queued)) ELSE ready
      rest   == IF written THEN Tail(queued) ELSE queued
      p      == Head(incoming)
      stored == arrives /\ CanAllocate(ring, trace[p].size)
      ring1  == IF stored THEN Allocate(ring, trace[p].size) ELSE ring
      freed  == Free(ring1, freeReq, fb)
      sent   == HerReady /\ ready1 # <<>>
  IN  /\ written => queued # <<>>
      /\ arrives => incoming # <<>>
      /\ incoming' = IF stored THEN Tail(incoming) ELSE incoming
      /\ addr'     = IF stored THEN [addr EXCEPT ![p] = Wrap(ring, trace[p].size).tail] ELSE addr
      /\ queued'   = IF stored THEN Append(rest, p) ELSE rest
      /\ ready'    = IF sent THEN Tail(ready1) ELSE ready1
      /\ her'      = IF sent THEN [valid |-> TRUE, pkt |-> Head(ready1)]
                             ELSE [her EXCEPT !.valid = FALSE]
      /\ pktmap'   = (pktmap \cup (IF sent THEN {Head(ready1)} ELSE {})) \ fb
      /\ eos'      = (eos \/ (sent /\ incoming' = <<>> /\ queued' = <<>> /\ ready' = <<>>))
      /\ ring'     = freed[1]
      /\ freeReq'  = freed[2]

Cycle(pop, fb, written, arrives) ==
  Edge(pop, fb) /\ Posedge(written, arrives, fb) /\ UNCHANGED trace

AtMostOne(S) == {{}} \cup {{x} : x \in S}

Next == \E pop \in AtMostOne(Msgs), fb \in AtMostOne(running), written, arrives \in BOOLEAN :
           Cycle(pop, fb, written, arrives)

Spec == Init /\ [][Next]_vars

(***************************************************************************)
(* Fairness: the clock goes on while there is a HER to send or on the      *)
(* ports, the memory answers every write, every packet with room becomes   *)
(* due, PsPIN empties its MPQs and ends its handlers.  Each is weak        *)
(* fairness of the cycles that do it, with ENABLED replaced by the state   *)
(* predicate it amounts to.                                                *)
(***************************************************************************)
HasRoom  == incoming # <<>> /\ CanAllocate(ring, trace[Head(incoming)].size)
Answered == queued # <<>> /\ (queued' = <<>> \/ Head(queued') # Head(queued))
Stored   == incoming # incoming'
Popped(m) == fifo[m] # <<>> /\ (fifo'[m] = <<>> \/ Head(fifo'[m]) # Head(fifo[m]))
Ended(p) == p \in running /\ p \notin running'

Fairness ==
  /\ []<>(ready = <<>> /\ ~ her.valid) \/ []<><<TRUE>>_vars
  /\ []<>(queued = <<>>) \/ []<><<Answered>>_vars
  /\ []<>(~ HasRoom) \/ []<><<Stored>>_vars
  /\ \A m \in Msgs : []<>(fifo[m] = <<>>) \/ []<><<Popped(m)>>_vars
  /\ \A p \in Ids : []<>(p \notin running) \/ []<><<Ended(p)>>_vars

FairSpec == Spec /\ Fairness

-----------------------------------------------------------------------------
InSeq(s) == {s[k] : k \in DOMAIN s}
Segments(o, s) == {o + k : k \in 0 .. s - 1}

(* The packets in L2 memory: stored and not fed back.                      *)
Live == InSeq(queued) \cup InSeq(ready) \cup pktmap
Place(p) == Segments(addr[p], trace[p].size)

(* No packet is stored over one that PsPIN may still read, or whose HER it *)
(* has not got; and none sits where a freed one waits for the head, so no  *)
(* offset is freed twice (the assertion at NICInbound.hpp:298).            *)
PacketsDisjoint ==
  /\ \A p \in Live : Place(p) \subseteq 0 .. Size - 1 /\ freeReq[addr[p]] = 0
  /\ \A p, q \in Live : p # q => Place(p) \cap Place(q) = {}

(* The pointers describe exactly the packets stored and those freed out of *)
(* order: nothing leaks, whatever the order of the feedbacks and wherever  *)
(* the buffer was cut (NICInbound.hpp:247-317).                            *)
Freed == {o \in Offsets : freeReq[o] # 0}
Region(r) == IF r.cut THEN r.head .. r.cutPtr - 1 \cup 0 .. r.tail - 1
             ELSE r.head .. r.tail - 1
SpaceAccounted ==
  /\ ring.inFlight = Cardinality(Live) + Cardinality(Freed)
  /\ Region(ring) = UNION ({Place(p) : p \in Live} \cup {Segments(o, freeReq[o]) : o \in Freed})

(* The next packet, arriving now, would cut the empty buffer at its head:   *)
(* head and tail stand together away from the start, and it fits only there. *)
AboutToCutAtHead ==
  incoming # <<>> /\ ring.inFlight = 0 /\ FitsAtStart(ring, trace[Head(incoming)].size)

(* The HER of p, on the ports, finds its MPQ full, and goes to another MPQ  *)
(* than the HER before it, for which the NIC was told that there is room.   *)
(* HERs leave in the order of the trace.                                   *)
RefusedAtSwitch(p) ==
  /\ her.valid /\ her.pkt = p /\ ~ Taken
  /\ p > 1 /\ trace[p].msg # trace[p - 1].msg

(* Every packet stored is given back: its write is answered, its HER sent,  *)
(* and it is processed -- unless its own HER is lost at a change of         *)
(* messages (NICInbound.hpp:391), which costs no other packet; whatever     *)
(* the ring does to those that are still to come.                          *)
StoredGivenBack ==
  \A p \in Ids : [](~ RefusedAtSwitch(p)) => (p \in Live ~> p \notin Live)

(* And the trace comes to its end, with eos_o raised (NICInbound.hpp:319-   *)
(* 364, 387-497), if no HER is lost and no packet cuts the buffer at its    *)
(* head, where an empty ring refuses packets for ever (NICInbound.hpp:260). *)
AllDone == incoming = <<>> /\ queued = <<>> /\ ready = <<>> /\ pktmap = {} /\ eos
TraceDone ==
  [](~ AboutToCutAtHead /\ \A p \in Ids : ~ RefusedAtSwitch(p)) => <>AllDone

AllProcessed == StoredGivenBack /\ TraceDone
=============================================================================
