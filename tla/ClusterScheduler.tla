-------------------------- MODULE ClusterScheduler --------------------------
(***************************************************************************)
(* hw/src/pkt_scheduler/cluster_scheduler.sv: takes tasks from the global  *)
(* scheduler, gives each a place in the L1 packet buffer (ClusterRB),      *)
(* starts the DMA transfer of its packet, and hands it to a free HPU once  *)
(* the packet has arrived; forwards the feedback of the HPUs and frees     *)
(* the packets.                                                            *)
(*                                                                         *)
(* One step is one clock cycle, or the end of a handler on an HPU.  The    *)
(* environment: the DMA engine, which answers the transfers in the order   *)
(* they were issued, and the HPU drivers, which run one task and hold one  *)
(* finished task each until its feedback is taken.                         *)
(***************************************************************************)
EXTENDS ClusterRB, Sequences

CONSTANTS
  NumHpus,    (* NUM_CORES                                                 *)
  FifoDepth,  (* NUM_HERS_PER_CLUSTER: tasks waiting for their packet      *)
  TaskIds     (* names for the tasks inside the cluster                    *)

ASSUME ClusterParams ==
  /\ NumHpus \in Nat \ {0}
  /\ FifoDepth \in Nat \ {0}

Hpus == 0 .. NumHpus - 1

VARIABLES
  state,      (* state_q: "Ready" or "WaitDMA"                             *)
  xferQ,      (* dma_xfer_q: the task whose transfer waits for the DMA     *)
  fifo,       (* i_dma_request_fifo                                        *)
  toPop,      (* to_pop_q: transfers completed and not yet handed out      *)
  dma,        (* DMA engine: the tasks of the issued transfers, in order   *)
  running,    (* running[c]: {} or the task HPU c runs                     *)
  finished    (* finished[c]: {} or the task whose feedback HPU c offers   *)

csVars == <<rb, live, state, xferQ, fifo, toPop, dma, running, finished>>

(* A task: its name, the size of its packet (0: none to copy), and where   *)
(* in the packet buffer it was placed (pkt_ptr).                           *)
Tasks == [id : TaskIds, size : Sizes, start : Nat]
Packet(t) == [start |-> t.start, size |-> t.size]

CsTypeOK ==
  /\ TypeOK
  /\ state \in {"Ready", "WaitDMA"}
  /\ xferQ \subseteq Tasks
  /\ fifo \in Seq(Tasks) /\ Len(fifo) <= FifoDepth
  /\ toPop \in 0 .. FifoDepth
  /\ dma \in Seq(Tasks)
  /\ running \in [Hpus -> SUBSET Tasks]
  /\ finished \in [Hpus -> SUBSET Tasks]

CsInit ==
  /\ Init
  /\ state = "Ready" /\ xferQ = {} /\ fifo = <<>> /\ toPop = 0
  /\ dma = <<>>
  /\ running = [c \in Hpus |-> {}]
  /\ finished = [c \in Hpus |-> {}]

Waiting == {fifo[k] : k \in DOMAIN fifo}
OnHpus  == UNION {running[c] \cup finished[c] : c \in Hpus}
Inside  == Waiting \cup OnHpus

-----------------------------------------------------------------------------
(* task_ready_o: no transfer pending, room in the FIFO and, by what the    *)
(* allocator reports, room for the packet.                                 *)
(* Mutants: room in the FIFO, or in the buffer, is not asked for.          *)
TaskReadyNoRoom(n) == state = "Ready" /\ MayAlloc(n)
TaskReadyNoSpace(n) == state = "Ready" /\ Len(fifo) < FifoDepth
TaskReady(n) == state = "Ready" /\ Len(fifo) < FifoDepth /\ MayAlloc(n)

FreeHpus == {c \in Hpus : running[c] = {}}
FreeHpu  == CHOOSE c \in FreeHpus : \A d \in FreeHpus : c <= d

(* dma_req_pop: the oldest task leaves for the lowest free HPU if it needs *)
(* no transfer or some transfer has completed.  Mutants: the transfer is   *)
(* not waited for; one is waited for even when there is none.              *)
DmaReqPopEager == fifo # <<>> /\ FreeHpus # {}
DmaReqPopAfterXfer == fifo # <<>> /\ FreeHpus # {} /\ toPop > 0
DmaReqPop == /\ fifo # <<>> /\ FreeHpus # {}
             /\ toPop > 0 \/ Head(fifo).size = 0
DmaReqPopNz == /\ fifo # <<>> /\ FreeHpus # {}
               /\ toPop > 0 /\ Head(fifo).size > 0

(* Mutant: a completion and a hand-out in one cycle do not cancel out.     *)
NextToPopRespWins(resp) ==
  IF resp THEN toPop + 1 ELSE IF DmaReqPopNz THEN toPop - 1 ELSE toPop

NextToPop(resp) ==
  IF resp /\ ~ DmaReqPopNz THEN toPop + 1
  ELSE IF DmaReqPopNz /\ ~ resp THEN toPop - 1 ELSE toPop

(* The transfer on the DMA port in this cycle: that of the accepted task   *)
(* if it has a packet, or the one that could not be issued before.         *)
DmaXfer(T) == IF state = "Ready" THEN {t \in T : t.size > 0} ELSE xferQ

(* A clock cycle: T is {} or the accepted task, dmaReady the DMA engine's  *)
(* ready, resp its response to the oldest transfer, and F is {} or the HPU *)
(* whose feedback the arbiter grants and the scheduler accepts.            *)
CsCycle(T, dmaReady, resp, F) ==
  LET issued == IF dmaReady THEN DmaXfer(T) ELSE {}
      fed    == UNION {finished[c] : c \in F}
      rest   == IF DmaReqPop THEN Tail(fifo) ELSE fifo
      taken  == IF resp THEN Tail(dma) ELSE dma
  IN  /\ RBCycle({t.size : t \in T}, {Packet(t) : t \in fed})
      /\ state' = IF DmaXfer(T) # {} /\ ~ dmaReady THEN "WaitDMA" ELSE "Ready"
      /\ xferQ' = DmaXfer(T)
      /\ fifo' = IF T = {} THEN rest ELSE Append(rest, CHOOSE t \in T : TRUE)
      /\ toPop' = NextToPop(resp)
      /\ dma' = IF issued = {} THEN taken ELSE Append(taken, CHOOSE t \in issued : TRUE)
      /\ running' = [c \in Hpus |-> IF DmaReqPop /\ c = FreeHpu THEN {Head(fifo)}
                                                                ELSE running[c]]
      /\ finished' = [c \in Hpus |-> IF c \in F THEN {} ELSE finished[c]]

NewTasks == {[id |-> i, size |-> n, start |-> AllocIndex(n)] :
               i \in TaskIds \ {t.id : t \in Inside}, n \in {m \in Sizes : TaskReady(m)}}

Clock ==
  \E T \in {{}} \cup {{t} : t \in NewTasks}, dmaReady \in BOOLEAN,
     resp \in {FALSE} \cup (IF dma # <<>> THEN {TRUE} ELSE {}),
     F \in {{}} \cup {{c} : c \in {d \in Hpus : finished[d] # {}}} :
     CsCycle(T, dmaReady, resp, F)

(* A handler ends: its feedback goes to the driver's one-entry buffer.     *)
HandlerEnds(c) ==
  /\ running[c] # {} /\ finished[c] = {}
  /\ running' = [running EXCEPT ![c] = {}]
  /\ finished' = [finished EXCEPT ![c] = running[c]]
  /\ UNCHANGED <<rb, live, state, xferQ, fifo, toPop, dma>>

CsNext == Clock \/ \E c \in Hpus : HandlerEnds(c)

CsSpec == CsInit /\ [][CsNext]_csVars

(* The clock ticks; the DMA engine takes and answers transfers; handlers   *)
(* end; the round-robin arbiter and the scheduler take every feedback.     *)
CsFairness ==
  /\ WF_csVars(Clock)
  /\ []<>(state = "Ready") \/ []<><<state = "WaitDMA" /\ state' = "Ready">>_csVars
  /\ []<>(dma = <<>>) \/ []<><<dma # <<>> /\ Head(dma) \notin {dma'[k] : k \in DOMAIN dma'}>>_csVars
  /\ \A c \in Hpus : /\ WF_csVars(HandlerEnds(c))
                     /\ []<>(finished[c] = {})
CsFairSpec == CsSpec /\ CsFairness

-----------------------------------------------------------------------------
(* The tasks whose transfer has not been answered, issued or not.          *)
Pending == IF state = "WaitDMA" THEN xferQ ELSE {}
InTransfer == Pending \cup {dma[k] : k \in DOMAIN dma}

(* No HPU runs a task whose packet is still being copied, although the     *)
(* completions of the transfers are only counted (to_pop) and tasks        *)
(* without a packet are handed out between them                            *)
(* (cluster_scheduler.sv:228-256).                                         *)
DataBeforeHandler == \A t \in OnHpus : t \notin InTransfer

(* to_pop counts the waiting tasks whose packet has arrived, also when a   *)
(* completion and a hand-out fall in one cycle                             *)
(* (cluster_scheduler.sv:246-256).                                         *)
ToPopExact ==
  toPop = Cardinality({k \in DOMAIN fifo : fifo[k].size > 0 /\ fifo[k] \notin InTransfer})

(* The place of a packet is its task's from the cycle the task is accepted *)
(* until its feedback leaves the cluster, and nobody else's: the places    *)
(* taken are those of the tasks inside (cluster_scheduler.sv:205,          *)
(* cluster_rb_shim.sv:53-58).                                              *)
BuffersOwned ==
  /\ PacketsDisjoint
  /\ {Packet(t) : t \in {u \in Inside : u.size > 0}} = {p \in live : p.size > 0}

(* Every task taken in is eventually fed back to the scheduler.            *)
AllFedBack == \A i \in TaskIds : i \in {t.id : t \in Inside} ~> i \notin {t.id : t \in Inside}
=============================================================================
