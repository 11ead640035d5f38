------------------------------ MODULE Commands ------------------------------
(***************************************************************************)
(* The commands of the handlers on their way to the host and the network   *)
(* and back: cmd_unit.sv, which serves the clusters, and the three command *)
(* interfaces: host_direct.sv (reads and writes of one word of the host),  *)
(* soc_dma_wrap.sv (transfers to and from the host) and                    *)
(* NICOutbound.hpp (packets).                                              *)
(*                                                                         *)
(* No interface hands an identifier along: every one of them finds the     *)
(* command of an answer by its place in a queue.  Every step is one queue  *)
(* operation of the hardware or of the simulation model; the operations of *)
(* one clock cycle are steps in any order.  In the program an answer       *)
(* carries cmd_id; here it is the command itself.                          *)
(***************************************************************************)
EXTENDS Naturals, Sequences, FiniteSets, Functions

CONSTANTS
  Clusters,          (* a cluster is the set of the commands of its cores  *)
  Writes, Reads,     (* host direct commands, nic_to_host = 1 and 0        *)
  Sends, Rdmas,      (* commands to the NIC with fid = 0 and fid > 0       *)
  ToHost, FromHost,  (* soc DMA commands, nic_to_host = 1 and 0            *)
  RdmaPackets,       (* packets of an RDMA command                         *)
  RespBuffSize,      (* INTF_RESP_BUFF_SIZE                                *)
  AxDepth, IdDepth,  (* depths of the address and data FIFOs and of the id *)
                     (* FIFOs of host_direct                               *)
  RespFIFODepth,     (* depth of the id FIFOs of soc_dma_wrap              *)
  NumParallelCmd,    (* NUM_PARALLEL_CMD                                   *)
  NetworkBuffer,     (* network_buffer_size                                *)
  MaxBusy            (* bound: commands unanswered at a time               *)

Cmds == Writes \cup Reads \cup Sends \cup Rdmas \cup ToHost \cup FromHost
Interfaces == {"hostdirect", "outbound", "edma"}
Dirs == {"rx", "tx"}

(* The DMA engine is started even when its id FIFO is full                 *)
(* (soc_dma_wrap.sv:107-109): the depth has to exceed what is in flight.   *)
ASSUME CommandParams ==
  /\ UNION Clusters = Cmds /\ \A k1, k2 \in Clusters : k1 = k2 \/ k1 \cap k2 = {}
  /\ Writes \cap Reads = {} /\ Sends \cap Rdmas = {} /\ ToHost \cap FromHost = {}
  /\ (Writes \cup Reads) \cap (Sends \cup Rdmas) = {}
  /\ (Writes \cup Reads \cup Sends \cup Rdmas) \cap (ToHost \cup FromHost) = {}
  /\ RespBuffSize \in {2, 4, 8, 16} /\ RespFIFODepth \in Nat /\ RespFIFODepth >= RespBuffSize
  /\ {RdmaPackets, AxDepth, IdDepth, NumParallelCmd, NetworkBuffer, MaxBusy} \subseteq Nat \ {0}

VARIABLES
  spill,      (* the spill register of every cluster                       *)
  inFlight,   (* i_req_fifo: the number of its elements                    *)
  respBuffer, (* i_resp_fifo of every interface                            *)
  hd,         (* the FIFOs of host_direct                                  *)
  host,       (* the host: addresses waiting for data, writes and reads in *)
              (* flight, and the B and R beats it has to send              *)
  ids, toPop, (* soc_dma_wrap: the id FIFO and to_pop of every direction   *)
  dma,        (* the DMA engine: transfers of every direction              *)
  packetizer, (* commands that still have packets to make                  *)
  dmaPkts,    (* dma_pkt_in_flight                                         *)
  netQueue,   (* network_queue                                             *)
  unsent,     (* packets of a command that have not left                   *)
  busy,       (* commands issued and not answered                          *)
  effected    (* those of them that have taken effect                      *)

unitVars == <<spill, inFlight>>
hdVars   == <<hd, host>>
edmaVars == <<ids, toPop, dma>>
nicVars  == <<packetizer, dmaPkts, netQueue, unsent>>
vars == <<unitVars, respBuffer, hdVars, edmaVars, nicVars, busy, effected>>

Init ==
  /\ spill = [k \in Clusters |-> <<>>]
  /\ inFlight = [i \in Interfaces |-> 0]
  /\ respBuffer = [i \in Interfaces |-> <<>>]
  /\ hd = [q \in {"aw", "w", "writeIds", "ar", "readIds"} |-> <<>>]
  /\ host = [aw |-> <<>>, writes |-> <<>>, reads |-> <<>>, b |-> 0, r |-> 0]
  /\ ids = [d \in Dirs |-> <<>>] /\ toPop = [d \in Dirs |-> 0] /\ dma = [d \in Dirs |-> <<>>]
  /\ packetizer = <<>> /\ dmaPkts = <<>> /\ netQueue = <<>>
  /\ unsent = [c \in Cmds |-> 0]
  /\ busy = {} /\ effected = {}

Push(f, q, x) == [f EXCEPT ![q] = Append(@, x)]
Pop(f, q) == [f EXCEPT ![q] = Tail(@)]
-----------------------------------------------------------------------------
(* cmd_unit.                                                               *)
Interface(c) == IF c \in Writes \cup Reads THEN "hostdirect"
                ELSE IF c \in Sends \cup Rdmas THEN "outbound" ELSE "edma"

(* A core issues a command: the arbiter of its cluster passes it on.       *)
Issue(c, k) ==
  /\ c \in k \ busy /\ Cardinality(busy) < MaxBusy
  /\ Len(spill[k]) < 2
  /\ spill' = Push(spill, k, c)
  /\ busy' = busy \cup {c}
  /\ UNCHANGED <<inFlight, respBuffer, hdVars, edmaVars, nicVars, effected>>

(* usage_o of the FIFO has $clog2(RespBuffSize) bits: a full FIFO reads as *)
(* empty, hence the -1.  Mutant: without.                                  *)
UsageOf(i) == inFlight[i] % RespBuffSize
HasSpaceToTheLast(i) == UsageOf(i) < RespBuffSize
HasSpace(i) == UsageOf(i) < RespBuffSize - 1

(* The head of the register of cluster k is offered to its interface; one  *)
(* that is refused keeps those behind it waiting.  The interface accepts.  *)
Offered(k, S) == spill[k] # <<>> /\ Head(spill[k]) \in S /\ HasSpace(Interface(Head(spill[k])))
Accepted(k) ==
  /\ spill' = Pop(spill, k)
  /\ inFlight' = [inFlight EXCEPT ![Interface(Head(spill[k]))] =
                    IF @ = RespBuffSize THEN @ ELSE @ + 1]

(* An answer of an interface is pushed unless the FIFO is full: then it is *)
(* lost.                                                                   *)
Respond(i, c) ==
  respBuffer' = IF Len(respBuffer[i]) = RespBuffSize THEN respBuffer
                ELSE Push(respBuffer, i, c)

(* The arbiter of the answers takes one and broadcasts it to the clusters, *)
(* where the HPU that issued the command picks it up.                      *)
Answer(i) ==
  /\ respBuffer[i] # <<>>
  /\ respBuffer' = Pop(respBuffer, i)
  /\ inFlight' = [inFlight EXCEPT ![i] = @ - 1]
  /\ busy' = busy \ {Head(respBuffer[i])}
  /\ effected' = effected \ {Head(respBuffer[i])}
  /\ UNCHANGED <<spill, hdVars, edmaVars, nicVars>>

-----------------------------------------------------------------------------
(* host_direct.  A write is split into address and data; the host answers  *)
(* writes and reads each in their order.                                   *)
(* Mutant: one entry too many.                                             *)
HdRoomOver(q, depth) == Len(hd[q]) <= depth
HdRoom(q, depth) == Len(hd[q]) < depth

DispatchWrite(k) ==
  LET c == Head(spill[k])
  IN  /\ Offered(k, Writes)
      /\ HdRoom("aw", AxDepth) /\ HdRoom("w", AxDepth) /\ HdRoom("writeIds", IdDepth)
      /\ Accepted(k)
      /\ hd' = Push(Push(Push(hd, "aw", c), "w", c), "writeIds", c)
      /\ UNCHANGED <<respBuffer, host, edmaVars, nicVars, busy, effected>>

DispatchRead(k) ==
  LET c == Head(spill[k])
  IN  /\ Offered(k, Reads)
      /\ HdRoom("ar", AxDepth) /\ HdRoom("readIds", IdDepth)
      /\ Accepted(k)
      /\ hd' = Push(Push(hd, "ar", c), "readIds", c)
      /\ UNCHANGED <<respBuffer, host, edmaVars, nicVars, busy, effected>>

HdUnchanged == UNCHANGED <<unitVars, edmaVars, nicVars, busy>>

HostTakesAw ==
  /\ hd["aw"] # <<>>
  /\ hd' = Pop(hd, "aw")
  /\ host' = Push(host, "aw", Head(hd["aw"]))
  /\ HdUnchanged /\ UNCHANGED <<respBuffer, effected>>

(* Data goes with the oldest address that has none.                        *)
HostTakesW ==
  /\ hd["w"] # <<>> /\ host.aw # <<>>
  /\ hd' = Pop(hd, "w")
  /\ host' = Push(Pop(host, "aw"), "writes", [addr |-> Head(host.aw), data |-> Head(hd["w"])])
  /\ HdUnchanged /\ UNCHANGED <<respBuffer, effected>>

HostTakesAr ==
  /\ hd["ar"] # <<>>
  /\ hd' = Pop(hd, "ar")
  /\ host' = Push(host, "reads", Head(hd["ar"]))
  /\ HdUnchanged /\ UNCHANGED <<respBuffer, effected>>

(* A write has its effect when its own data reaches its own address.       *)
HostWrites ==
  /\ host.writes # <<>>
  /\ host' = [Pop(host, "writes") EXCEPT !.b = @ + 1]
  /\ effected' = effected \cup
       {c \in busy : Head(host.writes) = [addr |-> c, data |-> c]}
  /\ HdUnchanged /\ UNCHANGED <<respBuffer, hd>>

HostReads ==
  /\ host.reads # <<>>
  /\ host' = [Pop(host, "reads") EXCEPT !.r = @ + 1]
  /\ effected' = effected \cup {Head(host.reads)}
  /\ HdUnchanged /\ UNCHANGED <<respBuffer, hd>>

(* One answer a cycle, reads first.                                        *)
ReadResponse ==
  /\ host.r > 0
  /\ Respond("hostdirect", Head(hd["readIds"]))
  /\ host' = [host EXCEPT !.r = @ - 1]
  /\ hd' = Pop(hd, "readIds")
  /\ HdUnchanged /\ UNCHANGED effected

WriteResponse ==
  /\ host.b > 0 /\ host.r = 0
  /\ Respond("hostdirect", Head(hd["writeIds"]))
  /\ host' = [host EXCEPT !.b = @ - 1]
  /\ hd' = Pop(hd, "writeIds")
  /\ HdUnchanged /\ UNCHANGED effected

-----------------------------------------------------------------------------
(* soc_dma_wrap.                                                           *)
Dir(c) == IF c \in ToHost THEN "rx" ELSE "tx"
EdmaUnchanged == UNCHANGED <<hdVars, nicVars, busy>>

(* The transfer starts; the command is taken and recorded if there is room *)
(* in the id FIFO.                                                         *)
DispatchEdma(k) ==
  LET c == Head(spill[k])
  IN  /\ Offered(k, ToHost \cup FromHost)
      /\ dma' = Push(dma, Dir(c), c)
      /\ IF Len(ids[Dir(c)]) < RespFIFODepth
         THEN Accepted(k) /\ ids' = Push(ids, Dir(c), c)
         ELSE UNCHANGED <<unitVars, ids>>
      /\ EdmaUnchanged /\ UNCHANGED <<respBuffer, toPop, effected>>

(* The engine completes the transfers of a direction in their order.       *)
EdmaCompletes(d) ==
  /\ dma[d] # <<>>
  /\ dma' = Pop(dma, d)
  /\ toPop' = [toPop EXCEPT ![d] = @ + 1]
  /\ effected' = effected \cup {Head(dma[d])}
  /\ EdmaUnchanged /\ UNCHANGED <<unitVars, respBuffer, ids>>

RespAvail(d) == toPop[d] > 0
EdmaResponse(d) ==
  /\ RespAvail(d)
  /\ toPop' = [toPop EXCEPT ![d] = @ - 1]
  /\ ids' = Pop(ids, d)
  /\ Respond("edma", Head(ids[d]))
  /\ EdmaUnchanged /\ UNCHANGED <<unitVars, dma, effected>>

-----------------------------------------------------------------------------
(* NICOutbound: a packet a cycle, of the command whose turn it is; its     *)
(* data is fetched, and it leaves through a bounded buffer.  The command   *)
(* is answered when its last packet leaves.                                *)
NumPackets(c) == IF c \in Rdmas THEN RdmaPackets ELSE 1

DispatchOutbound(k) ==
  LET c == Head(spill[k])
  IN  /\ Offered(k, Sends \cup Rdmas)
      /\ Len(packetizer) < NumParallelCmd
      /\ Accepted(k)
      /\ packetizer' = Append(packetizer, [cmd |-> c, left |-> NumPackets(c)])
      /\ unsent' = [unsent EXCEPT ![c] = NumPackets(c)]
      /\ UNCHANGED <<respBuffer, hdVars, edmaVars, dmaPkts, netQueue, busy, effected>>

(* get_next_packet.  Mutant: the last but one packet is the last, too.     *)
IsLastEarly(cmd) == cmd.left <= 2
IsLast(cmd) == cmd.left = 1
ProgressPackets ==
  /\ packetizer # <<>> /\ Len(netQueue) + Len(dmaPkts) < NetworkBuffer
  /\ LET cmd == Head(packetizer)
         next == [cmd EXCEPT !.left = @ - 1]
     IN  /\ dmaPkts' = Append(dmaPkts, [cmd |-> cmd.cmd, last |-> IsLast(cmd)])
         /\ packetizer' = IF next.left > 0 THEN Append(Tail(packetizer), next)
                                           ELSE Tail(packetizer)
  /\ UNCHANGED <<unitVars, respBuffer, hdVars, edmaVars, netQueue, unsent, busy, effected>>

(* The data of the oldest packet is complete.                              *)
ProgressReadResponses ==
  /\ dmaPkts # <<>>
  /\ netQueue' = Append(netQueue, Head(dmaPkts))
  /\ dmaPkts' = Tail(dmaPkts)
  /\ UNCHANGED <<unitVars, respBuffer, hdVars, edmaVars, packetizer, unsent, busy, effected>>

(* A packet leaves, after the wait_cycles of the one before.  A send or an *)
(* RDMA has its effect when all its packets have left.                     *)
ProgressNetqueue ==
  /\ netQueue # <<>>
  /\ LET pkt == Head(netQueue)
     IN  /\ unsent' = [unsent EXCEPT ![pkt.cmd] = @ - 1]
         /\ effected' = effected \cup (IF unsent[pkt.cmd] = 1 THEN {pkt.cmd} ELSE {})
         /\ IF pkt.last THEN Respond("outbound", pkt.cmd) ELSE UNCHANGED respBuffer
  /\ netQueue' = Tail(netQueue)
  /\ UNCHANGED <<unitVars, hdVars, edmaVars, packetizer, dmaPkts, busy>>

-----------------------------------------------------------------------------
Dispatch(k) == DispatchWrite(k) \/ DispatchRead(k) \/ DispatchEdma(k) \/ DispatchOutbound(k)

Next ==
  \/ \E c \in Cmds, k \in Clusters : Issue(c, k)
  \/ \E k \in Clusters : Dispatch(k)
  \/ \E i \in Interfaces : Answer(i)
  \/ HostTakesAw \/ HostTakesW \/ HostTakesAr \/ HostWrites \/ HostReads
  \/ ReadResponse \/ WriteResponse
  \/ \E d \in Dirs : EdmaCompletes(d) \/ EdmaResponse(d)
  \/ ProgressPackets \/ ProgressReadResponses \/ ProgressNetqueue

Spec == Init /\ [][Next]_vars

(* Fairness: every queue moves; the arbiters are round-robin, so that a    *)
(* cluster whose command is accepted again and again gets its turn.  Reads *)
(* go before writes at the host interface, and nothing in it bounds them:  *)
(* ReadsLeaveGaps assumes of the handlers that they do not read the host   *)
(* in every single cycle for ever.  Nothing makes a core issue a command.  *)
ReadsLeaveGaps == []<>(host.r = 0)
Fairness ==
  /\ \A k \in Clusters : SF_vars(Dispatch(k))
  /\ \A i \in Interfaces : WF_vars(Answer(i))
  /\ WF_vars(HostTakesAw) /\ WF_vars(HostTakesW) /\ WF_vars(HostTakesAr)
  /\ WF_vars(HostWrites) /\ WF_vars(HostReads)
  /\ WF_vars(ReadResponse) /\ SF_vars(WriteResponse) /\ ReadsLeaveGaps
  /\ \A d \in Dirs : WF_vars(EdmaCompletes(d)) /\ WF_vars(EdmaResponse(d))
  /\ WF_vars(ProgressPackets) /\ WF_vars(ProgressReadResponses) /\ WF_vars(ProgressNetqueue)
FairSpec == Spec /\ Fairness

-----------------------------------------------------------------------------
TypeOK ==
  /\ spill \in [Clusters -> Seq(Cmds)] /\ \A k \in Clusters : Len(spill[k]) <= 2
  /\ inFlight \in [Interfaces -> 0 .. RespBuffSize]
  /\ respBuffer \in [Interfaces -> Seq(Cmds)]
  /\ hd \in [{"aw", "w", "writeIds", "ar", "readIds"} -> Seq(Cmds)]
  /\ \A q \in {"aw", "w", "ar"} : Len(hd[q]) <= AxDepth
  /\ \A q \in {"writeIds", "readIds"} : Len(hd[q]) <= IdDepth
  /\ host \in [aw : Seq(Cmds), writes : Seq([addr : Cmds, data : Cmds]),
               reads : Seq(Cmds), b : Nat, r : Nat]
  /\ ids \in [Dirs -> Seq(Cmds)] /\ \A d \in Dirs : Len(ids[d]) <= RespFIFODepth
  /\ toPop \in [Dirs -> Nat] /\ dma \in [Dirs -> Seq(Cmds)]
  /\ packetizer \in Seq([cmd : Cmds, left : 1 .. RdmaPackets])
  /\ Len(packetizer) <= NumParallelCmd
  /\ dmaPkts \in Seq([cmd : Cmds, last : BOOLEAN])
  /\ netQueue \in Seq([cmd : Cmds, last : BOOLEAN])
  /\ Len(dmaPkts) + Len(netQueue) <= NetworkBuffer
  /\ unsent \in [Cmds -> 0 .. RdmaPackets]
  /\ busy \subseteq Cmds /\ effected \subseteq busy

Waiting == UNION {Range(spill[k]) : k \in Clusters}
At(i) == {c \in busy \ Waiting : Interface(c) = i}

(* The response FIFOs, which nobody checks before a push, never overflow:  *)
(* what an interface has accepted and not answered, and what waits in its  *)
(* FIFO, is counted by the in-flight FIFO, which stays below the size at   *)
(* which its usage would read as zero (cmd_unit.sv:152-192).               *)
ResponsesFit ==
  \A i \in Interfaces :
    /\ inFlight[i] = Cardinality(At(i)) /\ inFlight[i] < RespBuffSize
    /\ Cardinality(Range(respBuffer[i])) = Len(respBuffer[i])
    /\ Range(respBuffer[i]) \subseteq At(i)

(* The commands are served as CommandService says: whatever the order of   *)
(* the queues, every command takes effect once, is answered once and only  *)
(* then, by the answer to its own request, and is answered at all          *)
(* (cmd_unit.sv, host_direct.sv:233-249, soc_dma_wrap.sv:112-170,          *)
(* NICOutbound.hpp:93-133, 226-309).                                       *)
Service == INSTANCE CommandService WITH
  status <- [c \in Cmds |-> IF c \in effected THEN "done"
                            ELSE IF c \in busy THEN "issued" ELSE "idle"]
ImplementsService == Service!Spec
=============================================================================
