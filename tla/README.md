# A formal model of PsPIN's packet path

PsPIN is an in-network packet processor: a NIC writes packets into L2 memory and
announces each one with a *handler execution request* (HER); PsPIN copies packets
next to a core (HPU) of one of four clusters, runs the header, payload and
completion handlers of their messages, carries out the commands the handlers
issue to the host and the network, and tells the NIC which packets it may
free. This directory holds TLA+ modules for the control of these paths, TLC
configurations that check them on small instances, and proofs, checked by TLAPS,
of their safety properties and refinements for all values of the constants.

Paths below are relative to the repository; `pkt_scheduler/` stands for
`hw/src/pkt_scheduler/`.

## 1. The system

### Components

| Component | Code | State it keeps | Operations |
|---|---|---|---|
| NIC inbound model | `hw/verilator_model/src/NICInbound.hpp` | queues of packets to store, written, ready; the L2 ring (head, tail, cut, remembered frees); HER ports | store a packet, send a HER, free on feedback, end of stream |
| MPQ engine | `pkt_scheduler/mpq_engine.sv` | per MPQ a state, a length, a count of tasks in flight, EOM and completion flags; output register; arbiter | accept a HER, select an MPQ and emit a task, accept a feedback, all in one cycle |
| FIFO engine | `pkt_scheduler/fifo_engine.sv` | linked lists of cells, free bitmap, static occupation | push, pop, both at once |
| Scheduler | `pkt_scheduler/scheduler.sv` | occupation of each cluster, a parked task, spill registers | dispatch a task, collect a feedback |
| Cluster scheduler | `pkt_scheduler/cluster_scheduler.sv` | FIFO of tasks, count of completed transfers, a pending transfer | accept a task, start its DMA, hand it to an HPU, forward feedback |
| L1 allocator | `pkt_scheduler/cluster_rb.sv`, `cluster_rb_shim.sv` | per ring a bitmap, head and tail | allocate, free in any order, reset when empty |
| HPU driver | `pkt_scheduler/hpu_driver.sv` | task frontend (current task, one buffered feedback); command frontend (ids in use, a blocked command) | start a handler, doorbell, issue / wait / test commands |
| Command unit | `hw/src/cmds/*.sv` | spill registers, in-flight counts, response FIFOs | route commands to three interfaces, return responses |
| Command targets | `hw/src/host_direct.sv`, `hw/src/soc_dma_wrap.sv`, `NICOutbound.hpp` | queues of requests and ids | start a transfer, respond |
| Handler runtime | `sw/runtime` | spin lock, readers/writer lock, the HPU loop | lock, unlock, run handlers |
| Simulation | `hw/verilator_model`, `examples/generic_driver` | traces, AXI drivers, PCIe model | feed packets, drive clocks |
| Wiring | `hw/src/pspin*.sv`, `interconnects/`, `memories/`, `apb/` | vendored AXI components, SRAMs, registers | none of their own |

A message goes NIC inbound -> (HER) -> MPQ engine (packet kept in the FIFO engine)
-> (task) -> scheduler -> (task) -> cluster scheduler (packet copied to the L1
allocator's place) -> HPU; its feedback goes HPU -> cluster scheduler (L1 place
freed) -> scheduler (occupation) -> MPQ engine (message state) -> NIC (L2 place
freed). All interfaces are valid/ready handshakes on one clock. The commands of
handlers (DMA, host access, sending) go HPU driver -> command unit -> target and back.

### What is hard

* **Simultaneous events.** The hardware does several things in one clock cycle: a
  HER, a selection and a feedback on the same MPQ; a push and a pop of the same
  FIFO; a dispatch and a feedback of the same cluster; a DMA completion and a
  hand-out; an allocation and a free. Counters kept beside the state must agree
  in each combination.
* **Pipelining.** The MPQ is selected one cycle before its task is at the output.
* **Out-of-order frees** of two ring allocators (L1 and L2) that only advance over
  contiguous runs, wrap, and skip the rest of the ring when a packet does not fit.
* **Handshakes across components** that look at one signal and ignore another
  (`free_space_o` / `alloc_ready_o`, `her_ready_o` of another message).
* **Answers matched by order.** No command target carries an identifier along: it
  finds the command of an answer by its place in a queue, behind a unit that counts on
  its in-flight limit alone to keep the response FIFOs from overflowing.
* **A core blocked in the middle of an access** (no free id, buffer full, an earlier
  feedback not sent) while the response that frees it arrives in any cycle.
* **Limits**: shared cells, capacities of clusters, spill registers, empty and full
  rings.
* **Liveness** through round-robin arbiters with lock and head-of-line blocking.

`PROJECT.json` lists the hazards one by one, with the line and the properties that
cover each.

### What makes each component correct

* MPQ engine: header before payloads before completion; exactly the handlers the
  message asks for, once; each packet freed exactly once and not before its last
  reader; exact counters; every message ends.
* FIFO engine: implements queues; no cell lost or shared; no FIFO starved of its own
  cells.
* Scheduler: exact occupations, no overrun, least loaded choice, no needless blocking.
* Cluster: no handler before its data; the buffer belongs to the tasks inside; every
  task is fed back. L1 allocator: packets disjoint, bitmap exact, space recovered.
* NIC inbound: packets disjoint in L2, nothing leaks, every packet processed.
* HPU driver: a task is fed back once, after the commands and transfers of its own
  handler; no command id is used twice; a wait ends when the command has ended; no
  blocked access is forgotten.
* Command unit and targets: no response lost; each command takes effect once and is
  answered once, after its effect, by its own answer.
* Locks: readers and writers exclude each other.

## 2. Modules

One TLA+ step is one clock cycle of the modelled unit unless said otherwise: the
right-hand sides read the registers (`_q`), the primed variables are what the edge
latches (`_d`). Sets of at most one element stand for the valid bit of an interface
and its data at once: `H`, `S`, `F` in `MpqEngine!Cycle` are "the HER, selection,
feedback of this cycle, if any".

| Module | Models | Built on |
|---|---|---|
| `PktQueues` | what the MPQ engine relies on: queues with own and shared cells, and a read port that answers one cycle later | |
| `FifoEngine` | `fifo_engine.sv`: cells, bitmaps, links | refines `PktQueues` (`ImplementsQueues`) |
| `MpqEngine` | `mpq_engine.sv` | extends `PktQueues`; NIC and scheduler are the environment |
| `Scheduler` | `scheduler.sv` | clusters as an environment that takes and returns |
| `ClusterRB` | `cluster_rb.sv`, `cluster_rb_shim.sv` | |
| `ClusterScheduler` | `cluster_scheduler.sv` | extends `ClusterRB`; DMA engine and HPUs are the environment |
| `NicInbound` | `NICInbound.hpp` and the clock step of `SimControl.hpp` | instance of `PktQueues` for PsPIN's side of the HER handshake |
| `HpuDriver` | `hpu_driver.sv`, with the loop of `hpu.c` as the core | DMA frontend, command unit and arbiter are the environment |
| `CommandService` | what a handler relies on when it issues a command | |
| `Commands` | `cmd_unit.sv`, `cluster_cmd.sv`, `host_direct.sv`, `soc_dma_wrap.sv`, `NICOutbound.hpp`, and the queues of `PCIeSlave.hpp` and `AXISlave.hpp` | refines `CommandService` (`ImplementsService`) |
| `RwLock` | the readers/writer lock of `sw/runtime` | |
| `FifoEngineProofs`, `MpqEngineProofs`, `SchedulerProofs`, `ClusterRBProofs`, `ClusterSchedulerProofs`, `NicInboundProofs`, `HpuDriverProofs`, `CommandsProofs` | theorems and proofs (section 5) | each extends the module it is named after; `ClusterSchedulerProofs` extends `ClusterRBProofs` too |

**PktQueues / FifoEngine.** `push_i`, `pop_i` with their ids are the parameters
`P`, `r`, `pop` of `FifoCycle`; `cells_q` is `next` and `isLast`, `free_cells_q` the
set `used` (a bit of 1 is a used cell, against its name). The refinement mapping
reads each list from its head: `Walk(f)` follows the links, for as many steps as there
are cells, and `Chain(f)` is its part up to the first cell marked last. `PktQueues` says
in which class of cell an element sits, because `full` depends on it: a FIFO is full only when the shared cells and its
own are all taken, whatever the number of its elements.

**MpqEngine.** `Fsm` is `mpq_fsm`; because the code feeds the three copies of the
FSM the same inputs when they work on the same MPQ, one copy per MPQ is enough
(lines 298-305 say so, and the model evaluates it with all three events).
`Registers` and `Memories` are the clocked part; `lock` is the state of
`rr_arb_tree` with `LockIn`, whose round-robin pointer is left open (any candidate).
`Outside` keeps what the properties talk about: the tasks between output and
feedback, those that ended, the message the NIC is sending and the packets it has
not got back. Handler addresses are reduced to "null or not"; a packet is its number
in the message; addresses, sizes and scratchpads are data that the engine only copies.

**Scheduler.** Of a task only the home cluster matters, and only in the cycle it is
scheduled. `ClusterTakes` and `ClusterFeeds` are the clusters' ends of the spill
registers; they are steps of their own, as a cluster may do either in any cycle.

**ClusterRB.** Sizes and positions are in slots. `live` is the ghost variable: which
packets own which slots. `DataFits` follows line 171 as the hardware evaluates it:
an unsigned `tail - head` with `head > tail` is always large enough, so only the check
of the reported space protects the packets. `Handshake` chooses between a requester
that waits for `alloc_ready_o` and the actual one.

**ClusterScheduler.** `CsCycle` makes the allocator's cycle, the acceptance, the DMA
port, the hand-out and the feedback in one step. The DMA engine answers in the order
of issue (`pulp_cluster_frontend.sv` matches completions through a FIFO); an HPU
runs one task and buffers one feedback (`hpu_driver.sv:264-306`).

**NicInbound.** A step is `SimControl::run_single`: PsPIN's clock edge with the inputs
driven before, then the NIC's `posedge`, in the order of the code. Wait cycles
between packets are any number. PsPIN is reduced to its packet FIFOs and the packets
being processed, which end in any order.

**HpuDriver.** One cycle of both frontends. The core is in one place at a time: reading
the handler's address, in the handler, blocked in an access (`"issue"`, `"wait"`,
`"test"`), or at the doorbell; the loop of `hpu_run` and the trap handler both end at
the doorbell. `usedIds` is `free_cmd_ids_q`, whose bits of 1 are taken ids, against its
name. `ticket` is what the handler knows of its last command next to what is true
of it, and `issuer` and `open` say whose each command and feedback is. The parameter
`DmaWhileLocked` says whether a handler may start a transfer in a cycle in which the
arbiter holds the feedback of the task before; the hardware does not prevent it.

**Commands.** Here a step is one queue operation, because the units talk through FIFOs
only and every one of them moves on its own; what happens in one clock cycle is any
order of such steps. A command is a model value that its answer carries back, so that a
mix-up would show. `HostWrites` gives a write its effect only when its own data reached
its own address. `HasSpace` computes the usage of the in-flight FIFO as the hardware
does, modulo its size. The DMA engine of `soc_dma_wrap` is vendored: transfers of one
direction complete in their order. The sets of commands by kind (`Writes`, `Reads`,
`ToHost`, `FromHost`, `Sends`, `Rdmas`) are assumed disjoint: a command is of one kind.
The refinement reads a command as done when it is in `effected`, else as issued when
it is in `busy`: an effect after the answer would be a step from idle to done, which the
service forbids; a second effect between the first and the answer would not show.

**RwLock.** One step per atomic operation: the `amo_add` on `num_readers` and the test
of its result (a local variable), the `amo_or` that finds the futex free, the store that
frees it.

## 3. What the runs check

Every property is an invariant, an action property or a temporal formula in its
module, with a comment that names the code. `PROJECT.json` gives for each property at
least one mutant of a definition (written in the modules next to the original) that violates it.

| Run | Instance | Shows |
|---|---|---|
| `fifo` | 2 FIFOs, 1 shared and 1 own cell each, 2 elements | lists partition the used cells, static occupations exact, refinement of `PktQueues` (order, content, data output, and that not full means a free cell) |
| `mpq` | 2 MPQs, messages of 1 or 2 packets, 1 shared cell, with and without header / completion handlers | counters, handler order, exact give-back, all handlers once, legal use of the queues, every message ends |
| `mpq_reuse` | as `mpq`, the NIC starts a message on a busy MPQ | *violation* of the assertion at `mpq_engine.sv:424` |
| `rb` | 2 rings of 4 slots, sizes 1-3, handshake respected | disjoint packets, exact bitmaps, reported space free, space recovered |
| `rb_grant` | 1 ring of 8 slots, size 3 | *violation*: space reported, request refused |
| `cluster` | 2 HPUs, FIFO of 2, 3 tasks of size 0 or 2, a ring of 4 | data before handler, completion counter exact, buffers owned, every task fed back |
| `scheduler` | 4 clusters of capacity 2, spill registers of 1 | exact occupation, no overrun, least loaded, blocking only when all are busy, ready again |
| `nic` | 5 packets of size 1 or 2, a ring of 4, 2 messages, 1 shared cell | packets disjoint in L2, space accounted, every stored packet given back, the trace ends |
| `hpu` | 2 tasks, 2 command ids, a command buffer of 1, 4 operations per handler | ids exact, feedback once and last, waits mean done, every task fed back |
| `hpu_twice` | same, transfers also while the arbiter is locked | *violation*: a feedback is withdrawn from the arbiter, and sent twice |
| `commands` | 8 commands of 2 clusters, 4 unanswered at a time, response FIFOs of 4 | response FIFOs never overflow, refinement of `CommandService` |
| `rw_lock` | 3 cores | *violation*: a reader next to a writer |

**Bounds.** Two FIFOs compete for one shared cell: the smallest instance in which
one can be full because of the other, and with one own cell each holds up to two
packets, so that the single-element, two-element and empty cases of simultaneous push
and pop all occur. Messages of one and two packets reach every transition of the MPQ
machine, with the EOM in the first packet, in the last, and late; messages of any length are
covered by the theorems of section 5. Rings
of four slots with sizes up to three or two wrap, skip the end, fill up exactly and
free out of order. `argmin4` is built for four clusters, so the scheduler has four;
capacity two and one-entry spill registers (the code has 20 and two) let a cluster be
unready below capacity and at capacity. In `hpu`, two ids and four operations are the
least with which a command waits for an id while another is in flight, a wait meets an id
that has been reused, and a handler issues while the feedback of the one before is held
back; the buffer of one entry (the module's default; `pspin` gives it as many as there
are ids) also makes a command wait for its place. The safety properties also hold with
three tasks, three ids and five operations (643,466 states), and all properties with
three tasks, two ids and five operations (163,427 states), which takes longer than a
regular run should. In `commands` four commands are unanswered at a time, one more than
the in-flight limit of a response FIFO of four, so that the limit bites; the FIFOs of
`host_direct` have one and two entries and fill up, and every kind of command occurs, a
send of one packet and an RDMA of two among them. The theorems of section 5 lift the bounds
of every run that passes, for its safety properties.

In `cluster` the packet sizes divide the ring. Then an exact fit in front of the head
with too little room behind the tail does not occur, and the defect that `rb_grant`
shows stays out of the way of the cluster's own properties; with sizes that do not
divide the ring, `BuffersOwned` fails for the reason the finding gives. The theorems say
how far this goes: they hold for all packets of one size that divides the ring, and for
every size when the handshake is respected (`UsedSafely`). In `nic` the
sizes are at most half the ring (in the program: at most 2 KiB of 4 MiB), because an
empty ring whose head is in the middle has only its larger part to offer.
Liveness in `nic` (`AllProcessed`) has two parts. Every packet stored is given back,
unless its own HER is lost (`StoredGivenBack`); the condition is per packet, so a lost HER
or a ring cut at its head must do no harm to the others. And the trace ends
(`TraceDone`), unless a HER is lost or the ring is cut at its head. Only the causes
are excluded, the two cases of section 6: a HER that meets a full MPQ counts as lost at a
change of messages only (`RefusedAtSwitch`), and the cut is the state in which the packet
about to arrive would make it (`AboutToCutAtHead`). The property has two mutants, one for a
stale `her_ready_i`, one for the reclaim of remembered frees.

**Deadlock** is checked in every run; a hardware unit can always have an idle cycle,
and in `Commands`, where idle cycles are not steps, something can always move.

## 4. Fairness

Fairness is stated on what a cycle achieves. Where the condition under which it
can be achieved is a state predicate, the formulas use that predicate in place of
`ENABLED`.

* `MpqEngine`: the scheduler eventually takes the task it is shown (it does as long
  as clusters finish, see `ReadyAgain`); some handler of an MPQ with tasks in flight
  eventually ends; `rr_arb_tree` passes over no MPQ that is a candidate again and again
  (round robin, strong fairness); the NIC continues a message it has begun whenever
  its MPQ has room infinitely often (the driver queues whole messages).
* `FifoEngine`: none needed. `ClusterRB`: idle cycles keep happening (a clock).
* `ClusterScheduler`: the clock ticks, the DMA engine takes and answers transfers,
  handlers end, and every buffered feedback is eventually taken (round robin).
* `Scheduler`: the clock ticks, clusters take tasks and return feedback, the feedback
  arbiter serves every cluster (round robin with lock, and the MPQ engine is ready as the
  NIC is: `NICInbound.hpp:116` ties it to one).
* `NicInbound`: memory answers writes, a packet with room becomes due, PsPIN empties
  its queues and ends its handlers.
* `HpuDriver`: the clock ticks, handlers end, the command unit takes and answers
  commands (`Commands` shows that it does), transfers end, and the arbiter, which is
  round-robin, takes a feedback that stays on offer.
* `Commands`: every queue moves; round-robin arbiters give every cluster its turn. One
  assumption, `ReadsLeaveGaps`, is about the handlers and not about the code: at
  `host_direct.sv:239` read responses go before write responses and nothing limits them,
  so the answer of a write waits as long as a read response arrives in every cycle.
  Without the assumption TLC finds that write unanswered.

What fairness does not include: handlers that never return (there is no watchdog in
the code), and hosts or memories that do not answer.

## 5. What is proved

Every safety property and action property that a passing run checks is a theorem, and so
are the two refinements (the second one without its fairness). The proofs take nothing
but the assumptions on the constants that the modules declare and, where stated, one
hypothesis more: `Reuse = FALSE`, `UsedSafely` and `~ DmaWhileLocked`, which exclude the
uses of the units that the counterexamples of `mpq_reuse`, `rb_grant` and `hpu_twice`
are made of. In every module the theorem named `...Invariance` is the inductive
invariant; the others follow from it.

### The life of a message

`MpqEngineProofs` (assuming `QueueParams`, `MpqParams` and, for the theorems, `Reuse =
FALSE`: the NIC starts a message on an MPQ only after it got back the previous one;
`mpq_reuse` shows that without it the claims are false): `TypeCorrect`, `Counters`,
`Order`, `Handled`, `GivenBack`, `Once`, `Locked`, `Drives`, i.e. every safety property
of run `mpq`, for any number of MPQs, cells, own cells and packets per message.

None of these properties is inductive. `HandlerOrder` alone does not know why an MPQ in
`Completion` has all payload handlers behind it; the reason is a relation between state,
length, message and tasks. `IInv` makes it explicit:

* `StartedOK`: the set of tasks started for the current message is a *function* of
  the MPQ's state, its length and the message: the header task unless the MPQ is still
  in `Header`, the payload tasks of the first `pkts - length` packets, the completion
  task from `CompletionRunning` on. Each is given with its packet and its
  `trigger_feedback`.
* `OutstandingOK`: which of them have not ended, with `in_flight` their number.
* `MessageOK`: how `length`, `eom_seen`, `has_completion` and the meta memory follow the
  message; `QueueOK`: the queue holds the last packets in order, the retained packet of
  a pending completion included; `HeldOK`: what the NIC has not got back.
* `OutputOK` and `LockedStaysValid`: the output register and the arbiter.

The proof first reduces a clock cycle to what it does to *one* MPQ (`MpqStep`, lemma
`CycleStep`): the pipeline registers, the stall and the selection are dealt with there
(`OutputStep`, `OutstandingStep`). Each conjunct is then preserved by that step
(`StepStarted`, `StepOutstanding`, `StepMessage`, `StepQueue`, `StepHeld`, `StepTypes`).
The properties follow from `IInv` without further induction; `EachTaskOnce` and
`DrivesQueues` are action properties of the same step.

`FifoEngineProofs` (assuming `FifoParams`): `TypeCorrect`, `CellsArePartitioned`,
`EngineImplementsQueues`, for any number of FIFOs, shared and own cells. The third is
the whole property `ImplementsQueues`: order, content, class of cell, `full` and data
output of the linked lists are those of `PktQueues`. The invariant adds to
`CellsPartitioned` that every chain is a list without repetition (`IsList`): it starts
at the head pointer, ends at the tail pointer and at the only cell marked last, and
follows the links. `full` is computed from counters, and the cell of a push from the
bitmap; that a FIFO which is not full finds a free cell of the right class is an
argument on cardinalities over all chains. The walk along the links is a recursive
function; that such a function exists is shown by the least number of steps for which it
would not (the library's induction theorems cannot be used here).

`SchedulerProofs` (assuming `SchedulerParams`): `TypeCorrect`, `Occupancy`, `NoOverrun`,
`LeastLoaded`, `BlocksOnlyWhenAllBusy`, for any capacity, spill depth and set of homes.
The invariant adds `Reserved` (occupation, and the parked task's room, within capacity)
and `LockHolds` (the feedback arbiter is locked only on a cluster with feedback).

### Packet memory: L1 and L2

`ClusterRBProofs` (assuming `RBParams`): `TypeCorrect`, however the allocator is used.
Under `UsedSafely`, `PacketsAreDisjoint`, `BitmapsAreExact`, `SpaceIsThere`; under its
second disjunct, `SpaceIsGranted`. `UsedSafely` says that the requester waits for
`alloc_ready_o` (`Handshake`) *or* that all packets have one size that divides the ring
(`Uniform`). Neither can be dropped: `rb_grant` is a counterexample with a size of 3 in
a ring of 8. The invariant relates bitmap and pointers: a used slot lies between head
and tail (`Between`), or the two are equal and say nothing. In the uniform case head,
tail and bitmap stay aligned to the packet size (`Aligned`), so the exact fit in front
of the head with too little room behind the tail, which the code refuses, never comes
up: the defect needs packets of several sizes, or of one that does not divide the ring.

`ClusterSchedulerProofs` (assuming `ClusterParams`, `RBParams`): `CsTypeCorrect`,
`ToPopIsExact`, `DataComesFirst`, for any number of HPUs, any depth and any allocator;
`BuffersAreOwned` under `UsedSafely` and `ClusterSpaceIsGranted` under `Uniform`. The
core of the first group is `Track`: there is an increasing list of the places in the
task FIFO whose tasks have a packet, of which the first `to_pop` have arrived, the next
are with the DMA engine in this order, and the one waiting for the DMA is the last. It
is what makes a mere *counter* of completions say whose data is there.

`NicInboundProofs` (assuming `NicParams`): `TypeCorrect`, `PacketsAreDisjoint`,
`SpaceIsAccounted`, for any buffer, packets, MPQs and any order of feedbacks. The
invariant (`Accounted`, `RingOK`) looks at the buffer as tiles, one per packet stored
and one per packet freed and not yet passed by the head. The pointers go around exactly
the tiles; tiles do not overlap; after a cut, 0 < tail <= head <= cut, and no tile lies
across head or tail. The last part is what sends the head back to 0 in the right moment:
the tile at the head cannot reach past the cut. `in_flight_packets` counts the tiles, so
an empty ring (head = tail) is told from a full one. That a packet is freed once
(`NicOnce`, `PsPINOnce`) follows it through the queues, the HER ports, the FIFO of its
MPQ and the running handlers. The loop of `free_pkt_space` is a recursive function, each
turn of which preserves the accounting.

### The core's side

`HpuDriverProofs` (assuming `HpuParams`, `NoTaskIsNone`): `TypeCorrect`, `IdsAreExact`,
`WaitsAreDone` for any number of ids from two on, any tasks and operations and any place
in the command buffer, whenever handlers start transfers; `FeedbackIsLast` and
`LockedRequestIsKept` under `~ DmaWhileLocked`. `hpu_twice` refutes the last one without
this hypothesis. The invariant says in which states of the command frontend the core can
be blocked in an access (`CoreFollows`), that every taken id is in exactly one place
(`IdsApart`: the command buffer, beyond it, or held by a blocked command), and what the
handle of the last command is worth (`TicketExact`). For the task frontend it adds
`LockHolds`: the arbiter is locked on a feedback whose conditions still hold.

`CommandsProofs` (assuming `CommandParams`): `TypeCorrect`, `ResponsesAlwaysFit`,
`ServesCommands`, for any clusters, commands, depths of the queues and number of packets
of an RDMA. Nothing looks at `full_o` of a response FIFO; it never overflows because
`inFlight` is the number of commands on the interface, answers included, and below the
depth, which the invariant (`UnitExact`) can only say if no command is twice in any
queue. No command target carries an identifier along, so for each of them the invariant
aligns its id FIFO with the queues behind it: `WritesExact` (addresses and data in one
order, in four queues), `ReadsExact`, `TransfersExact` for both directions of the DMA,
and `PacketsExact` (packets of a command fetched, queued and to come; the last is behind
the others). `ServesCommands` is then that every step of the units issues, effects or
answers one command or none, i.e. `ImplementsService` without its fairness.

### Only model-checked

Liveness is out of TLAPS's reach: `AllGivenBack`, `SpaceRecovered`, both `AllFedBack`,
`ReadyAgain`, `AllProcessed` and the fairness of `ImplementsService` stay with TLC, on
the instances of section 3. So do the violations of section 6, `rw_lock` among them.
Whether the environments assumed by two modules fit each other is argued in this text
only (section 8).

## 6. Findings

Four runs end in a counterexample; `PROJECT.json` quotes the lines.

1. `mpq_reuse`: an MPQ reused before its message ended goes `Free` with a packet
   queued; the packet is never processed. Message numbers of the generic driver grow
   past the 256 MPQs.
2. `rb_grant`: an exact fit in front of the head is reported as free and refused
   (`<` at `cluster_rb.sv:164`, with a FIXME), and the cluster does not look at the
   refusal.
3. `hpu_twice`: a handler that starts a transfer while the cluster's arbiter is locked on
   the feedback of the task before withdraws that feedback's request
   (`hpu_driver.sv:306`). The arbiter forwards it all the same, nothing pops it, and it
   is sent again: the L1 place and the L2 packet are freed twice, the counters of the
   scheduler and of the MPQ decremented twice. `FedBackLast` fails under the same
   parameter.
4. `rw_lock`: the second reader does not wait for the first one to get the lock.

Observations that no run is kept for:

* The comment at `scheduler.sv:144`, that a task goes to its home cluster anyway when all
  are at capacity, does not describe the code: it waits (`WaitsOnlyWhenAllBusy`), and
  the `no_cluster_avail` term of line 148 is dead.
* An empty L2 ring whose pointers are behind the start and whose next packet does not fit
  in the rest is cut at its own head (`NICInbound.hpp:260`): the head is reset only when a
  free moves it *onto* the cut, so the ring fills up and refuses packets for ever.
* `her_ready_i` is sampled for the message of the HER driven before
  (`NICInbound.hpp:391`): the next HER, of another message, can meet a full MPQ and is
  dropped. `AllProcessed` excludes these two cases by name, and no other refusal or cut.
* The handle of a command that had to wait for an id or for the feedback of the task
  before is an older one (`hpu_driver.sv:848` sets it in `Ready` only): a wait for it can
  return at once. `WaitMeansDone` covers every wait whose handle is that of its command,
  which it is by chance only for a delayed one and always for the others.
* `spin_cmd_test` writes the handle and then reads the answer, but the hardware takes the
  id to test from the data lines of the read, so the answer is about any id.
* With a single command id a command blocked in `WaitingID` would miss the response that
  arrives in the cycle it blocks and wait for ever; with two or more another is in flight.
* A NIC command of length zero has its only packet marked as last and its fetch of no
  data never completes. A host write of no bytes runs into the assertion at
  `PCIeSlave.hpp:149`.
* `slp_l1.c:107` sets `num_readers` to 32, with which readers never take the lock.
* A ring of `cluster_rb` that is exactly full does not move its head until all its packets
  are freed (`head_ptr_incr_max` is 0 when head and tail are equal), which costs space but
  not correctness; and `ih.wait_cycles = ... ih.wait_cycles--` at `NICInbound.hpp:362`
  leaves the value as it is.

## 7. Not modelled

Vendored code (`hw/deps`, the SDK), AXI and APB plumbing, interconnects and memories
(wiring and data, no control of their own), the beats of the simulated AXI and PCIe links,
configuration and statistics, start-up code, the example handlers, plots and waveforms. By
lines the largest part of the repository is the PULP SDK under `sw/pulp-sdk`: register
maps of other chips and their access macros, which define no state of this system. What
remains is a few thousand lines of SystemVerilog and C++ whose control the modules
above cover; what they leave out of those files is declarations, parameters, data paths
and statistics.

Data left out of modelled units: of the HPU driver the task fields the core reads, the
memory protection registers and the words of a command; of NIC outbound the bytes and
lengths of packets; of the PCIe model its latencies, which become any number of steps.
Widths of the counters are not an issue in the modelled units: `length` and `in_flight`
have eight bits and are bounded by the cells and the clusters' capacities. The pointers
of `cluster_rb` wrap, and are modelled so, as is the usage counter of the command unit's
FIFOs.

There is nothing to model about crashes, restarts, lost messages or retries: the hardware has
no persistent state, on-chip handshakes do not lose data, and no unit has a time-out.

## 8. Plan

Done, in this order: the life of a message (`PktQueues`, `FifoEngine`, `MpqEngine`), the
resources it passes (`Scheduler`, `ClusterRB`, `ClusterScheduler`), the NIC that feeds
it (`NicInbound`), the proofs for `MpqEngine` and `Scheduler`; then the core's side
(`HpuDriver`), the commands (`CommandService`, `Commands`) and the lock (`RwLock`).
The proofs came in this order: `MpqEngine` and `Scheduler`, `HpuDriver`, `Commands`,
`ClusterRB`, `ClusterScheduler`, `FifoEngine`, `NicInbound`. What is left:

1. A composition `MessagePath` of `MpqEngine`, `Scheduler` and the cluster under an abstract
   specification of a message's life, as a refinement; today the modules meet only where an
   environment of one is a property of another (legal use of the queues, the order of
   completions, exact occupations).
2. `RwLock`: writers exclude each other, which the defect of the readers does not touch.
3. In `ClusterRBProofs`, a weaker condition on the sizes than `Uniform`, if there is one:
   packets of several sizes are covered only with the handshake.

## 9. Running

    tlc -config Mpq.cfg MpqEngine.tla        # any run of PROJECT.json
    tlapm MpqEngineProofs.tla                # any of the proof modules: a few minutes each
