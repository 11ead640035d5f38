----------------------------- MODULE PktQueues -----------------------------
(***************************************************************************)
(* What the MPQ engine expects of its FIFO engine (the ports of            *)
(* hw/src/pkt_scheduler/fifo_engine.sv): NumFifo queues that share a pool  *)
(* of NumCells dynamic cells, each queue also owning NumStatic cells that  *)
(* no other queue can take.  The cells themselves, the linked lists and    *)
(* the free bitmap are hidden: a queue is a sequence of elements, each     *)
(* tagged with the class of the cell it sits in.  FifoEngine refines this  *)
(* module; MpqEngine is built on it.                                       *)
(***************************************************************************)
EXTENDS Naturals, Sequences, FiniteSets

CONSTANTS
  NumFifo,    (* number of queues (NUM_MPQ)                                *)
  NumCells,   (* dynamic cells shared by all queues (NUM_HER_SLOTS)        *)
  NumStatic,  (* static cells of each queue (NUM_MPQ_STATIC_CELLS)         *)
  Elems       (* the packets a cell can hold                               *)

ASSUME QueueParams ==
  /\ NumFifo   \in Nat \ {0}
  /\ NumCells  \in Nat \ {0}
  /\ NumStatic \in Nat \ {0}

VARIABLES
  queue,      (* queue[f]: the elements of FIFO f, oldest first            *)
  dout        (* data_o: the element the memory read in the last cycle     *)

queueVars == <<queue, dout>>

Fifos == 0 .. NumFifo - 1

Cell == [el : Elems, static : BOOLEAN]

QueueTypeOK ==
  /\ queue \in [Fifos -> Seq(Cell)]
  /\ dout \in Elems

(* The static cells FIFO f occupies (fifo_static_occup).                   *)
StaticUsed(f) == Cardinality({k \in DOMAIN queue[f] : queue[f][k].static})

(* The places of the queues that are stored in dynamic cells.              *)
DynamicPlaces ==
  UNION {{<<f, k>> : k \in {j \in DOMAIN queue[f] : ~ queue[f][j].static}} :
            f \in Fifos}

NoFreeDynamic == Cardinality(DynamicPlaces) = NumCells

(* A FIFO is full when both its own cells and the shared ones are used.    *)
Full(f) == NoFreeDynamic /\ StaticUsed(f) = NumStatic

(* A new element takes one of the FIFO's own cells when one is left.       *)
NewCell(f, e) == [el |-> e, static |-> StaticUsed(f) < NumStatic]

QueueInit ==
  /\ queue = [f \in Fifos |-> <<>>]
  /\ dout \in Elems

(***************************************************************************)
(* One clock cycle.  P is the set of FIFOs pushed (at most one), e the new *)
(* element; r is the FIFO addressed by the read port, whose oldest element *)
(* comes out in the next cycle; pop says whether that element is removed.  *)
(* Reading an empty FIFO returns whatever the memory holds.                *)
(***************************************************************************)
QueueCycle(P, e, r, pop) ==
  /\ queue' = [f \in Fifos |->
                 LET rest == IF pop /\ f = r THEN Tail(queue[f]) ELSE queue[f]
                 IN  IF f \in P THEN Append(rest, NewCell(f, e)) ELSE rest]
  /\ dout' \in Elems
  /\ queue[r] # <<>> => dout' = Head(queue[r]).el

(* Pushing needs a FIFO that is not full, popping one that is not empty:   *)
(* the obligations of the engine that drives the ports.                    *)
QueueNext ==
  \E r \in Fifos, pop \in BOOLEAN, P \in {{}} \cup {{f} : f \in Fifos}, e \in Elems :
     /\ \A f \in P : ~ Full(f)
     /\ pop => queue[r] # <<>>
     /\ QueueCycle(P, e, r, pop)

QueueSpec == QueueInit /\ [][QueueNext]_queueVars
=============================================================================
