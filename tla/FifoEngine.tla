----------------------------- MODULE FifoEngine -----------------------------
(***************************************************************************)
(* hw/src/pkt_scheduler/fifo_engine.sv: NumFifo linked lists threaded      *)
(* through one array of cells.  Cells 0..NumCells-1 are dynamic (any FIFO  *)
(* takes them), the others are static: NumStatic per FIFO, handed out from *)
(* one common range and accounted per FIFO.                                *)
(*                                                                         *)
(* One step is one clock cycle: every right-hand side reads the registers  *)
(* (_q) and every primed variable is the value latched at the edge (_d).   *)
(***************************************************************************)
EXTENDS Naturals, Sequences, FiniteSets, Functions

CONSTANTS
  NumFifo,    (* NUM_FIFO                                                  *)
  NumCells,   (* NUM_CELLS: dynamic cells                                  *)
  NumStatic,  (* NUM_STATIC_CELLS_PER_FIFO                                 *)
  Elems       (* elem_t                                                    *)

ASSUME FifoParams ==
  NumFifo \in Nat \ {0} /\ NumCells \in Nat \ {0} /\ NumStatic \in Nat \ {0}

VARIABLES
  next, isLast,   (* cells_q: successor and end-of-list flag of each cell  *)
  used,           (* free_cells_q: the cells whose bit is 1                *)
  head, last,     (* fifo_head_q, fifo_last_q                              *)
  empty,          (* fifo_empty_q                                          *)
  staticOccup,    (* fifo_static_occup_q                                   *)
  mem,            (* i_fifo_data: the element stored in each cell          *)
  dout            (* rdata_o of the read port                              *)

vars == <<next, isLast, used, head, last, empty, staticOccup, mem, dout>>

Fifos        == 0 .. NumFifo - 1
TotCells     == NumCells + NumStatic * NumFifo
Cells        == 0 .. TotCells - 1
DynamicCells == 0 .. NumCells - 1
StaticCells  == NumCells .. TotCells - 1

TypeOK ==
  /\ next \in [Cells -> Cells] /\ isLast \in [Cells -> BOOLEAN]
  /\ used \subseteq Cells
  /\ head \in [Fifos -> Cells] /\ last \in [Fifos -> Cells]
  /\ empty \in [Fifos -> BOOLEAN]
  /\ staticOccup \in [Fifos -> 0 .. NumStatic]
  /\ mem \in [Cells -> Elems] /\ dout \in Elems

Init ==
  /\ next = [c \in Cells |-> 0] /\ isLast = [c \in Cells |-> FALSE]
  /\ used = {}
  /\ head = [f \in Fifos |-> 0] /\ last = [f \in Fifos |-> 0]
  /\ empty = [f \in Fifos |-> TRUE]
  /\ staticOccup = [f \in Fifos |-> 0]
  /\ \E e \in Elems : mem = [c \in Cells |-> e] /\ dout = e

-----------------------------------------------------------------------------
(* The lowest free cell of C: lzc over the complemented bitmap, whose      *)
(* count is the highest index when nothing is free.                        *)
FirstFree(C) ==
  IF C \subseteq used THEN CHOOSE c \in C : \A d \in C : d <= c
                      ELSE CHOOSE c \in C \ used : \A d \in C \ used : c <= d

NoFreeDynamic == DynamicCells \subseteq used

Full(f) == NoFreeDynamic /\ staticOccup[f] = NumStatic

PushingToStatic(f) == staticOccup[f] < NumStatic

(* Mutant: the shared cells are taken first.                               *)
PushCellShared(f) == IF NoFreeDynamic THEN FirstFree(StaticCells) ELSE FirstFree(DynamicCells)
PushCell(f) == IF PushingToStatic(f) THEN FirstFree(StaticCells)
                                     ELSE FirstFree(DynamicCells)

PoppingFromStatic(f) == head[f] \in StaticCells

EmptyO == used = {}

(* The free bitmap: the pop is written after the push.                     *)
UsedCells(P, r, pop) ==
  (used \cup {PushCell(f) : f \in P}) \ {head[f] : f \in IF pop THEN {r} ELSE {}}

(* Mutant: every pop counts as one from a static cell.                     *)
StaticCountAnyPop(P, r, pop) ==
  [f \in Fifos |->
     IF f \in P /\ PushingToStatic(f) THEN staticOccup[f] + 1
     ELSE IF pop /\ f = r THEN staticOccup[f] - 1 ELSE staticOccup[f]]

(* Static occupation; a push and a pop of the same FIFO cancel out when    *)
(* both are, or neither is, on static cells.                               *)
StaticCount(P, r, pop) ==
  [f \in Fifos |->
     LET inc == f \in P /\ PushingToStatic(f)
         dec == pop /\ f = r /\ PoppingFromStatic(f)
     IN  IF inc /\ ~ dec THEN staticOccup[f] + 1
         ELSE IF dec /\ ~ inc THEN staticOccup[f] - 1
         ELSE staticOccup[f]]

(* Pushing to and popping from a FIFO that holds one element: the new cell *)
(* becomes the whole list.  Mutant: the case is forgotten.                 *)
SwapNever(P, r, pop) == FALSE
SwapSingle(P, r, pop) == pop /\ r \in P /\ isLast[head[r]]

(* A push links the new cell behind the last one, or starts the list; a    *)
(* pop moves the head to the successor and empties the list at its end.    *)
LinkCells(P, r, pop) ==
  LET linked == {f \in P : ~ empty[f] /\ ~ SwapSingle(P, r, pop)}
      succ(c) == {f \in linked : last[f] = c}
  IN  /\ last' = [f \in Fifos |-> IF f \in P THEN PushCell(f) ELSE last[f]]
      /\ isLast' = [c \in Cells |-> IF succ(c) # {} THEN FALSE
                                    ELSE isLast[c] \/ \E f \in P : c = PushCell(f)]
      /\ next' = [c \in Cells |-> IF \E f \in succ(c) : TRUE
                                  THEN PushCell(CHOOSE f \in succ(c) : TRUE)
                                  ELSE next[c]]
      /\ head' = [f \in Fifos |->
                    IF pop /\ f = r
                    THEN IF SwapSingle(P, r, pop) THEN PushCell(f) ELSE next[head[f]]
                    ELSE IF f \in P /\ empty[f] THEN PushCell(f) ELSE head[f]]
      /\ empty' = [f \in Fifos |->
                     IF pop /\ f = r
                     THEN IF SwapSingle(P, r, pop) THEN empty[f] ELSE isLast[head[f]]
                     ELSE empty[f] /\ f \notin P]

(* One clock cycle: P is {} or the pushed FIFO, e the new element, r the   *)
(* FIFO on the pop port, pop its pop_i.  The memory is read in every cycle *)
(* at the head of r.                                                       *)
FifoCycle(P, e, r, pop) ==
  /\ used' = UsedCells(P, r, pop)
  /\ staticOccup' = StaticCount(P, r, pop)
  /\ LinkCells(P, r, pop)
  /\ mem' = [c \in Cells |-> IF \E f \in P : c = PushCell(f) THEN e ELSE mem[c]]
  /\ dout' = mem[head[r]]

(* The engine is driven as mpq_engine.sv drives it: a push only when the   *)
(* FIFO is not full (her_ready_o), a pop only of a FIFO that holds a       *)
(* packet; "does not work if we are pushing and popping at the same time   *)
(* from a queue of size 0" (line 11) is part of the latter.                *)
Next ==
  \E r \in Fifos, pop \in BOOLEAN, P \in {{}} \cup {{f} : f \in Fifos}, e \in Elems :
     /\ \A f \in P : ~ Full(f)
     /\ pop => ~ empty[r]
     /\ FifoCycle(P, e, r, pop)

Spec == Init /\ [][Next]_vars

-----------------------------------------------------------------------------
(* The cells of FIFO f in list order: the k-th is found by k - 1 steps     *)
(* from the head, and the list goes to the first cell marked last (at most *)
(* TotCells of them).                                                      *)
Walk(f) == LET at[k \in 1 .. TotCells] == IF k = 1 THEN head[f] ELSE next[at[k - 1]]
           IN  at
Places(f) == {k \in 1 .. TotCells : \A j \in 1 .. k - 1 : ~ isLast[Walk(f)[j]]}
Chain(f) == IF empty[f] THEN <<>> ELSE [k \in Places(f) |-> Walk(f)[k]]

ChainCells(f) == Range(Chain(f))

(* No cell is leaked, shared by two FIFOs or visited twice: the used cells *)
(* are exactly those on the lists, each on one list and once; the tail     *)
(* pointer of a FIFO that holds something is the end of its list; and its  *)
(* occupation counter says how many static cells the list really holds,    *)
(* although static cells are taken from one common range.  Double          *)
(* insertions, stale is_last flags and a wrong same-cycle push/pop break   *)
(* it (fifo_engine.sv:134-202).                                            *)
CellsPartitioned ==
  /\ used = UNION {ChainCells(f) : f \in Fifos}
  /\ \A f, g \in Fifos : f # g => ChainCells(f) \cap ChainCells(g) = {}
  /\ \A f \in Fifos : /\ Cardinality(ChainCells(f)) = Len(Chain(f))
                      /\ ~ empty[f] => Chain(f)[Len(Chain(f))] = last[f]
                      /\ staticOccup[f] = Cardinality(ChainCells(f) \cap StaticCells)

(* What FIFO f holds, as the queue of PktQueues it stands for.             *)
Entry(m, c)   == [el |-> m[c], static |-> c \in StaticCells]
Entries(m, s) == [k \in 1 .. Len(s) |-> Entry(m, s[k])]

Queues == INSTANCE PktQueues WITH queue <- [f \in Fifos |-> Entries(mem, Chain(f))]

(* The engine implements the queues of PktQueues: same elements in the     *)
(* same order, same cell classes, same full flags, same data output.  A    *)
(* FIFO that does not report full gets a cell nobody uses, and one below   *)
(* its static share never reports full (fifo_engine.sv:98-202).            *)
ImplementsQueues == Queues!QueueSpec
=============================================================================
