--------------------------- MODULE MpqEngineProofs ---------------------------
(***************************************************************************)
(* The safety properties of MpqEngine for any number of MPQs, cells and    *)
(* packets, when the NIC does not reuse an MPQ early.                      *)
(***************************************************************************)
EXTENDS MpqEngine, FiniteSetTheorems, TLAPS

(***************************************************************************)
(* The inductive invariant.  It says which tasks of the current message of *)
(* an MPQ have been started: they are determined by the state of the MPQ,  *)
(* its length and its message.                                             *)
(***************************************************************************)
HeaderTask == [kind |-> "Header", fun |-> TRUE, pkt |-> 1, trigger |-> FALSE]

(* The last packet of a message with a completion handler is freed by the  *)
(* completion, every other one by its payload handler.                     *)
PayloadTask(i, p) ==
  [kind |-> "Payload", fun |-> TRUE, pkt |-> p,
   trigger |-> ~ (p = msg[i].pkts /\ ~ msg[i].open /\ msg[i].meta.th)]

CompletionTask(i) ==
  [kind |-> "Completion", fun |-> TRUE, pkt |-> msg[i].pkts, trigger |-> TRUE]

HeaderPart(i) ==
  IF msg[i].pkts > 0 /\ msg[i].meta.hh /\ mpq[i].state # "Header" THEN {HeaderTask} ELSE {}
PayloadPart(i) == {PayloadTask(i, p) : p \in 1 .. (msg[i].pkts - mpq[i].length)}
CompletionPart(i) ==
  IF msg[i].pkts > 0 /\ msg[i].meta.th /\ mpq[i].state \in {"Free", "CompletionRunning"}
  THEN {CompletionTask(i)} ELSE {}

StartedOK(i) == Started(i) = HeaderPart(i) \cup PayloadPart(i) \cup CompletionPart(i)

(* Which of them have not ended.                                           *)
OutstandingOK(i) ==
  /\ IsFiniteSet(Outstanding(i)) /\ mpq[i].in_flight = Cardinality(Outstanding(i))
  /\ Outstanding(i) \cap done[i] = {}
  /\ mpq[i].state \in {"Free", "Header", "Completion"} => Outstanding(i) = {}
  /\ mpq[i].state = "HeaderRunning" => Outstanding(i) = {HeaderTask}
  /\ mpq[i].state = "CompletionRunning" => Outstanding(i) = {CompletionTask(i)}
  /\ mpq[i].state \in {"Payload", "PayloadDraining"} =>
        \A t \in Outstanding(i) : t.kind = "Payload"
  /\ mpq[i].state = "PayloadDraining" => Outstanding(i) # {}

(* The registers of the MPQ and the message on it.                         *)
MessageOK(i) ==
  /\ mpq[i].length <= msg[i].pkts
  /\ msg[i].open => msg[i].pkts \in 1 .. MaxPkts - 1
  /\ mpq[i].state = "Free" => ~ msg[i].open /\ mpq[i].length = 0 /\ ~ mpq[i].eom_seen
  /\ mpq[i].state # "Free" =>
       /\ msg[i].pkts >= 1 /\ meta[i] = msg[i].meta
       /\ mpq[i].has_completion = msg[i].meta.th
       /\ mpq[i].eom_seen = ~ msg[i].open
  /\ mpq[i].state \in {"Header", "HeaderRunning"} =>
       msg[i].meta.hh /\ mpq[i].length = msg[i].pkts
  /\ mpq[i].state \in {"PayloadDraining", "Completion", "CompletionRunning"} =>
       mpq[i].length = 0 /\ ~ msg[i].open
  /\ mpq[i].state \in {"Completion", "CompletionRunning"} => msg[i].meta.th
  /\ mpq[i].state = "Payload" /\ ~ msg[i].open => mpq[i].length >= 1

(* The queue holds the packets not yet popped, in order.                   *)
QueueOK(i) ==
  /\ Len(queue[i]) = mpq[i].length + (IF Retained(i) THEN 1 ELSE 0)
  /\ \A k \in 1 .. Len(queue[i]) : queue[i][k].el = msg[i].pkts - Len(queue[i]) + k

HeldOK(i) == held[i] = (1 .. msg[i].pkts) \ Pkts({t \in done[i] : t.trigger})

(* The task at the output has not left yet.                                *)
OutputOK == TaskValid => TaskO \notin flying[selected]

MpqInv(i) == StartedOK(i) /\ OutstandingOK(i) /\ MessageOK(i) /\ QueueOK(i) /\ HeldOK(i)

IInv == TypeOK /\ OutputOK /\ LockedStaysValid /\ \A i \in MPQ : MpqInv(i)

-----------------------------------------------------------------------------
(***************************************************************************)
(* What a cycle does to one MPQ: her, sent and landed say whether it gets  *)
(* the HER h, is selected for a task, and which of its tasks (at most one) *)
(* has its feedback accepted.                                              *)
(***************************************************************************)
SentTask(i, n) ==
  [kind |-> mpq[i].state, fun |-> Fun(mpq[i].state, meta[i]), pkt |-> Head(queue[i]).el,
   trigger |-> FifoPop(mpq[i], n)]

MpqStep(i, h, her, sent, landed) ==
  /\ h \in Hers /\ her \in BOOLEAN /\ sent \in BOOLEAN
  /\ landed = {} \/ \E t \in flying[i] : landed = {t}
  /\ her => h.mpq = i /\ MayDeliver(h) /\ ~ Full(i)
  /\ sent => Valid(i)
  /\ mpq'[i] = Fsm(mpq[i], her, sent, landed # {}, h.meta, h.eom)
  /\ meta'[i] = IF her /\ ~ Busy(i) THEN h.meta ELSE meta[i]
  /\ msg'[i] = IF her THEN NewMsg(h) ELSE msg[i]
  /\ held'[i] = (held[i] \ Pkts({t \in landed : t.trigger}))
                  \cup (IF her THEN {NewMsg(h).pkts} ELSE {})
  /\ done'[i] = (IF her /\ ~ msg[i].open THEN {} ELSE done[i]) \cup landed
  /\ Outstanding(i)' = (Outstanding(i) \ landed)
                         \cup (IF sent THEN {SentTask(i, mpq'[i])} ELSE {})
  /\ \E c \in Cell :
       /\ her => c.el = NewMsg(h).pkts
       /\ queue'[i] = LET rest == IF sent /\ FifoPop(mpq[i], mpq'[i])
                                  THEN Tail(queue[i]) ELSE queue[i]
                      IN  IF her THEN Append(rest, c) ELSE rest

(* The selection of a cycle.                                               *)
Sel(taskReady, ptr) == IF Accepting(taskReady) /\ Candidates # {} THEN {ptr} ELSE {}

(* The types of what belongs to one MPQ.                                   *)
LEMMA TypesAt ==
  ASSUME TypeOK, NEW i \in MPQ
  PROVE  /\ queue[i] \in Seq(Cell) /\ mpq[i] \in MpqType /\ meta[i] \in Metas
         /\ msg[i] \in [open : BOOLEAN, pkts : 0 .. MaxPkts, meta : Metas]
         /\ held[i] \subseteq Elems /\ flying[i] \subseteq Tasks /\ done[i] \subseteq Tasks
BY DEF TypeOK, QueueTypeOK, MPQ

(* A valid MPQ has a packet queued.                                        *)
LEMMA ValidQueued ==
  ASSUME IInv, NEW i \in MPQ, Valid(i)
  PROVE  queue[i] # <<>> /\ Len(queue[i]) >= 1 /\ Head(queue[i]) \in Cell
         /\ Head(queue[i]).el \in Elems
<1>1. MpqInv(i) /\ queue[i] \in Seq(Cell) /\ mpq[i] \in MpqType
         /\ msg[i] \in [open : BOOLEAN, pkts : 0 .. MaxPkts, meta : Metas]
  BY TypesAt DEF IInv
<1>2. mpq[i].length \in Nat /\ msg[i].pkts \in Nat /\ mpq[i].has_completion \in BOOLEAN
  BY <1>1, MpqParams DEF MpqType
<1>3. Len(queue[i]) >= 1
  <2>1. CASE mpq[i].state = "Payload"
    BY <1>1, <1>2, <2>1 DEF MpqInv, QueueOK, Valid, Retained
  <2>2. CASE mpq[i].state = "Header"
    BY <1>1, <1>2, <2>2 DEF MpqInv, MessageOK, QueueOK, Valid, Retained
  <2>3. CASE mpq[i].state = "Completion"
    <3>1. mpq[i].length = 0 /\ mpq[i].has_completion
      BY <1>1, <2>3 DEF MpqInv, MessageOK
    <3> QED
      BY <1>1, <2>3, <3>1 DEF MpqInv, QueueOK, Retained
  <2> QED
    BY <2>1, <2>2, <2>3 DEF Valid
<1>4. queue[i] # <<>> /\ Head(queue[i]) \in Cell
  BY <1>1, <1>3
<1> QED
  BY <1>3, <1>4 DEF Cell

(* The arbiter points to a valid MPQ when there is one.                    *)
LEMMA SelValid ==
  ASSUME IInv, NEW ptr \in MPQ, NEW taskReady \in BOOLEAN,
         Candidates # {} => ptr \in Candidates, NEW i \in Sel(taskReady, ptr)
  PROVE  i = ptr /\ Valid(i)
BY DEF IInv, Sel, Candidates, LockedStaysValid

(* The packet of a HER is one of 1..MaxPkts.                               *)
LEMMA NewPktType ==
  ASSUME IInv, NEW h \in Hers, MayDeliver(h)
  PROVE  /\ NewMsg(h) \in [open : BOOLEAN, pkts : 0 .. MaxPkts, meta : Metas]
         /\ NewMsg(h).pkts \in Elems
         /\ NewMsg(h).open => NewMsg(h).pkts \in 1 .. MaxPkts - 1
<1>1. h.mpq \in MPQ /\ h.eom \in BOOLEAN /\ h.meta \in Metas
  BY DEF Hers
<1>2. MessageOK(h.mpq) /\ msg[h.mpq] \in [open : BOOLEAN, pkts : 0 .. MaxPkts, meta : Metas]
  BY <1>1, TypesAt DEF IInv, MpqInv
<1>3. MaxPkts \in Nat \ {0} /\ Elems = 1 .. MaxPkts
  BY MpqParams
<1>4. NewMsg(h).pkts = MaxPkts => h.eom
  BY DEF MayDeliver
<1>5. PICK n \in 1 .. MaxPkts, m \in Metas :
         NewMsg(h) = [open |-> ~ h.eom, pkts |-> n, meta |-> m]
  <2>1. CASE msg[h.mpq].open
    <3>1. msg[h.mpq].pkts + 1 \in 1 .. MaxPkts
      BY <1>2, <1>3, <2>1 DEF MessageOK
    <3>2. NewMsg(h) = [open |-> ~ h.eom, pkts |-> msg[h.mpq].pkts + 1, meta |-> msg[h.mpq].meta]
      BY <1>2, <2>1 DEF NewMsg
    <3> QED
      BY <1>2, <3>1, <3>2
  <2>2. CASE ~ msg[h.mpq].open
    BY <1>1, <1>3, <2>2 DEF NewMsg
  <2> QED
    BY <2>1, <2>2
<1>6. NewMsg(h).pkts = n /\ NewMsg(h).open = ~ h.eom
  BY <1>5
<1>7. (~ h.eom) \in BOOLEAN
  OBVIOUS
<1>8. NewMsg(h) \in [open : BOOLEAN, pkts : 0 .. MaxPkts, meta : Metas]
  BY <1>3, <1>5, <1>7
<1> QED
  BY <1>3, <1>4, <1>6, <1>8

(* The output register: it keeps a task the scheduler does not take, else  *)
(* it is loaded with the task selected in this cycle, else it is emptied.  *)
LEMMA OutputStep ==
  ASSUME IInv, NEW taskReady \in BOOLEAN, NEW ptr \in MPQ, NEW H \in HerInputs,
         NEW F \in Feedbacks, Cycle(taskReady, H, F, ptr)
  PROVE  \/ /\ TaskValid /\ ~ taskReady /\ Sel(taskReady, ptr) = {}
            /\ TaskValid' /\ TaskO' = TaskO /\ selected' = selected
         \/ /\ ~ TaskValid \/ taskReady
            /\ Sel(taskReady, ptr) = {} /\ ~ TaskValid'
         \/ /\ ~ TaskValid \/ taskReady
            /\ Sel(taskReady, ptr) = {ptr} /\ Valid(ptr)
            /\ TaskValid' /\ TaskO' = SentTask(ptr, mpq'[ptr]) /\ selected' = ptr
<1> DEFINE S == Sel(taskReady, ptr)
<1>1. /\ Candidates # {} => ptr \in Candidates
      /\ Registers(taskReady, H, S, F, ptr)
      /\ Memories(H, S, F, ptr)
  BY DEF Cycle, Sel
<1>2. engine \in {"Idle", "Ready", "Stalled"}
  BY DEF IInv, TypeOK
<1>3. CASE TaskValid /\ ~ taskReady
  <2>1. S = {} /\ engine' = "Stalled" /\ selected' = selected /\ taskQ' = TaskO
    BY <1>1, <1>3 DEF TaskValid, Sel, Accepting, Registers, EngineState
  <2> QED
    BY <1>3, <2>1 DEF TaskValid, TaskO
<1>4. CASE (~ TaskValid \/ taskReady) /\ S = {}
  BY <1>1, <1>2, <1>4 DEF TaskValid, Registers, EngineState
<1>5. CASE (~ TaskValid \/ taskReady) /\ S # {}
  <2>1. S = {ptr} /\ Valid(ptr)
    BY <1>1, <1>5, SelValid DEF Sel
  <2>2. /\ engine' = "Ready" /\ selected' = ptr /\ outState' = mpq[ptr].state
        /\ trig' = Popping(H, S, F, ptr) /\ metaOut' = meta[ptr]
        /\ mpq'[ptr] = NextMpq(H, S, F, ptr)
    BY <1>1, <1>2, <1>5 DEF TaskValid, Registers, EngineState
  <2>3. dout' = Head(queue[ptr]).el
    BY <1>1, <2>1, ValidQueued DEF Memories, QueueCycle
  <2>4. mpq[ptr].state \in Kinds
    BY <2>1 DEF Valid, Kinds
  <2>5. Popping(H, S, F, ptr) = FifoPop(mpq[ptr], mpq'[ptr])
    BY <2>1, <2>2 DEF Popping, FifoPop
  <2>6. TaskO' = NewTask' /\ TaskValid'
    BY <2>2 DEF TaskO, TaskValid
  <2>7. NewTask' = [kind |-> mpq[ptr].state, fun |-> Fun(mpq[ptr].state, meta[ptr]),
                    pkt |-> Head(queue[ptr]).el, trigger |-> FifoPop(mpq[ptr], mpq'[ptr])]
    BY <2>2, <2>3, <2>4, <2>5 DEF NewTask, Fun, FifoPop
  <2> QED
    BY <1>5, <2>1, <2>2, <2>6, <2>7 DEF SentTask
<1> QED
  BY <1>3, <1>4, <1>5

(* The task selected in a cycle is at the output in the next one; the one  *)
(* at the output stays there, or flies.                                    *)
LEMMA OutstandingStep ==
  ASSUME IInv, NEW taskReady \in BOOLEAN, NEW ptr \in MPQ, NEW H \in HerInputs,
         NEW F \in Feedbacks, \A f \in F : f[2] \in flying[f[1]],
         Cycle(taskReady, H, F, ptr), NEW i \in MPQ
  PROVE  LET sent   == i \in Sel(taskReady, ptr)
             landed == {f[2] : f \in {g \in F : g[1] = i}}
         IN  Outstanding(i)' = (Outstanding(i) \ landed)
                                 \cup (IF sent THEN {SentTask(i, mpq'[i])} ELSE {})
<1> DEFINE S == Sel(taskReady, ptr)
           landed == {f[2] : f \in {g \in F : g[1] = i}}
           out == IF TaskValid /\ selected = i THEN {TaskO} ELSE {}
<1>1. flying'[i] = (flying[i] \ landed)
                     \cup (IF TaskValid /\ taskReady /\ selected = i THEN {TaskO} ELSE {})
  BY DEF Cycle, Outside
<1>2. out \cap landed = {}
  BY DEF IInv, OutputOK
<1>3. CASE TaskValid /\ ~ taskReady
  <2>1. S = {} /\ TaskValid' /\ TaskO' = TaskO /\ selected' = selected
    BY <1>3, OutputStep
  <2> QED
    BY <1>1, <1>2, <1>3, <2>1 DEF Outstanding
<1>4. CASE ~ TaskValid \/ taskReady
  <2>1. flying'[i] = (flying[i] \ landed) \cup out
    BY <1>1, <1>4
  <2>2. \/ S = {} /\ ~ TaskValid'
        \/ S = {ptr} /\ TaskValid' /\ TaskO' = SentTask(ptr, mpq'[ptr]) /\ selected' = ptr
    BY <1>4, OutputStep
  <2> QED
    BY <1>2, <2>1, <2>2 DEF Outstanding
<1> QED
  BY <1>3, <1>4

(* What a cycle does to each MPQ is what MpqStep says.                     *)
LEMMA CycleStep ==
  ASSUME IInv, NEW taskReady \in BOOLEAN, NEW ptr \in MPQ, NEW H \in HerInputs,
         NEW F \in Feedbacks, \A f \in F : f[2] \in flying[f[1]],
         Cycle(taskReady, H, F, ptr), NEW i \in MPQ
  PROVE  \E h \in Hers, her \in BOOLEAN, landed \in SUBSET flying[i] :
            MpqStep(i, h, her, i \in Sel(taskReady, ptr), landed)
<1> DEFINE S == Sel(taskReady, ptr)
           her == HerOn(H, i)
           sent == i \in S
           landed == {f[2] : f \in {g \in F : g[1] = i}}
           h == IF H = {} THEN [mpq |-> i, eom |-> FALSE, meta |-> NoMeta]
                ELSE CHOOSE h \in H : TRUE
           old == msg[i]
<1>1. /\ \A x \in H : HerReady(x.mpq) /\ MayDeliver(x)
      /\ Candidates # {} => ptr \in Candidates
      /\ Registers(taskReady, H, S, F, ptr)
      /\ Memories(H, S, F, ptr)
      /\ Outside(taskReady, H, F)
  BY DEF Cycle, Sel
<1>2. h \in Hers /\ (her => H = {h} /\ h.mpq = i) /\ (~ her => i \notin {x.mpq : x \in H})
  BY DEF HerInputs, Hers, HerOn, Metas, NoMeta
<1>3. landed = {} \/ \E t \in flying[i] : landed = {t}
  BY DEF Feedbacks
<1>4. FbOn(F, i) = (landed # {})
  BY DEF FbOn
<1>5. her => MayDeliver(h) /\ ~ Full(i)
  BY <1>1, <1>2 DEF HerReady
<1>6. sent => i = ptr /\ Valid(i)
  BY <1>1, SelValid
<1>7. mpq'[i] = Fsm(mpq[i], her, sent, landed # {}, h.meta, h.eom)
  <2>1. mpq'[i] = NextMpq(H, S, F, i)
    BY <1>1 DEF Registers
  <2>2. NextMpq(H, S, F, i) = Fsm(mpq[i], her, sent, FbOn(F, i), h.meta, h.eom)
    BY DEF NextMpq
  <2> QED
    BY <2>1, <2>2, <1>4
<1>8. meta'[i] = IF her /\ ~ Busy(i) THEN h.meta ELSE meta[i]
  BY <1>1, <1>2 DEF Registers
<1>9. msg'[i] = IF her THEN NewMsg(h) ELSE msg[i]
  BY <1>1, <1>2 DEF Outside
<1>10. held'[i] = (held[i] \ Pkts({t \in landed : t.trigger}))
                  \cup (IF her THEN {NewMsg(h).pkts} ELSE {})
  BY <1>1, <1>2 DEF Outside, Pkts, HerOn
<1>11. done'[i] = (IF her /\ ~ msg[i].open THEN {} ELSE done[i]) \cup landed
  BY <1>1 DEF Outside
<1>12. \E c \in Cell :
          /\ her => c.el = NewMsg(h).pkts
          /\ queue'[i] = LET rest == IF sent /\ FifoPop(mpq[i], mpq'[i])
                                     THEN Tail(queue[i]) ELSE queue[i]
                         IN  IF her THEN Append(rest, c) ELSE rest
  <2> DEFINE e == IF H = {} THEN 1 ELSE NewMsg(CHOOSE x \in H : TRUE).pkts
             c == NewCell(i, e)
             pop == Popping(H, S, F, ptr)
  <2>1. queue'[i] = LET rest == IF pop /\ i = ptr THEN Tail(queue[i]) ELSE queue[i]
                    IN  IF i \in {x.mpq : x \in H} THEN Append(rest, c) ELSE rest
    BY <1>1 DEF Memories, QueueCycle, MPQ
  <2>2. pop /\ i = ptr <=> sent /\ FifoPop(mpq[i], mpq'[i])
    BY <1>1, <1>6 DEF Popping, Registers
  <2>3. i \in {x.mpq : x \in H} <=> her
    BY DEF HerOn
  <2>4. her => c.el = NewMsg(h).pkts
    BY <1>2 DEF NewCell
  <2>5. CASE her
    <3>1. NewMsg(h).pkts \in Elems
      BY <1>2, <1>5, <2>5, NewPktType
    <3>2. c \in Cell
      BY <1>2, <2>5, <3>1 DEF NewCell, Cell
    <3>3. queue'[i] = LET rest == IF sent /\ FifoPop(mpq[i], mpq'[i])
                                  THEN Tail(queue[i]) ELSE queue[i]
                      IN  Append(rest, c)
      BY <2>1, <2>2, <2>3, <2>5
    <3> HIDE DEF c, her, sent
    <3> QED
      BY <2>4, <2>5, <3>2, <3>3
  <2>6. CASE ~ her
    <3>1. [el |-> 1, static |-> TRUE] \in Cell
      BY MpqParams DEF Cell
    <3>2. queue'[i] = IF sent /\ FifoPop(mpq[i], mpq'[i]) THEN Tail(queue[i]) ELSE queue[i]
      BY <2>1, <2>2, <2>3, <2>6
    <3> HIDE DEF her, sent
    <3> QED
      BY <2>6, <3>1, <3>2
  <2> QED
    BY <2>5, <2>6
<1>13. Outstanding(i)' = (Outstanding(i) \ landed)
                         \cup (IF sent THEN {SentTask(i, mpq'[i])} ELSE {})
  BY OutstandingStep
<1> HIDE DEF h
<1>14. her \in BOOLEAN /\ sent \in BOOLEAN /\ landed \in SUBSET flying[i]
  BY DEF HerOn
<1>15. MpqStep(i, h, her, sent, landed)
  BY <1>2, <1>3, <1>5, <1>6, <1>7, <1>8, <1>9, <1>10, <1>11, <1>12, <1>13, <1>14 DEF MpqStep
<1> QED
  BY <1>2, <1>14, <1>15

-----------------------------------------------------------------------------
(***************************************************************************)
(* The invariant of one MPQ is preserved by a step of it.  Each lemma is   *)
(* about one part of MpqInv.                                               *)
(***************************************************************************)
Step(i, h, her, sent, landed) ==
  /\ IInv /\ Reuse = FALSE /\ i \in MPQ /\ h \in Hers
  /\ her \in BOOLEAN /\ sent \in BOOLEAN /\ landed \in SUBSET flying[i]
  /\ MpqStep(i, h, her, sent, landed)

(* What is known of the MPQ before the step.                               *)
LEMMA Before ==
  ASSUME NEW i, NEW h, NEW her, NEW sent, NEW landed, Step(i, h, her, sent, landed)
  PROVE  /\ MpqInv(i) /\ mpq[i] \in MpqType /\ meta[i] \in Metas
         /\ mpq[i].state \in MpqStates /\ mpq[i].length \in Nat /\ mpq[i].in_flight \in Nat
         /\ mpq[i].eom_seen \in BOOLEAN /\ mpq[i].has_completion \in BOOLEAN
         /\ msg[i] \in [open : BOOLEAN, pkts : 0 .. MaxPkts, meta : Metas]
         /\ msg[i].pkts \in Nat /\ msg[i].open \in BOOLEAN
         /\ MaxPkts \in Nat \ {0} /\ Elems = 1 .. MaxPkts
         /\ msg[i].meta.hh \in BOOLEAN /\ msg[i].meta.th \in BOOLEAN
         /\ h.meta.hh \in BOOLEAN /\ h.meta.th \in BOOLEAN /\ h.eom \in BOOLEAN
         /\ h.meta \in Metas
<1>1. i \in MPQ /\ h \in Hers /\ TypeOK /\ MpqInv(i)
  BY DEF Step, IInv
<1>2. mpq[i] \in MpqType /\ meta[i] \in Metas
      /\ msg[i] \in [open : BOOLEAN, pkts : 0 .. MaxPkts, meta : Metas]
  BY <1>1, TypesAt
<1>3. h.meta \in Metas /\ h.eom \in BOOLEAN
  BY <1>1 DEF Hers
<1>4. MaxPkts \in Nat \ {0} /\ Elems = 1 .. MaxPkts
  BY MpqParams
<1> QED
  BY <1>1, <1>2, <1>3, <1>4 DEF MpqType, Metas

(* Every started task is about a packet of the message.                    *)
LEMMA StartedPkts ==
  ASSUME NEW i, NEW h, NEW her, NEW sent, NEW landed, Step(i, h, her, sent, landed)
  PROVE  \A t \in Started(i) : t.pkt \in 1 .. msg[i].pkts
<1>1. msg[i].pkts \in Nat /\ mpq[i].length \in Nat /\ mpq[i].length <= msg[i].pkts
  BY Before DEF MpqInv, MessageOK
<1>2. Started(i) = HeaderPart(i) \cup PayloadPart(i) \cup CompletionPart(i)
  BY Before DEF MpqInv, StartedOK
<1>3. \A t \in HeaderPart(i) : t.pkt \in 1 .. msg[i].pkts
  BY <1>1 DEF HeaderPart, HeaderTask
<1>4. \A t \in PayloadPart(i) : t.pkt \in 1 .. msg[i].pkts
  BY <1>1 DEF PayloadPart, PayloadTask
<1>5. \A t \in CompletionPart(i) : t.pkt \in 1 .. msg[i].pkts
  BY <1>1 DEF CompletionPart, CompletionTask
<1> QED
  BY <1>2, <1>3, <1>4, <1>5

(* The NIC has not got everything back from a busy MPQ.                    *)
LEMMA BusyHeld ==
  ASSUME IInv, NEW i \in MPQ, mpq[i].state # "Free"
  PROVE  msg[i].open \/ held[i] # {}
<1> SUFFICES ASSUME ~ msg[i].open
             PROVE  \E p \in 1 .. msg[i].pkts : p \notin Pkts({t \in done[i] : t.trigger})
  BY DEF IInv, MpqInv, HeldOK
<1>1. /\ mpq[i].state \in MpqStates /\ mpq[i].length \in Nat /\ msg[i].pkts \in Nat
      /\ msg[i].pkts >= 1 /\ mpq[i].length <= msg[i].pkts
      /\ StartedOK(i) /\ OutstandingOK(i) /\ MessageOK(i)
  BY TypesAt, MpqParams DEF IInv, MpqInv, MessageOK, MpqType
<1>2. done[i] \subseteq HeaderPart(i) \cup PayloadPart(i) \cup CompletionPart(i)
  BY <1>1 DEF StartedOK, Started
<1>3. CASE mpq[i].state \in {"Header", "HeaderRunning", "Payload"}
  <2>1. mpq[i].length >= 1
    BY <1>1, <1>3 DEF MessageOK
  <2>2. \A t \in done[i] : t.trigger => t.pkt <= msg[i].pkts - mpq[i].length
    BY <1>1, <1>2, <1>3 DEF HeaderPart, HeaderTask, PayloadPart, PayloadTask, CompletionPart
  <2> QED
    BY <1>1, <2>1, <2>2 DEF Pkts
<1>4. CASE mpq[i].state = "PayloadDraining"
  <2>1. PICK u \in Outstanding(i) : u.kind = "Payload"
    BY <1>1, <1>4 DEF OutstandingOK
  <2>2. u \in PayloadPart(i) /\ u \notin done[i]
    BY <1>1, <2>1 DEF StartedOK, Started, OutstandingOK, HeaderPart, HeaderTask,
                      CompletionPart, CompletionTask
  <2>3. PICK p \in 1 .. (msg[i].pkts - mpq[i].length) : u = PayloadTask(i, p)
    BY <2>2 DEF PayloadPart
  <2>4. \A t \in done[i] : t.trigger => t.pkt # p
    <3> SUFFICES ASSUME NEW t \in done[i], t.trigger, t.pkt = p PROVE FALSE
      OBVIOUS
    <3>1. t \notin HeaderPart(i) /\ t \notin CompletionPart(i)
      BY <1>4 DEF HeaderPart, HeaderTask, CompletionPart
    <3>2. PICK q \in 1 .. (msg[i].pkts - mpq[i].length) : t = PayloadTask(i, q)
      BY <1>2, <3>1 DEF PayloadPart
    <3>3. q = p
      BY <3>2 DEF PayloadTask
    <3> QED
      BY <2>2, <2>3, <3>2, <3>3
  <2> QED
    BY <1>1, <2>3, <2>4 DEF Pkts
<1>5. CASE mpq[i].state \in {"Completion", "CompletionRunning"}
  <2>1. msg[i].meta.th
    BY <1>1, <1>5 DEF MessageOK
  <2>2. CompletionTask(i) \notin done[i]
    BY <1>1, <1>2, <1>5 DEF OutstandingOK, CompletionPart, HeaderPart, HeaderTask,
         PayloadPart, PayloadTask, CompletionTask
  <2>3. \A t \in done[i] : t.trigger => t.pkt # msg[i].pkts
    <3> SUFFICES ASSUME NEW t \in done[i], t.trigger, t.pkt = msg[i].pkts PROVE FALSE
      OBVIOUS
    <3>1. t \notin HeaderPart(i) /\ t \notin CompletionPart(i)
      BY <2>2 DEF HeaderPart, HeaderTask, CompletionPart
    <3>2. PICK q \in 1 .. (msg[i].pkts - mpq[i].length) : t = PayloadTask(i, q)
      BY <1>2, <3>1 DEF PayloadPart
    <3>3. q = msg[i].pkts /\ ~ t.trigger
      BY <2>1, <3>2 DEF PayloadTask
    <3> QED
      BY <3>3
  <2> QED
    BY <1>1, <2>3 DEF Pkts
<1> QED
  BY <1>1, <1>3, <1>4, <1>5 DEF MpqStates

(* Which events can happen in which state.                                 *)
LEMMA Events ==
  ASSUME NEW i, NEW h, NEW her, NEW sent, NEW landed, Step(i, h, her, sent, landed)
  PROVE  /\ her => h.mpq = i /\ (mpq[i].state = "Free" <=> ~ msg[i].open)
         /\ sent => \/ mpq[i].state \in {"Header", "Completion"}
                    \/ mpq[i].state = "Payload" /\ mpq[i].length >= 1
         /\ landed # {} => mpq[i].state \in {"HeaderRunning", "Payload", "PayloadDraining",
                                             "CompletionRunning"}
<1>1. i \in MPQ /\ IInv /\ MpqStep(i, h, her, sent, landed) /\ Reuse = FALSE
  BY DEF Step
<1>2. ASSUME her PROVE h.mpq = i /\ (mpq[i].state = "Free" <=> ~ msg[i].open)
  <2>1. h.mpq = i /\ MayDeliver(h)
    BY <1>1, <1>2 DEF MpqStep
  <2>2. msg[i].open \/ held[i] = {}
    BY <1>1, <2>1 DEF MayDeliver
  <2>3. mpq[i].state = "Free" => ~ msg[i].open
    BY Before DEF MpqInv, MessageOK
  <2> QED
    BY <1>1, <2>1, <2>2, <2>3, BusyHeld
<1>3. ASSUME sent PROVE \/ mpq[i].state \in {"Header", "Completion"}
                        \/ mpq[i].state = "Payload" /\ mpq[i].length >= 1
  <2>1. Valid(i)
    BY <1>1, <1>3 DEF MpqStep
  <2>2. mpq[i].length \in Nat
    BY Before
  <2> QED
    BY <2>1, <2>2 DEF Valid
<1>4. ASSUME landed # {}
      PROVE  mpq[i].state \in {"HeaderRunning", "Payload", "PayloadDraining", "CompletionRunning"}
  <2>1. Outstanding(i) # {}
    BY <1>4 DEF Step, Outstanding
  <2> QED
    BY <2>1, Before DEF MpqInv, OutstandingOK, MpqStates
<1> QED
  BY <1>2, <1>3, <1>4

(* What is known of it after the step.                                     *)
LEMMA After ==
  ASSUME NEW i, NEW h, NEW her, NEW sent, NEW landed, Step(i, h, her, sent, landed)
  PROVE  /\ mpq'[i].state = FsmState(mpq[i], her, sent, landed # {}, h.meta)
         /\ mpq'[i].length = FsmLength(mpq[i], her, sent)
         /\ mpq'[i].in_flight = FsmInFlight(mpq[i], sent, landed # {})
         /\ mpq'[i].eom_seen = ((mpq[i].eom_seen \/ (her /\ h.eom)) /\ mpq'[i].state # "Free")
         /\ mpq'[i].has_completion = IF mpq[i].state = "Free" /\ her THEN h.meta.th
                                     ELSE mpq[i].has_completion
         /\ meta'[i] = IF her /\ mpq[i].state = "Free" THEN h.meta ELSE meta[i]
         /\ ~ her => msg'[i] = msg[i]
         /\ her /\ msg[i].open => /\ msg'[i].pkts = msg[i].pkts + 1
                                  /\ msg'[i].open = ~ h.eom /\ msg'[i].meta = msg[i].meta
         /\ her /\ ~ msg[i].open => /\ msg'[i].pkts = 1
                                    /\ msg'[i].open = ~ h.eom /\ msg'[i].meta = h.meta
         /\ msg'[i] \in [open : BOOLEAN, pkts : 0 .. MaxPkts, meta : Metas]
         /\ msg'[i].open => msg'[i].pkts \in 1 .. MaxPkts - 1
<1>1. /\ IInv /\ i \in MPQ /\ h \in Hers /\ her \in BOOLEAN
      /\ mpq'[i] = Fsm(mpq[i], her, sent, landed # {}, h.meta, h.eom)
      /\ meta'[i] = IF her /\ ~ Busy(i) THEN h.meta ELSE meta[i]
      /\ msg'[i] = IF her THEN NewMsg(h) ELSE msg[i]
      /\ her => h.mpq = i /\ MayDeliver(h)
  BY DEF Step, MpqStep
<1>2. /\ mpq'[i].state = FsmState(mpq[i], her, sent, landed # {}, h.meta)
      /\ mpq'[i].length = FsmLength(mpq[i], her, sent)
      /\ mpq'[i].in_flight = FsmInFlight(mpq[i], sent, landed # {})
      /\ mpq'[i].has_completion = IF mpq[i].state = "Free" /\ her THEN h.meta.th
                                  ELSE mpq[i].has_completion
  BY <1>1 DEF Fsm
<1>3. mpq'[i].eom_seen = ((mpq[i].eom_seen \/ (her /\ h.eom)) /\ mpq'[i].state # "Free")
  BY <1>1, <1>2 DEF Fsm
<1>4. meta'[i] = IF her /\ mpq[i].state = "Free" THEN h.meta ELSE meta[i]
  BY <1>1 DEF Busy
<1>5. /\ her /\ msg[i].open => /\ msg'[i].pkts = msg[i].pkts + 1
                               /\ msg'[i].open = ~ h.eom /\ msg'[i].meta = msg[i].meta
      /\ her /\ ~ msg[i].open => /\ msg'[i].pkts = 1
                                 /\ msg'[i].open = ~ h.eom /\ msg'[i].meta = h.meta
  <2> SUFFICES ASSUME her
               PROVE  /\ msg[i].open => /\ msg'[i].pkts = msg[i].pkts + 1
                                        /\ msg'[i].open = ~ h.eom /\ msg'[i].meta = msg[i].meta
                      /\ ~ msg[i].open => /\ msg'[i].pkts = 1
                                          /\ msg'[i].open = ~ h.eom /\ msg'[i].meta = h.meta
    OBVIOUS
  <2>1. msg'[i] = NewMsg(h) /\ h.mpq = i
    BY <1>1
  <2>2. msg[i] \in [open : BOOLEAN, pkts : 0 .. MaxPkts, meta : Metas]
    BY Before
  <2> QED
    BY <2>1, <2>2 DEF NewMsg
<1>6. /\ msg'[i] \in [open : BOOLEAN, pkts : 0 .. MaxPkts, meta : Metas]
      /\ msg'[i].open => msg'[i].pkts \in 1 .. MaxPkts - 1
  <2>1. CASE her
    BY <1>1, <2>1, NewPktType
  <2>2. CASE ~ her
    BY <1>1, <2>2, Before DEF MpqInv, MessageOK
  <2> QED
    BY <1>1, <2>1, <2>2
<1> QED
  BY <1>1, <1>2, <1>3, <1>4, <1>5, <1>6

(* MessageOK is preserved.                                                 *)
LEMMA StepMessage ==
  ASSUME NEW i, NEW h, NEW her, NEW sent, NEW landed, Step(i, h, her, sent, landed)
  PROVE  MessageOK(i)'
<1>1. /\ her \in BOOLEAN /\ sent \in BOOLEAN
      /\ MessageOK(i) /\ mpq[i].state \in MpqStates /\ mpq[i].length \in Nat
      /\ mpq[i].eom_seen \in BOOLEAN /\ msg[i].pkts \in Nat /\ msg[i].open \in BOOLEAN
      /\ mpq[i].has_completion \in BOOLEAN /\ msg[i].meta.th \in BOOLEAN
      /\ h.eom \in BOOLEAN /\ h.meta.hh \in BOOLEAN /\ h.meta.th \in BOOLEAN
  BY Before DEF Step, MpqInv
<1>3. CASE mpq[i].state = "Free"
  BY <1>1, <1>3, After, Events DEF FsmState, FirstState, FsmLength, PopsPayload, MessageOK
<1>4. CASE mpq[i].state \in {"Header", "HeaderRunning"}
  BY <1>1, <1>4, After, Events DEF FsmState, FsmLength, PopsPayload, MessageOK
<1>5. CASE mpq[i].state = "Payload"
  BY <1>1, <1>5, After, Events DEF FsmState, LastPayload, FsmLength, PopsPayload, MessageOK
<1>6. CASE mpq[i].state \in {"PayloadDraining", "Completion", "CompletionRunning"}
  BY <1>1, <1>6, After, Events DEF FsmState, AfterPayloads, FsmLength, PopsPayload, MessageOK
<1> QED
  BY <1>1, <1>3, <1>4, <1>5, <1>6 DEF MpqStates

(* The first packet of a new message resets the record of started tasks.   *)
Fresh(i, her) == her /\ ~ msg[i].open

(* A new message starts on an MPQ that has no event but its arrival.       *)
LEMMA FreshStep ==
  ASSUME NEW i, NEW h, NEW her, NEW sent, NEW landed, Step(i, h, her, sent, landed),
         Fresh(i, her)
  PROVE  /\ mpq[i].state = "Free" /\ ~ sent /\ landed = {} /\ Outstanding(i) = {}
         /\ Started(i)' = {} /\ done'[i] = {} /\ held'[i] = {1}
         /\ msg'[i].pkts = 1 /\ mpq'[i].length = 1
         /\ mpq'[i].state = (IF msg'[i].meta.hh THEN "Header" ELSE "Payload")
<1> DEFINE new == her /\ ~ msg[i].open
<1>0. /\ new => mpq[i].state = "Free"
      /\ new => msg'[i].pkts = 1 /\ msg'[i].meta = h.meta
      /\ mpq'[i].length = FsmLength(mpq[i], her, sent)
      /\ mpq'[i].state = FsmState(mpq[i], her, sent, landed # {}, h.meta)
  BY Events, After
<1>1. mpq[i].state = "Free"
  BY <1>0 DEF Fresh
<1>2. ~ sent /\ landed = {}
  BY <1>1, Events
<1>3. Outstanding(i) = {} /\ mpq[i].length = 0
  BY <1>1, Before DEF MpqInv, OutstandingOK, MessageOK
<1>4. done'[i] = {} /\ Outstanding(i)' = {}
  BY <1>2, <1>3 DEF Step, MpqStep, Fresh
<1>5. msg'[i].pkts = 1 /\ msg'[i].meta = h.meta
  BY <1>0 DEF Fresh
<1>6. held'[i] = {1}
  <2>1. held[i] = {} /\ msg'[i] = NewMsg(h)
    BY DEF Step, MpqStep, MayDeliver, Fresh
  <2> QED
    BY <1>2, <1>5, <2>1 DEF Step, MpqStep, Pkts, Fresh
<1>7. mpq'[i].length = 1 /\ mpq'[i].state = (IF h.meta.hh THEN "Header" ELSE "Payload")
  BY <1>0, <1>1, <1>2, <1>3 DEF FsmLength, PopsPayload, FsmState, FirstState, Fresh
<1> QED
  BY <1>1, <1>2, <1>3, <1>4, <1>5, <1>6, <1>7 DEF Started

(* Otherwise a packet adds one to the message, and a payload handler that  *)
(* is selected adds one to the packets given to one.                       *)
LEMMA CountStep ==
  ASSUME NEW i, NEW h, NEW her, NEW sent, NEW landed, Step(i, h, her, sent, landed),
         ~ Fresh(i, her)
  PROVE  /\ msg'[i].pkts = msg[i].pkts + (IF her THEN 1 ELSE 0)
         /\ msg'[i].meta = msg[i].meta
         /\ her => msg[i].open /\ mpq[i].state # "Free"
         /\ mpq'[i].length = mpq[i].length + (IF her THEN 1 ELSE 0)
                               - (IF sent /\ mpq[i].state = "Payload" THEN 1 ELSE 0)
         /\ done'[i] = done[i] \cup landed
         /\ Started(i)' = Started(i) \cup (IF sent THEN {SentTask(i, mpq'[i])} ELSE {})
<1>1. mpq[i].length \in Nat /\ msg[i].pkts \in Nat /\ her \in BOOLEAN /\ sent \in BOOLEAN
  BY Before DEF Step
<1>2. /\ msg'[i].pkts = msg[i].pkts + (IF her THEN 1 ELSE 0)
      /\ msg'[i].meta = msg[i].meta
      /\ her => msg[i].open /\ mpq[i].state # "Free"
  BY <1>1, After, Events DEF Fresh
<1>3. mpq'[i].length = mpq[i].length + (IF her THEN 1 ELSE 0)
                         - (IF sent /\ mpq[i].state = "Payload" THEN 1 ELSE 0)
  BY <1>1, After, Events DEF FsmLength, PopsPayload
<1>4. done'[i] = done[i] \cup landed
  BY DEF Step, MpqStep, Fresh
<1>5. landed \subseteq Outstanding(i)
  BY DEF Step, Outstanding
<1>6. Outstanding(i)' = (Outstanding(i) \ landed)
                         \cup (IF sent THEN {SentTask(i, mpq'[i])} ELSE {})
  BY DEF Step, MpqStep
<1> QED
  BY <1>2, <1>3, <1>4, <1>5, <1>6 DEF Started

(* The task of a selection, by the state of the MPQ.                       *)
LEMMA Sending ==
  ASSUME NEW i, NEW h, NEW her, NEW sent, NEW landed, Step(i, h, her, sent, landed)
  PROVE  sent =>
         /\ mpq[i].state = "Header" => SentTask(i, mpq'[i]) = HeaderTask
         /\ mpq[i].state = "Payload" =>
              \A p : p = msg[i].pkts - mpq[i].length + 1 =>
                       SentTask(i, mpq'[i]) = PayloadTask(i, p)'
         /\ mpq[i].state = "Completion" => SentTask(i, mpq'[i]) = CompletionTask(i)'
<1> DEFINE m == mpq[i]
           n == mpq'[i]
<1>a. sent => ~ Fresh(i, her) /\ m.state # "Free" /\ (m.state = "Payload" => m.length >= 1)
  <2>1. Fresh(i, her) => ~ sent
    BY FreshStep
  <2>2. sent => \/ m.state \in {"Header", "Completion"}
                \/ m.state = "Payload" /\ m.length >= 1
    BY Events
  <2> QED
    BY <2>1, <2>2
<1>b. ~ Fresh(i, her) => /\ msg'[i].pkts = msg[i].pkts + (IF her THEN 1 ELSE 0)
                         /\ msg'[i].meta = msg[i].meta /\ (her => msg[i].open)
  BY CountStep
<1>c. /\ m.state = "Payload" /\ sent =>
           n.state = IF LastPayload(m) THEN "PayloadDraining" ELSE "Payload"
      /\ n.has_completion = IF m.state = "Free" /\ her THEN h.meta.th ELSE m.has_completion
      /\ ~ her => msg'[i] = msg[i]
  <2>1. n.state = FsmState(m, her, sent, landed # {}, h.meta)
    BY After
  <2>2. m.state = "Payload" /\ sent =>
           n.state = IF LastPayload(m) THEN "PayloadDraining" ELSE "Payload"
    BY <2>1 DEF FsmState
  <2> QED
    BY <2>2, After
<1> HIDE DEF m, n
<1>d. sent => Valid(i)
  BY DEF Step, MpqStep
<1> USE DEF m, n
<1>e. m.state \in MpqStates /\ m.length \in Nat /\ msg[i].pkts \in Nat
  BY Before
<1> SUFFICES ASSUME sent
             PROVE  /\ m.state = "Header" => SentTask(i, n) = HeaderTask
                    /\ m.state = "Payload" =>
                         \A p : p = msg[i].pkts - m.length + 1 =>
                                  SentTask(i, n) = PayloadTask(i, p)'
                    /\ m.state = "Completion" => SentTask(i, n) = CompletionTask(i)'
  OBVIOUS
<1>1. /\ m.state \in MpqStates /\ m.length \in Nat /\ msg[i].pkts \in Nat
      /\ MessageOK(i) /\ QueueOK(i) /\ msg[i].meta.hh \in BOOLEAN /\ msg[i].meta.th \in BOOLEAN
      /\ m.eom_seen \in BOOLEAN /\ msg[i].open \in BOOLEAN /\ her \in BOOLEAN
      /\ m.has_completion \in BOOLEAN
  BY Before DEF MpqInv, Step
<1>3. m.state # "Free"
  BY <1>a
<1>4. /\ msg'[i].pkts = msg[i].pkts + (IF her THEN 1 ELSE 0)
      /\ msg'[i].meta = msg[i].meta /\ (her => msg[i].open)
  BY <1>a, <1>b
<1>5. meta[i] = msg[i].meta /\ m.has_completion = msg[i].meta.th /\ m.eom_seen = ~ msg[i].open
  BY <1>1, <1>3 DEF MessageOK
<1>6. Valid(i) /\ queue[i] # <<>> /\ Len(queue[i]) >= 1 /\ queue[i] \in Seq(Cell)
  BY <1>d, ValidQueued, TypesAt DEF Step, IInv
<1>7. Head(queue[i]).el = msg[i].pkts - Len(queue[i]) + 1
  <2>1. Head(queue[i]) = queue[i][1] /\ 1 \in 1 .. Len(queue[i])
    BY <1>6
  <2> QED
    BY <1>1, <2>1 DEF QueueOK
<1>8. CASE m.state = "Header"
  <2>1. Len(queue[i]) = msg[i].pkts /\ msg[i].meta.hh = TRUE
    BY <1>1, <1>8 DEF QueueOK, Retained, MessageOK
  <2>2. msg[i].pkts - msg[i].pkts + 1 = 1
    BY <1>e
  <2>3. Head(queue[i]).el = 1
    BY <1>7, <2>1, <2>2
  <2> QED
    BY <1>5, <1>8, <2>1, <2>3 DEF SentTask, HeaderTask, Fun, FifoPop
<1>9. CASE m.state = "Payload"
  <2>1. Head(queue[i]).el = msg[i].pkts - m.length + 1
    BY <1>1, <1>7, <1>9 DEF QueueOK, Retained
  <2>2. n.state = IF LastPayload(m) THEN "PayloadDraining" ELSE "Payload"
    BY <1>c, <1>9
  <2>3. n.has_completion = msg[i].meta.th
    BY <1>c, <1>5, <1>9
  <2>4. FifoPop(m, n) = ~ (~ msg[i].open /\ m.length = 1 /\ msg[i].meta.th)
    BY <1>1, <1>5, <1>9, <2>2, <2>3 DEF FifoPop, LastPayload
  <2>5. ~ her => msg'[i] = msg[i]
    BY <1>c
  <2>6. m.length >= 1
    BY <1>a, <1>9
  <2>7. (msg[i].pkts - m.length + 1 = msg'[i].pkts /\ ~ msg'[i].open /\ msg'[i].meta.th)
          = (~ msg[i].open /\ m.length = 1 /\ msg[i].meta.th)
    BY <1>1, <1>4, <2>5, <2>6
  <2> SUFFICES ASSUME NEW p, p = msg[i].pkts - m.length + 1
               PROVE  SentTask(i, n) = PayloadTask(i, p)'
    BY <1>9
  <2>8. PayloadTask(i, p)' =
          [kind |-> "Payload", fun |-> TRUE, pkt |-> msg[i].pkts - m.length + 1,
           trigger |-> ~ (~ msg[i].open /\ m.length = 1 /\ msg[i].meta.th)]
    BY <2>7 DEF PayloadTask
  <2>9. SentTask(i, n) =
          [kind |-> "Payload", fun |-> TRUE, pkt |-> msg[i].pkts - m.length + 1,
           trigger |-> ~ (~ msg[i].open /\ m.length = 1 /\ msg[i].meta.th)]
    BY <1>9, <2>1, <2>4 DEF SentTask, Fun
  <2> QED
    BY <1>9, <2>8, <2>9
<1>10. CASE m.state = "Completion"
  <2>1. m.length = 0 /\ ~ msg[i].open /\ msg[i].meta.th = TRUE
    BY <1>1, <1>10 DEF MessageOK
  <2>2. Len(queue[i]) = 1
    BY <1>1, <1>5, <1>10, <2>1 DEF QueueOK, Retained
  <2>3. Head(queue[i]).el = msg'[i].pkts
    BY <1>1, <1>4, <1>7, <2>1, <2>2
  <2> QED
    BY <1>5, <1>10, <2>1, <2>3 DEF SentTask, CompletionTask, Fun, FifoPop
<1> QED
  BY <1>8, <1>9, <1>10

(* The packet of a payload task that has been started keeps its task.      *)
LEMMA PayloadTaskKept ==
  ASSUME NEW i, NEW h, NEW her, NEW sent, NEW landed, Step(i, h, her, sent, landed),
         ~ Fresh(i, her), NEW p \in 1 .. (msg[i].pkts - mpq[i].length)
  PROVE  PayloadTask(i, p)' = PayloadTask(i, p)
<1>1. /\ mpq[i].length \in Nat /\ msg[i].pkts \in Nat /\ msg[i].open \in BOOLEAN
      /\ her \in BOOLEAN
  BY Before DEF Step
<1>2. /\ msg'[i].pkts = msg[i].pkts + (IF her THEN 1 ELSE 0)
      /\ msg'[i].meta = msg[i].meta /\ (her => msg[i].open)
  BY CountStep
<1>3. ~ her => msg'[i] = msg[i]
  BY After
<1>4. (p = msg'[i].pkts /\ ~ msg'[i].open /\ msg'[i].meta.th)
        = (p = msg[i].pkts /\ ~ msg[i].open /\ msg[i].meta.th)
  BY <1>1, <1>2, <1>3
<1> QED
  BY <1>4 DEF PayloadTask

(* StartedOK is preserved, and a task that is selected is a new one.       *)
LEMMA StepStarted ==
  ASSUME NEW i, NEW h, NEW her, NEW sent, NEW landed, Step(i, h, her, sent, landed)
  PROVE  /\ StartedOK(i)'
         /\ sent => SentTask(i, mpq'[i]) \notin Started(i)
<1> DEFINE task == SentTask(i, mpq'[i])
           n == msg[i].pkts - mpq[i].length
<1>1. /\ mpq[i].state \in MpqStates /\ mpq[i].length \in Nat /\ msg[i].pkts \in Nat
      /\ MessageOK(i) /\ mpq[i].length <= msg[i].pkts
      /\ Started(i) = HeaderPart(i) \cup PayloadPart(i) \cup CompletionPart(i)
      /\ her \in BOOLEAN /\ sent \in BOOLEAN
  BY Before DEF Step, MpqInv, StartedOK, MessageOK
<1>2. n \in Nat
  BY <1>1
<1>3. sent => \/ mpq[i].state = "Header" /\ task = HeaderTask
              \/ /\ mpq[i].state = "Payload" /\ mpq[i].length >= 1
                 /\ \A p : p = n + 1 => task = PayloadTask(i, p)'
              \/ mpq[i].state = "Completion" /\ task = CompletionTask(i)'
  <2>1. sent => \/ mpq[i].state \in {"Header", "Completion"}
                \/ mpq[i].state = "Payload" /\ mpq[i].length >= 1
    BY Events
  <2>2. /\ sent /\ mpq[i].state = "Header" => task = HeaderTask
        /\ sent /\ mpq[i].state = "Completion" => task = CompletionTask(i)'
        /\ sent /\ mpq[i].state = "Payload" => \A p : p = n + 1 => task = PayloadTask(i, p)'
    BY Sending
  <2> HIDE DEF task, n
  <2> QED
    BY <2>1, <2>2
<1>4. CASE Fresh(i, her)
  <2>1. /\ ~ sent /\ Started(i)' = {} /\ msg'[i].pkts = 1 /\ mpq'[i].length = 1
        /\ mpq'[i].state = IF msg'[i].meta.hh THEN "Header" ELSE "Payload"
    BY <1>4, FreshStep
  <2>2. HeaderPart(i)' = {} /\ CompletionPart(i)' = {}
    BY <2>1 DEF HeaderPart, CompletionPart
  <2>3. PayloadPart(i)' = {}
    BY <2>1 DEF PayloadPart
  <2> QED
    BY <2>1, <2>2, <2>3 DEF StartedOK
<1>5. CASE ~ Fresh(i, her)
  <2>1. /\ msg'[i].pkts = msg[i].pkts + (IF her THEN 1 ELSE 0)
        /\ msg'[i].meta = msg[i].meta
        /\ her => msg[i].open /\ mpq[i].state # "Free"
        /\ mpq'[i].length = mpq[i].length + (IF her THEN 1 ELSE 0)
                              - (IF sent /\ mpq[i].state = "Payload" THEN 1 ELSE 0)
        /\ Started(i)' = Started(i) \cup (IF sent THEN {task} ELSE {})
    BY <1>5, CountStep
  <2>2. msg'[i].pkts - mpq'[i].length =
           IF sent /\ mpq[i].state = "Payload" THEN n + 1 ELSE n
    BY <1>1, <2>1
  <2>3. \A p \in 1 .. n : PayloadTask(i, p)' = PayloadTask(i, p)
    BY <1>5, PayloadTaskKept
  <2>4. PayloadPart(i) = {PayloadTask(i, p)' : p \in 1 .. n}
    BY <2>3 DEF PayloadPart
  <2>5. PayloadPart(i)' = {PayloadTask(i, p)' : p \in 1 .. (msg'[i].pkts - mpq'[i].length)}
    BY DEF PayloadPart
  <2>6. mpq'[i].state = FsmState(mpq[i], her, sent, landed # {}, h.meta)
    BY After
  <2>7. msg'[i].pkts > 0 <=> msg[i].pkts > 0
    <3>1. her => msg[i].pkts > 0
      BY <1>1, <2>1 DEF MessageOK
    <3> QED
      BY <1>1, <2>1, <3>1
  <2>8. mpq[i].state # "Free" => msg[i].pkts > 0
    BY <1>1 DEF MessageOK
  <2>9. landed # {} => mpq[i].state \in {"HeaderRunning", "Payload", "PayloadDraining",
                                         "CompletionRunning"}
    BY Events
  <2>10. HeaderPart(i)' = HeaderPart(i) \cup (IF sent /\ mpq[i].state = "Header"
                                              THEN {HeaderTask} ELSE {})
    <3>1. mpq[i].state = "Header" => msg[i].meta.hh
      BY <1>1 DEF MessageOK
    <3>2. mpq'[i].state = "Header" <=> mpq[i].state = "Header" /\ ~ sent
      BY <1>1, <1>3, <2>1, <2>6 DEF FsmState, FirstState, AfterPayloads, MpqStates
    <3> QED
      BY <2>1, <2>7, <2>8, <3>1, <3>2 DEF HeaderPart
  <2>11. CompletionPart(i)' = IF sent /\ mpq[i].state = "Completion"
                              THEN {CompletionTask(i)'} ELSE CompletionPart(i)
    <3>1. mpq[i].state \in {"PayloadDraining", "Completion", "CompletionRunning"} =>
            ~ msg[i].open /\ mpq[i].has_completion = msg[i].meta.th
      BY <1>1 DEF MessageOK
    <3>2. mpq[i].state = "Completion" => msg[i].meta.th
      BY <1>1 DEF MessageOK
    <3>3. ~ her => msg'[i] = msg[i]
      BY After
    <3>4. mpq'[i].state = "CompletionRunning" <=>
            \/ mpq[i].state = "Completion" /\ sent
            \/ mpq[i].state = "CompletionRunning" /\ landed = {}
      BY <1>1, <2>1, <2>6 DEF FsmState, FirstState, AfterPayloads, MpqStates
    <3>5. mpq'[i].state = "Free" <=>
            \/ mpq[i].state = "Free"
            \/ mpq[i].state = "CompletionRunning" /\ landed # {}
            \/ /\ mpq[i].state = "PayloadDraining" /\ landed # {} /\ LastFeedback(mpq[i])
               /\ ~ mpq[i].has_completion
      BY <1>1, <2>1, <2>6 DEF FsmState, FirstState, AfterPayloads, MpqStates
    <3>6. CASE msg[i].meta.th /\ mpq[i].state \in {"Free", "PayloadDraining", "Completion",
                                                   "CompletionRunning"}
      <4>1. ~ her /\ msg'[i] = msg[i]
        BY <2>1, <3>1, <3>3, <3>6
      <4>2. CompletionTask(i)' = CompletionTask(i)
        BY <4>1 DEF CompletionTask
      <4> QED
        BY <1>3, <2>7, <2>8, <3>1, <3>4, <3>5, <3>6, <4>1, <4>2 DEF CompletionPart
    <3>7. CASE ~ msg[i].meta.th \/ mpq[i].state \notin {"Free", "PayloadDraining", "Completion",
                                                        "CompletionRunning"}
      BY <2>1, <3>2, <3>4, <3>5, <3>7 DEF CompletionPart
    <3> QED
      BY <3>6, <3>7
  <2>12. CASE sent /\ mpq[i].state = "Payload"
    <3>1. 1 .. (n + 1) = (1 .. n) \cup {n + 1}
      BY <1>2
    <3>2. PayloadPart(i)' = PayloadPart(i) \cup {task}
      <4>1. \A p : p = n + 1 => task = PayloadTask(i, p)'
        BY <1>3, <2>12
      <4>2. msg'[i].pkts - mpq'[i].length = n + 1
        BY <2>2, <2>12
      <4>3. PayloadPart(i)' = {PayloadTask(i, p)' : p \in (1 .. n) \cup {n + 1}}
        BY <2>5, <3>1, <4>2
      <4> HIDE DEF n, task
      <4> QED
        BY <2>4, <4>1, <4>3
    <3>3. task \notin Started(i)
      <4>1. \A p : p = n + 1 => task = PayloadTask(i, p)'
        BY <1>3, <2>12
      <4>2. task.kind = "Payload" /\ task.pkt = n + 1
        <5> HIDE DEF task, n
        <5> QED
          BY <4>1 DEF PayloadTask
      <4>3. task \notin PayloadPart(i)
        <5>1. \A t \in PayloadPart(i) : t.pkt \in 1 .. n
          BY DEF PayloadPart, PayloadTask
        <5> HIDE DEF task, n
        <5> QED
          BY <1>2, <4>2, <5>1
      <4> QED
        BY <1>1, <4>2, <4>3 DEF HeaderPart, HeaderTask, CompletionPart, CompletionTask
    <3> QED
      BY <1>1, <2>1, <2>10, <2>11, <2>12, <3>2, <3>3 DEF StartedOK
  <2>13. CASE ~ (sent /\ mpq[i].state = "Payload")
    <3>1. PayloadPart(i)' = PayloadPart(i)
      BY <2>2, <2>4, <2>5, <2>13
    <3>2. mpq[i].state = "Completion" => CompletionPart(i) = {}
      BY DEF CompletionPart
    <3>3. Started(i)' = HeaderPart(i)' \cup PayloadPart(i)' \cup CompletionPart(i)'
      BY <1>1, <1>3, <2>1, <2>10, <2>11, <2>13, <3>1, <3>2
    <3>4. sent => task \notin Started(i)
      <4>1. CASE sent /\ mpq[i].state = "Header"
        <5>1. n = 0
          BY <1>1, <4>1 DEF MessageOK
        <5>2. PayloadPart(i) = {} /\ HeaderPart(i) = {} /\ CompletionPart(i) = {}
          BY <4>1, <5>1 DEF PayloadPart, HeaderPart, CompletionPart
        <5> QED
          BY <1>1, <5>2
      <4>2. CASE sent /\ mpq[i].state = "Completion"
        <5>1. task.kind = "Completion"
          BY <1>3, <4>2 DEF CompletionTask
        <5>2. \A t \in Started(i) : t.kind # "Completion"
          BY <1>1, <3>2, <4>2 DEF HeaderPart, HeaderTask, PayloadPart, PayloadTask
        <5> HIDE DEF task, n
        <5> QED
          BY <5>1, <5>2
      <4>3. sent => mpq[i].state = "Header" \/ mpq[i].state = "Completion"
        BY <1>3, <2>13
      <4> HIDE DEF task, n
      <4> QED
        BY <4>1, <4>2, <4>3
    <3> QED
      BY <3>3, <3>4 DEF StartedOK
  <2> QED
    BY <2>12, <2>13
<1> QED
  BY <1>4, <1>5

(* OutstandingOK is preserved.                                             *)
LEMMA StepOutstanding ==
  ASSUME NEW i, NEW h, NEW her, NEW sent, NEW landed, Step(i, h, her, sent, landed)
  PROVE  OutstandingOK(i)'
<1> DEFINE task == SentTask(i, mpq'[i])
           out == Outstanding(i)
           rest == out \ landed
<1>1. /\ mpq[i].state \in MpqStates /\ mpq[i].in_flight \in Nat /\ mpq[i].length \in Nat
      /\ IsFiniteSet(out) /\ mpq[i].in_flight = Cardinality(out)
      /\ out \cap done[i] = {}
      /\ mpq[i].state \in {"Free", "Header", "Completion"} => out = {}
      /\ mpq[i].state = "HeaderRunning" => out = {HeaderTask}
      /\ mpq[i].state = "CompletionRunning" => out = {CompletionTask(i)}
      /\ mpq[i].state \in {"Payload", "PayloadDraining"} => \A t \in out : t.kind = "Payload"
      /\ mpq[i].state = "PayloadDraining" => out # {}
      /\ her \in BOOLEAN /\ sent \in BOOLEAN
  BY Before DEF Step, MpqInv, OutstandingOK
<1>2. landed = {} \/ \E t \in out : landed = {t}
  BY DEF Step, MpqStep, Outstanding
<1>3. Outstanding(i)' = rest \cup (IF sent THEN {task} ELSE {})
  BY DEF Step, MpqStep
<1>4. sent => task \notin out /\ task \notin done[i]
  <2>1. sent => task \notin Started(i)
    BY StepStarted
  <2> QED
    BY <2>1 DEF Started
<1>5. /\ her => h.mpq = i /\ (mpq[i].state = "Free" <=> ~ msg[i].open)
      /\ sent => \/ mpq[i].state \in {"Header", "Completion"}
                 \/ mpq[i].state = "Payload" /\ mpq[i].length >= 1
      /\ landed # {} => mpq[i].state \in {"HeaderRunning", "Payload", "PayloadDraining",
                                          "CompletionRunning"}
  BY Events
<1>6. /\ sent /\ mpq[i].state = "Header" => task = HeaderTask
      /\ sent /\ mpq[i].state = "Payload" => task.kind = "Payload"
      /\ sent /\ mpq[i].state = "Completion" => task = CompletionTask(i)'
  <2>1. /\ sent /\ mpq[i].state = "Header" => task = HeaderTask
        /\ sent /\ mpq[i].state = "Completion" => task = CompletionTask(i)'
    BY Sending
  <2> QED
    BY <2>1 DEF SentTask
<1>7. /\ mpq'[i].state = FsmState(mpq[i], her, sent, landed # {}, h.meta)
      /\ mpq'[i].in_flight = FsmInFlight(mpq[i], sent, landed # {})
  BY After
<1>8. IsFiniteSet(rest) /\ mpq[i].in_flight = Cardinality(rest) + (IF landed = {} THEN 0 ELSE 1)
  <2>1. CASE landed = {}
    BY <1>1, <2>1
  <2>2. CASE landed # {}
    <3>1. PICK t \in out : landed = {t}
      BY <1>2, <2>2
    <3>2. IsFiniteSet(rest) /\ Cardinality(rest) = Cardinality(out) - 1
      BY <1>1, <3>1, FS_RemoveElement
    <3> QED
      BY <1>1, <2>2, <3>2
  <2> QED
    BY <2>1, <2>2
<1>9. Cardinality(rest) \in Nat /\ (Cardinality(rest) = 0 <=> rest = {})
  BY <1>8, FS_CardinalityType, FS_EmptySet
<1> HIDE DEF out, rest, task
<1>10. IsFiniteSet(Outstanding(i)') /\ mpq'[i].in_flight = Cardinality(Outstanding(i)')
  <2>1. CASE sent
    <3>1. Outstanding(i)' = rest \cup {task} /\ task \notin rest
      BY <1>3, <1>4, <2>1 DEF rest
    <3>2. /\ IsFiniteSet(Outstanding(i)')
          /\ Cardinality(Outstanding(i)') = Cardinality(rest) + 1
      BY <1>8, <3>1, FS_AddElement
    <3> QED
      BY <1>7, <1>8, <1>9, <2>1, <3>2 DEF FsmInFlight
  <2>2. CASE ~ sent
    <3>1. Outstanding(i)' = rest
      BY <1>3, <2>2
    <3> QED
      BY <1>7, <1>8, <1>9, <2>2, <3>1 DEF FsmInFlight
  <2> QED
    BY <2>1, <2>2
<1>11. Outstanding(i)' \cap done'[i] = {}
  <2>1. done'[i] \subseteq done[i] \cup landed
    BY DEF Step, MpqStep
  <2> QED
    BY <1>1, <1>2, <1>3, <1>4, <2>1 DEF rest
<1>12. /\ mpq'[i].state \in {"Free", "Header", "Completion"} => Outstanding(i)' = {}
       /\ mpq'[i].state = "HeaderRunning" => Outstanding(i)' = {HeaderTask}
       /\ mpq'[i].state = "CompletionRunning" => Outstanding(i)' = {CompletionTask(i)'}
       /\ mpq'[i].state \in {"Payload", "PayloadDraining"} =>
             \A t \in Outstanding(i)' : t.kind = "Payload"
       /\ mpq'[i].state = "PayloadDraining" => Outstanding(i)' # {}
  <2>1. CASE mpq[i].state = "Free"
    <3>1. mpq'[i].state \in {"Free", "Header", "Payload"}
      BY <1>7, <2>1 DEF FsmState, FirstState
    <3> QED
      BY <1>1, <1>3, <1>5, <2>1, <3>1 DEF rest
  <2>2. CASE mpq[i].state = "Header"
    <3>1. mpq'[i].state = IF sent THEN "HeaderRunning" ELSE "Header"
      BY <1>7, <2>2 DEF FsmState
    <3> QED
      BY <1>1, <1>3, <1>5, <1>6, <2>2, <3>1 DEF rest
  <2>3. CASE mpq[i].state = "HeaderRunning"
    <3>1. mpq'[i].state = IF landed # {} THEN "Payload" ELSE "HeaderRunning"
      BY <1>7, <2>3 DEF FsmState
    <3>2. landed # {} => rest = {}
      BY <1>1, <1>2, <2>3 DEF rest
    <3> QED
      BY <1>1, <1>3, <1>5, <2>3, <3>1, <3>2 DEF rest
  <2>4. CASE mpq[i].state = "Payload"
    <3>1. mpq'[i].state = IF sent /\ LastPayload(mpq[i]) THEN "PayloadDraining" ELSE "Payload"
      BY <1>7, <2>4 DEF FsmState
    <3> QED
      BY <1>1, <1>3, <1>6, <2>4, <3>1 DEF rest
  <2>5. CASE mpq[i].state = "PayloadDraining"
    <3>1. mpq'[i].state = IF landed # {} /\ mpq[i].in_flight = 1 THEN AfterPayloads(mpq[i])
                          ELSE "PayloadDraining"
      BY <1>7, <2>5 DEF FsmState, LastFeedback
    <3>2. AfterPayloads(mpq[i]) \in {"Free", "Completion"}
      BY DEF AfterPayloads
    <3>3. Outstanding(i)' = rest
      BY <1>3, <1>5, <2>5
    <3>4. landed # {} => (rest = {} <=> mpq[i].in_flight = 1)
      BY <1>1, <1>8, <1>9
    <3> QED
      BY <1>1, <2>5, <3>1, <3>2, <3>3, <3>4 DEF rest
  <2>6. CASE mpq[i].state = "Completion"
    <3>1. mpq'[i].state = IF sent THEN "CompletionRunning" ELSE "Completion"
      BY <1>7, <2>6 DEF FsmState
    <3> QED
      BY <1>1, <1>3, <1>5, <1>6, <2>6, <3>1 DEF rest
  <2>7. CASE mpq[i].state = "CompletionRunning"
    <3>1. mpq'[i].state = IF landed # {} THEN "Free" ELSE "CompletionRunning"
      BY <1>7, <2>7 DEF FsmState
    <3>2. landed # {} => rest = {}
      BY <1>1, <1>2, <2>7 DEF rest
    <3>3. CompletionTask(i)' = CompletionTask(i)
      <4>1. ~ msg[i].open
        BY <2>7, Before DEF MpqInv, MessageOK
      <4>2. ~ her => msg'[i] = msg[i]
        BY After
      <4>3. msg'[i] = msg[i]
        BY <1>5, <2>7, <4>1, <4>2
      <4> QED
        BY <4>3 DEF CompletionTask
    <3> QED
      BY <1>1, <1>3, <1>5, <2>7, <3>1, <3>2, <3>3 DEF rest
  <2> QED
    BY <1>1, <2>1, <2>2, <2>3, <2>4, <2>5, <2>6, <2>7 DEF MpqStates
<1> QED
  BY <1>10, <1>11, <1>12 DEF OutstandingOK

(* QueueOK is preserved, and only a queue that is not empty is popped.     *)
LEMMA StepQueue ==
  ASSUME NEW i, NEW h, NEW her, NEW sent, NEW landed, Step(i, h, her, sent, landed)
  PROVE  QueueOK(i)' /\ queue'[i] \in Seq(Cell)
<1> DEFINE q == queue[i]
           pop == sent /\ FifoPop(mpq[i], mpq'[i])
           rest == IF pop THEN Tail(q) ELSE q
           pops == IF pop THEN 1 ELSE 0
           hers == IF her THEN 1 ELSE 0
<1>1. /\ mpq[i].state \in MpqStates /\ mpq[i].length \in Nat /\ msg[i].pkts \in Nat
      /\ mpq[i].has_completion \in BOOLEAN /\ her \in BOOLEAN /\ sent \in BOOLEAN
      /\ mpq[i].eom_seen \in BOOLEAN
      /\ MessageOK(i)
      /\ Len(q) = mpq[i].length + (IF Retained(i) THEN 1 ELSE 0)
      /\ \A k \in 1 .. Len(q) : q[k].el = msg[i].pkts - Len(q) + k
  BY Before DEF Step, MpqInv, QueueOK
<1>2. q \in Seq(Cell)
  BY TypesAt DEF Step, IInv
<1>3. sent => q # <<>>
  <2>1. sent => Valid(i)
    BY DEF Step, MpqStep
  <2> QED
    BY <2>1, ValidQueued DEF Step
<1>4. PICK c \in Cell : /\ her => c.el = NewMsg(h).pkts
                        /\ queue'[i] = IF her THEN Append(rest, c) ELSE rest
  BY DEF Step, MpqStep
<1>5. her => c.el = msg'[i].pkts
  BY <1>4 DEF Step, MpqStep
<1>6. rest \in Seq(Cell) /\ Len(rest) = Len(q) - pops
      /\ \A k \in 1 .. Len(rest) : rest[k] = q[k + pops]
  <2>1. CASE pop
    <3>1. q # <<>> /\ Len(q) \in Nat
      BY <1>2, <1>3, <2>1
    <3>2. rest = Tail(q) /\ pops = 1
      BY <2>1
    <3> HIDE DEF rest, pops, q
    <3> QED
      BY <1>2, <3>1, <3>2
  <2>2. CASE ~ pop
    <3>1. rest = q /\ pops = 0 /\ Len(q) \in Nat
      BY <1>2, <2>2
    <3> HIDE DEF rest, pops, q
    <3> QED
      BY <1>2, <3>1
  <2> QED
    BY <2>1, <2>2
<1>7. /\ queue'[i] \in Seq(Cell) /\ Len(queue'[i]) = Len(q) - pops + hers
      /\ \A k \in 1 .. Len(rest) : queue'[i][k] = q[k + pops]
      /\ her => queue'[i][Len(q) - pops + 1].el = msg'[i].pkts
  <2> HIDE DEF rest, pops, q
  <2>1. CASE her
    <3>1. queue'[i] = Append(rest, c) /\ hers = 1
      BY <1>4, <2>1
    <3> HIDE DEF hers
    <3> QED
      BY <1>4, <1>5, <1>6, <3>1
  <2>2. CASE ~ her
    <3>1. queue'[i] = rest /\ hers = 0
      BY <1>4, <2>2
    <3> HIDE DEF hers
    <3> QED
      BY <1>6, <2>2, <3>1
  <2> QED
    BY <2>1, <2>2
<1>8. /\ mpq'[i].state = FsmState(mpq[i], her, sent, landed # {}, h.meta)
      /\ mpq'[i].length = FsmLength(mpq[i], her, sent)
      /\ mpq'[i].has_completion = IF mpq[i].state = "Free" /\ her THEN h.meta.th
                                  ELSE mpq[i].has_completion
  BY After
<1>9. /\ sent => \/ mpq[i].state \in {"Header", "Completion"}
                 \/ mpq[i].state = "Payload" /\ mpq[i].length >= 1
      /\ her => (mpq[i].state = "Free" <=> ~ msg[i].open)
  BY Events
<1>10. Len(queue'[i]) = mpq'[i].length + (IF Retained(i)' THEN 1 ELSE 0)
  <2>1. CASE mpq[i].state = "Free"
    <3>1. mpq'[i].state \notin {"PayloadDraining", "Completion"}
      BY <1>8, <2>1 DEF FsmState, FirstState
    <3> QED
      BY <1>1, <1>2, <1>7, <1>8, <1>9, <2>1, <3>1 DEF FsmLength, PopsPayload, FifoPop, Retained
  <2>2. CASE mpq[i].state \in {"Header", "HeaderRunning"}
    <3>1. mpq'[i].state \in {"Header", "HeaderRunning", "Payload"}
      BY <1>8, <2>2 DEF FsmState
    <3>2. Retained(i) = FALSE /\ Retained(i)' = FALSE /\ pops = 0
      BY <2>2, <3>1 DEF Retained, FifoPop
    <3>3. mpq'[i].length = mpq[i].length + hers
      BY <1>1, <1>8, <2>2 DEF FsmLength, PopsPayload
    <3> QED
      BY <1>1, <1>2, <1>7, <3>2, <3>3
  <2>3. CASE mpq[i].state = "Payload"
    <3>1. mpq'[i].state = IF sent /\ LastPayload(mpq[i]) THEN "PayloadDraining" ELSE "Payload"
      BY <1>8, <2>3 DEF FsmState
    <3>2. mpq'[i].has_completion = mpq[i].has_completion
      BY <1>8, <2>3
    <3>3. mpq[i].eom_seen = ~ msg[i].open
      BY <1>1, <2>3 DEF MessageOK
    <3>4. Retained(i) = FALSE /\ Len(q) = mpq[i].length
      BY <1>1, <2>3 DEF Retained
    <3>5. mpq'[i].length = mpq[i].length + hers - (IF sent THEN 1 ELSE 0)
      BY <1>1, <1>8, <1>9, <2>3 DEF FsmLength, PopsPayload
    <3>6. CASE sent /\ LastPayload(mpq[i])
      <4>1. hers = 0 /\ mpq[i].length = 1
        BY <1>9, <2>3, <3>3, <3>6 DEF LastPayload
      <4>2. /\ Retained(i)' = mpq[i].has_completion
            /\ pops = IF mpq[i].has_completion THEN 0 ELSE 1
        BY <1>1, <2>3, <3>1, <3>2, <3>6 DEF Retained, FifoPop
      <4> QED
        BY <1>1, <1>7, <3>4, <3>5, <3>6, <4>1, <4>2
    <3>7. CASE ~ (sent /\ LastPayload(mpq[i]))
      <4>1. Retained(i)' = FALSE /\ pops = IF sent THEN 1 ELSE 0
        BY <2>3, <3>1, <3>7 DEF Retained, FifoPop
      <4>2. hers \in Nat
        OBVIOUS
      <4> HIDE DEF q, pops, hers
      <4> QED
        BY <1>1, <1>7, <3>4, <3>5, <4>1, <4>2
    <3> QED
      BY <3>6, <3>7
  <2>4. CASE mpq[i].state \in {"PayloadDraining", "Completion", "CompletionRunning"}
    <3>1. /\ mpq[i].length = 0 /\ ~ her /\ mpq'[i].has_completion = mpq[i].has_completion
          /\ mpq[i].state \in {"Completion", "CompletionRunning"} => mpq[i].has_completion
      BY <1>1, <1>8, <1>9, <2>4 DEF MessageOK
    <3>2. mpq'[i].length = 0
      BY <1>8, <2>4, <3>1 DEF FsmLength, PopsPayload
    <3>3. Retained(i)' <=> Retained(i) /\ ~ (sent /\ mpq[i].state = "Completion")
      BY <1>1, <1>8, <2>4, <3>1 DEF FsmState, AfterPayloads, Retained
    <3>4. pops = IF sent /\ mpq[i].state = "Completion" THEN 1 ELSE 0
      BY <1>9, <2>4 DEF FifoPop
    <3>5. sent /\ mpq[i].state = "Completion" => Retained(i)
      BY <3>1 DEF Retained
    <3> QED
      BY <1>1, <1>2, <1>7, <3>1, <3>2, <3>3, <3>4, <3>5
  <2> QED
    BY <1>1, <2>1, <2>2, <2>3, <2>4 DEF MpqStates
<1>11. \A k \in 1 .. Len(queue'[i]) : queue'[i][k].el = msg'[i].pkts - Len(queue'[i]) + k
  <2>1. CASE Fresh(i, her)
    <3>1. mpq[i].state = "Free" /\ ~ sent /\ msg'[i].pkts = 1
      BY <2>1, FreshStep
    <3>2. Len(q) = 0 /\ pops = 0 /\ hers = 1
      BY <1>1, <2>1, <3>1 DEF Fresh, MessageOK, Retained
    <3>3. Len(queue'[i]) = 1 /\ queue'[i][1].el = 1
      BY <1>7, <2>1, <3>1, <3>2 DEF Fresh
    <3> QED
      BY <3>1, <3>3
  <2>2. CASE ~ Fresh(i, her)
    <3>1. msg'[i].pkts = msg[i].pkts + hers
      BY <2>2, CountStep
    <3>2. pops \in Nat /\ hers \in Nat /\ Len(rest) \in Nat /\ Len(q) \in Nat
      BY <1>2, <1>6
    <3>3. hers = 0 \/ (hers = 1 /\ her)
      OBVIOUS
    <3> HIDE DEF rest, pops, q, hers
    <3> TAKE k \in 1 .. Len(queue'[i])
    <3>4. CASE k \in 1 .. Len(rest)
      <4>1. queue'[i][k] = q[k + pops] /\ k + pops \in 1 .. Len(q)
        <5> DEFINE n == Len(q)
                   r == Len(rest)
        <5>1. r = n - pops /\ r \in Nat /\ n \in Nat /\ pops \in Nat /\ k \in 1 .. r
          BY <1>6, <3>2, <3>4, Zenon
        <5> HIDE DEF n, r
        <5>2. k + pops \in 1 .. n
          BY <5>1
        <5>3. queue'[i][k] = q[k + pops]
          BY <1>7, <3>4, Zenon
        <5> QED
          BY <5>2, <5>3 DEF n
      <4>2. q[k + pops].el = msg[i].pkts - Len(q) + (k + pops)
        BY <1>1, <4>1
      <4> QED
        BY <1>1, <1>7, <3>1, <3>2, <4>1, <4>2
    <3>5. CASE k \notin 1 .. Len(rest)
      <4>1. her /\ hers = 1 /\ k = Len(q) - pops + 1
        BY <1>6, <1>7, <3>2, <3>3, <3>5
      <4>2. queue'[i][k].el = msg'[i].pkts
        BY <1>7, <4>1
      <4> QED
        BY <1>1, <1>7, <3>1, <3>2, <4>1, <4>2
    <3> QED
      BY <3>4, <3>5
  <2> QED
    BY <2>1, <2>2
<1> QED
  BY <1>7, <1>10, <1>11 DEF QueueOK

(* HeldOK is preserved.                                                    *)
LEMMA StepHeld ==
  ASSUME NEW i, NEW h, NEW her, NEW sent, NEW landed, Step(i, h, her, sent, landed)
  PROVE  HeldOK(i)'
<1>1. CASE Fresh(i, her)
  <2>1. done'[i] = {} /\ held'[i] = {1} /\ msg'[i].pkts = 1
    BY <1>1, FreshStep
  <2> QED
    BY <2>1 DEF HeldOK, Pkts
<1>2. CASE ~ Fresh(i, her)
  <2> DEFINE back(T) == Pkts({t \in T : t.trigger})
  <2>1. msg[i].pkts \in Nat /\ held[i] = (1 .. msg[i].pkts) \ back(done[i])
    BY Before DEF MpqInv, HeldOK
  <2>2. /\ msg'[i].pkts = msg[i].pkts + (IF her THEN 1 ELSE 0)
        /\ done'[i] = done[i] \cup landed
    BY <1>2, CountStep
  <2>3. held'[i] = (held[i] \ back(landed)) \cup (IF her THEN {msg'[i].pkts} ELSE {})
    BY DEF Step, MpqStep
  <2>4. back(done'[i]) = back(done[i]) \cup back(landed)
    BY <2>2 DEF Pkts
  <2>5. \A t \in done'[i] : t.pkt \in 1 .. msg[i].pkts
    <3>1. done'[i] \subseteq Started(i)
      BY <2>2 DEF Step, Started, Outstanding
    <3> QED
      BY <3>1, StartedPkts
  <2>6. back(done'[i]) \subseteq 1 .. msg[i].pkts
    BY <2>5 DEF Pkts
  <2>7. her \in BOOLEAN
    BY DEF Step
  <2> HIDE DEF back
  <2>8. 1 .. msg'[i].pkts = (1 .. msg[i].pkts) \cup (IF her THEN {msg'[i].pkts} ELSE {})
    BY <2>1, <2>2, <2>7
  <2>9. her => msg'[i].pkts \notin 1 .. msg[i].pkts
    BY <2>1, <2>2
  <2>10. held'[i] = (1 .. msg'[i].pkts) \ back(done'[i])
    BY <2>1, <2>3, <2>4, <2>6, <2>8, <2>9
  <2> QED
    BY <2>10 DEF HeldOK, back
<1> QED
  BY <1>1, <1>2

(* The types of one MPQ are preserved.                                     *)
LEMMA StepTypes ==
  ASSUME NEW i, NEW h, NEW her, NEW sent, NEW landed, Step(i, h, her, sent, landed)
  PROVE  /\ mpq'[i] \in MpqType /\ meta'[i] \in Metas
         /\ msg'[i] \in [open : BOOLEAN, pkts : 0 .. MaxPkts, meta : Metas]
         /\ held'[i] \in SUBSET Elems /\ done'[i] \in SUBSET Tasks
<1>1. /\ mpq[i].state \in MpqStates /\ mpq[i].length \in Nat
      /\ mpq[i].eom_seen \in BOOLEAN /\ mpq[i].has_completion \in BOOLEAN
      /\ meta[i] \in Metas /\ h.meta \in Metas /\ h.meta.th \in BOOLEAN /\ h.eom \in BOOLEAN
      /\ her \in BOOLEAN /\ sent \in BOOLEAN
  BY Before DEF Step
<1>2. mpq'[i].state \in MpqStates
  <2>1. mpq'[i].state = FsmState(mpq[i], her, sent, landed # {}, h.meta)
    BY After
  <2> QED
    BY <1>1, <2>1 DEF FsmState, FirstState, AfterPayloads, MpqStates
<1>3. mpq'[i].length \in Nat
  <2>1. mpq'[i].length = FsmLength(mpq[i], her, sent)
    BY After
  <2>2. sent => \/ mpq[i].state \in {"Header", "Completion"}
                \/ mpq[i].state = "Payload" /\ mpq[i].length >= 1
    BY Events
  <2> QED
    BY <1>1, <2>1, <2>2 DEF FsmLength, PopsPayload
<1>4. mpq'[i].in_flight \in Nat
  BY StepOutstanding, FS_CardinalityType DEF OutstandingOK
<1>5. mpq'[i] \in MpqType
  <2>1. mpq'[i] = Fsm(mpq[i], her, sent, landed # {}, h.meta, h.eom)
    BY DEF Step, MpqStep
  <2> DEFINE e == (mpq[i].eom_seen \/ (her /\ h.eom))
                     /\ FsmState(mpq[i], her, sent, landed # {}, h.meta) # "Free"
             c == IF mpq[i].state = "Free" /\ her THEN h.meta.th ELSE mpq[i].has_completion
  <2>2. e \in BOOLEAN /\ c \in BOOLEAN
    BY <1>1
  <2>3. mpq'[i] = [state |-> mpq'[i].state, length |-> mpq'[i].length,
                   in_flight |-> mpq'[i].in_flight, eom_seen |-> e, has_completion |-> c]
    BY <2>1 DEF Fsm
  <2> HIDE DEF e, c
  <2>4. \A s \in MpqStates, l \in Nat, f \in Nat :
           [state |-> s, length |-> l, in_flight |-> f, eom_seen |-> e, has_completion |-> c]
             \in MpqType
    BY <2>2 DEF MpqType
  <2> QED
    BY <1>2, <1>3, <1>4, <2>3, <2>4
<1>6. meta'[i] \in Metas
  BY <1>1, After
<1>7. msg'[i] \in [open : BOOLEAN, pkts : 0 .. MaxPkts, meta : Metas]
  BY After
<1>8. held'[i] \in SUBSET Elems
  <2>1. msg'[i].pkts \in Nat /\ msg'[i].pkts <= MaxPkts /\ MaxPkts \in Nat /\ Elems = 1 .. MaxPkts
    BY <1>7, MpqParams
  <2>2. held'[i] \subseteq 1 .. msg'[i].pkts
    BY StepHeld DEF HeldOK
  <2>3. 1 .. msg'[i].pkts \subseteq Elems
    BY <2>1
  <2> QED
    BY <2>2, <2>3
<1>9. done'[i] \in SUBSET Tasks
  <2>1. done[i] \subseteq Tasks /\ flying[i] \subseteq Tasks
    BY TypesAt DEF Step, IInv
  <2> QED
    BY <2>1 DEF Step, MpqStep
<1> QED
  BY <1>5, <1>6, <1>7, <1>8, <1>9

(* The task at the output is a task.                                       *)
LEMMA TaskOType ==
  ASSUME TypeOK
  PROVE  TaskO \in Tasks
<1>1. /\ taskQ \in Tasks /\ outState \in MpqStates /\ dout \in Elems /\ trig \in BOOLEAN
      /\ metaOut \in Metas
  BY DEF TypeOK, QueueTypeOK
<1>2. Fun(outState, metaOut) \in BOOLEAN /\ (outState \in Kinds /\ trig) \in BOOLEAN
  BY DEF Fun
<1>3. NewTask \in Tasks
  BY <1>1, <1>2 DEF NewTask, Tasks
<1> QED
  BY <1>1, <1>3 DEF TaskO

(* A cycle gives every MPQ a step, with the selection of the cycle.        *)
LEMMA CycleSteps ==
  ASSUME IInv, Reuse = FALSE, NEW taskReady \in BOOLEAN, NEW ptr \in MPQ,
         NEW H \in HerInputs, NEW F \in Feedbacks, \A f \in F : f[2] \in flying[f[1]],
         Cycle(taskReady, H, F, ptr), NEW i \in MPQ
  PROVE  \E h, her, landed : Step(i, h, her, i \in Sel(taskReady, ptr), landed)
<1>1. PICK h \in Hers, her \in BOOLEAN, landed \in SUBSET flying[i] :
         MpqStep(i, h, her, i \in Sel(taskReady, ptr), landed)
  BY CycleStep
<1>2. (i \in Sel(taskReady, ptr)) \in BOOLEAN
  OBVIOUS
<1>3. Step(i, h, her, i \in Sel(taskReady, ptr), landed)
  BY <1>1, <1>2 DEF Step
<1> QED
  BY <1>3

(* A cycle preserves the invariant of every MPQ and its types.             *)
LEMMA CycleMpqInv ==
  ASSUME IInv, Reuse = FALSE, NEW taskReady \in BOOLEAN, NEW ptr \in MPQ,
         NEW H \in HerInputs, NEW F \in Feedbacks, \A f \in F : f[2] \in flying[f[1]],
         Cycle(taskReady, H, F, ptr), NEW i \in MPQ
  PROVE  /\ MpqInv(i)' /\ queue'[i] \in Seq(Cell)
         /\ mpq'[i] \in MpqType /\ meta'[i] \in Metas
         /\ msg'[i] \in [open : BOOLEAN, pkts : 0 .. MaxPkts, meta : Metas]
         /\ held'[i] \in SUBSET Elems /\ done'[i] \in SUBSET Tasks
         /\ i \in Sel(taskReady, ptr) => SentTask(i, mpq'[i]) \notin Started(i)
<1> DEFINE sent == i \in Sel(taskReady, ptr)
<1>1. PICK h, her, landed : Step(i, h, her, sent, landed)
  BY CycleSteps
<1> HIDE DEF sent
<1>2. StartedOK(i)' /\ (sent => SentTask(i, mpq'[i]) \notin Started(i))
  BY <1>1, StepStarted
<1>3. OutstandingOK(i)' /\ MessageOK(i)' /\ HeldOK(i)'
  BY <1>1, StepOutstanding, StepMessage, StepHeld
<1>4. QueueOK(i)' /\ queue'[i] \in Seq(Cell)
  BY <1>1, StepQueue
<1>5. /\ mpq'[i] \in MpqType /\ meta'[i] \in Metas
      /\ msg'[i] \in [open : BOOLEAN, pkts : 0 .. MaxPkts, meta : Metas]
      /\ held'[i] \in SUBSET Elems /\ done'[i] \in SUBSET Tasks
  BY <1>1, StepTypes
<1> USE DEF sent
<1> QED
  BY <1>2, <1>3, <1>4, <1>5 DEF MpqInv

(* A cycle preserves the type invariant.                                   *)
LEMMA CycleTypes ==
  ASSUME IInv, Reuse = FALSE, NEW taskReady \in BOOLEAN, NEW ptr \in MPQ,
         NEW H \in HerInputs, NEW F \in Feedbacks, \A f \in F : f[2] \in flying[f[1]],
         Cycle(taskReady, H, F, ptr)
  PROVE  TypeOK'
<1> DEFINE S == Sel(taskReady, ptr)
<1>1. /\ Registers(taskReady, H, S, F, ptr)
      /\ Memories(H, S, F, ptr)
      /\ Outside(taskReady, H, F)
  BY DEF Cycle, Sel
<1>2. TypeOK
  BY DEF IInv
<1>3. QueueTypeOK'
  <2>1. queue' = [f \in Fifos |-> queue'[f]] /\ dout' \in Elems
    BY <1>1 DEF Memories, QueueCycle
  <2>2. \A f \in Fifos : queue'[f] \in Seq(Cell)
    BY CycleMpqInv DEF MPQ
  <2> QED
    BY <2>1, <2>2 DEF QueueTypeOK
<1>4. mpq' \in [MPQ -> MpqType] /\ meta' \in [MPQ -> Metas]
  <2>1. mpq' = [j \in MPQ |-> mpq'[j]] /\ meta' = [j \in MPQ |-> meta'[j]]
    BY <1>1 DEF Registers
  <2>2. \A j \in MPQ : mpq'[j] \in MpqType /\ meta'[j] \in Metas
    BY CycleMpqInv
  <2> QED
    BY <2>1, <2>2
<1>5. /\ msg' \in [MPQ -> [open : BOOLEAN, pkts : 0 .. MaxPkts, meta : Metas]]
      /\ held' \in [MPQ -> SUBSET Elems] /\ done' \in [MPQ -> SUBSET Tasks]
  <2>1. /\ msg' = [j \in MPQ |-> msg'[j]] /\ held' = [j \in MPQ |-> held'[j]]
        /\ done' = [j \in MPQ |-> done'[j]]
    BY <1>1 DEF Outside
  <2>2. \A j \in MPQ : /\ msg'[j] \in [open : BOOLEAN, pkts : 0 .. MaxPkts, meta : Metas]
                       /\ held'[j] \in SUBSET Elems /\ done'[j] \in SUBSET Tasks
    BY CycleMpqInv
  <2> QED
    BY <2>1, <2>2
<1>6. flying' \in [MPQ -> SUBSET Tasks]
  <2>1. \A j \in MPQ : flying'[j] \subseteq flying[j] \cup {TaskO}
    BY <1>1 DEF Outside
  <2>2. flying' = [j \in MPQ |-> flying'[j]]
    BY <1>1 DEF Outside
  <2>3. \A j \in MPQ : flying'[j] \in SUBSET Tasks
    BY <1>2, <2>1, TaskOType DEF TypeOK
  <2> QED
    BY <2>2, <2>3
<1>7. engine' \in {"Idle", "Ready", "Stalled"} /\ selected' \in MPQ /\ lock' \in SUBSET MPQ
  BY <1>1, <1>2 DEF Registers, EngineState, TypeOK
<1>8. outState' \in MpqStates /\ metaOut' \in Metas
  <2>1. mpq[ptr].state \in MpqStates /\ meta[ptr] \in Metas
    BY <1>2, TypesAt DEF MpqType
  <2> QED
    BY <1>1, <1>2, <2>1 DEF Registers, TypeOK
<1>9. trig' \in BOOLEAN
  <2>1. Popping(H, S, F, ptr) \in BOOLEAN
    BY DEF Popping
  <2> QED
    BY <1>1, <1>2, <2>1 DEF Registers, TypeOK
<1>10. taskQ' \in Tasks
  BY <1>1, <1>2, TaskOType DEF Registers
<1> QED
  BY <1>3, <1>4, <1>5, <1>6, <1>7, <1>8, <1>9, <1>10 DEF TypeOK

(* A task at the output is kept until it leaves once.                      *)
LEMMA CycleOutput ==
  ASSUME IInv, Reuse = FALSE, NEW taskReady \in BOOLEAN, NEW ptr \in MPQ,
         NEW H \in HerInputs, NEW F \in Feedbacks, \A f \in F : f[2] \in flying[f[1]],
         Cycle(taskReady, H, F, ptr)
  PROVE  OutputOK'
<1>1. selected \in MPQ
  BY DEF IInv, TypeOK
<1>2. \A j \in MPQ : flying'[j] \subseteq
                       flying[j] \cup (IF TaskValid /\ taskReady /\ selected = j
                                       THEN {TaskO} ELSE {})
  BY DEF Cycle, Outside
<1>3. CASE TaskValid /\ ~ taskReady
  <2>1. TaskO' = TaskO /\ selected' = selected
    BY <1>3, OutputStep
  <2>2. TaskO \notin flying[selected]
    BY <1>3 DEF IInv, OutputOK
  <2> QED
    BY <1>1, <1>2, <1>3, <2>1, <2>2 DEF OutputOK
<1>4. CASE ~ TaskValid \/ taskReady
  <2> SUFFICES ASSUME TaskValid' PROVE TaskO' \notin flying'[selected']
    BY DEF OutputOK
  <2>1. Sel(taskReady, ptr) = {ptr} /\ TaskO' = SentTask(ptr, mpq'[ptr]) /\ selected' = ptr
    BY <1>4, OutputStep
  <2>2. SentTask(ptr, mpq'[ptr]) \notin Started(ptr)
    BY <2>1, CycleMpqInv
  <2>3. flying'[ptr] \subseteq Started(ptr)
    BY <1>2 DEF Started, Outstanding
  <2> QED
    BY <2>1, <2>2, <2>3
<1> QED
  BY <1>3, <1>4

(* The MPQ the arbiter locks on stays valid: its state only moves when it  *)
(* is selected, and its length does not shrink before.                     *)
LEMMA CycleLocked ==
  ASSUME IInv, Reuse = FALSE, NEW taskReady \in BOOLEAN, NEW ptr \in MPQ,
         NEW H \in HerInputs, NEW F \in Feedbacks, \A f \in F : f[2] \in flying[f[1]],
         Cycle(taskReady, H, F, ptr)
  PROVE  LockedStaysValid'
<1> SUFFICES ASSUME NEW i \in lock' PROVE Valid(i)'
  BY DEF LockedStaysValid
<1>1. /\ lock' = IF ~ Accepting(taskReady) /\ Candidates # {} THEN {ptr} ELSE {}
      /\ Candidates # {} => ptr \in Candidates
  BY DEF Cycle, Registers
<1>2. i = ptr /\ Sel(taskReady, ptr) = {} /\ ptr \in Candidates
  BY <1>1 DEF Sel
<1>3. Valid(ptr)
  BY <1>2 DEF Candidates, IInv, LockedStaysValid
<1> DEFINE sent == ptr \in Sel(taskReady, ptr)
<1>4. PICK h, her, landed : Step(ptr, h, her, sent, landed)
  BY CycleSteps
<1> HIDE DEF sent
<1>5. mpq[ptr].length \in Nat /\ her \in BOOLEAN
  BY <1>4, Before DEF Step
<1>6. /\ ~ sent
      /\ mpq'[ptr].state = FsmState(mpq[ptr], her, sent, landed # {}, h.meta)
      /\ mpq'[ptr].length = FsmLength(mpq[ptr], her, sent)
  <2>1. /\ mpq'[ptr].state = FsmState(mpq[ptr], her, sent, landed # {}, h.meta)
        /\ mpq'[ptr].length = FsmLength(mpq[ptr], her, sent)
    BY <1>4, After
  <2>2. ~ sent
    BY <1>2 DEF sent
  <2> QED
    BY <2>1, <2>2
<1>7. CASE mpq[ptr].state \in {"Header", "Completion"}
  <2>1. mpq'[ptr].state = mpq[ptr].state
    BY <1>6, <1>7 DEF FsmState
  <2> QED
    BY <1>2, <1>7, <2>1 DEF Valid
<1>8. CASE mpq[ptr].state = "Payload" /\ mpq[ptr].length > 0
  <2>1. mpq'[ptr].state = "Payload"
    BY <1>6, <1>8 DEF FsmState
  <2>2. mpq'[ptr].length > 0
    BY <1>5, <1>6, <1>8 DEF FsmLength, PopsPayload
  <2> QED
    BY <1>2, <2>1, <2>2 DEF Valid
<1> QED
  BY <1>3, <1>7, <1>8 DEF Valid

-----------------------------------------------------------------------------
(* Every MPQ starts free, with nothing of it anywhere.                     *)
LEMMA InitIInv == Init => IInv
<1> SUFFICES ASSUME Init PROVE IInv
  OBVIOUS
<1>1. MaxPkts \in Nat \ {0} /\ Elems = 1 .. MaxPkts /\ 0 \in 0 .. MaxPkts /\ 1 \in Elems
  BY MpqParams
<1>2. 0 \in MPQ
  BY QueueParams DEF MPQ, Fifos
<1>3. FreeMpq \in MpqType /\ NoMeta \in Metas
  BY DEF FreeMpq, MpqType, MpqStates, NoMeta, Metas
<1>4. [kind |-> "Free", fun |-> FALSE, pkt |-> 1, trigger |-> FALSE] \in Tasks
  BY <1>1 DEF Tasks, MpqStates
<1>5. TypeOK
  <2>1. QueueTypeOK
    BY DEF Init, QueueInit, QueueTypeOK
  <2>2. mpq \in [MPQ -> MpqType] /\ meta \in [MPQ -> Metas]
    BY <1>3 DEF Init
  <2>3. /\ engine \in {"Idle", "Ready", "Stalled"} /\ selected \in MPQ /\ outState \in MpqStates
        /\ trig \in BOOLEAN /\ metaOut \in Metas /\ taskQ \in Tasks /\ lock \in SUBSET MPQ
    BY <1>2, <1>3, <1>4 DEF Init, MpqStates
  <2>4. msg \in [MPQ -> [open : BOOLEAN, pkts : 0 .. MaxPkts, meta : Metas]]
    BY <1>1, <1>3 DEF Init
  <2>5. /\ held \in [MPQ -> SUBSET Elems] /\ flying \in [MPQ -> SUBSET Tasks]
        /\ done \in [MPQ -> SUBSET Tasks]
    BY DEF Init
  <2> QED
    BY <2>1, <2>2, <2>3, <2>4, <2>5 DEF TypeOK
<1>6. OutputOK /\ LockedStaysValid
  BY DEF Init, OutputOK, TaskValid, LockedStaysValid
<1> SUFFICES ASSUME NEW i \in MPQ PROVE MpqInv(i)
  BY <1>5, <1>6 DEF IInv
<1>7. /\ queue[i] = <<>> /\ mpq[i] = FreeMpq /\ flying[i] = {} /\ done[i] = {} /\ held[i] = {}
      /\ msg[i] = [open |-> FALSE, pkts |-> 0, meta |-> NoMeta]
  BY DEF Init, QueueInit, MPQ
<1>8. Outstanding(i) = {} /\ Started(i) = {}
  BY <1>7 DEF Init, Outstanding, Started, TaskValid
<1>9. StartedOK(i)
  BY <1>7, <1>8 DEF StartedOK, HeaderPart, PayloadPart, CompletionPart, FreeMpq
<1>10. OutstandingOK(i)
  BY <1>7, <1>8, FS_EmptySet DEF OutstandingOK, FreeMpq
<1>11. MessageOK(i) /\ QueueOK(i)
  BY <1>7 DEF MessageOK, QueueOK, Retained, FreeMpq
<1>12. HeldOK(i)
  BY <1>7 DEF HeldOK, Pkts
<1> QED
  BY <1>9, <1>10, <1>11, <1>12 DEF MpqInv

(* A step of the engine preserves the invariant.                           *)
LEMMA NextIInv == ASSUME Reuse = FALSE PROVE IInv /\ [Next]_vars => IInv'
<1> SUFFICES ASSUME IInv, [Next]_vars PROVE IInv'
  OBVIOUS
<1>1. CASE Next
  <2>1. PICK taskReady \in BOOLEAN, ptr \in MPQ, H \in HerInputs, F \in Feedbacks :
           (\A f \in F : f[2] \in flying[f[1]]) /\ Cycle(taskReady, H, F, ptr)
    BY <1>1 DEF Next
  <2>2. TypeOK' /\ OutputOK' /\ LockedStaysValid'
    BY <2>1, CycleTypes, CycleOutput, CycleLocked
  <2>3. \A i \in MPQ : MpqInv(i)'
    BY <2>1, CycleMpqInv
  <2> QED
    BY <2>2, <2>3 DEF IInv
<1>2. CASE UNCHANGED vars
  <2>1. UNCHANGED <<queue, dout, mpq, meta, engine, selected, outState, trig, metaOut, taskQ,
                    lock, msg, held, flying, done>>
    BY <1>2 DEF vars, queueVars, regs, env
  <2>2. TypeOK'
    BY <2>1 DEF IInv, TypeOK, QueueTypeOK
  <2>3. OutputOK' /\ LockedStaysValid'
    BY <2>1 DEF IInv, OutputOK, TaskValid, TaskO, NewTask, LockedStaysValid, Valid
  <2>4. \A i \in MPQ : /\ Outstanding(i)' = Outstanding(i) /\ Started(i)' = Started(i)
                       /\ Retained(i)' = Retained(i)
    BY <2>1 DEF Outstanding, Started, TaskValid, TaskO, NewTask, Retained
  <2>5. ASSUME NEW i \in MPQ PROVE MpqInv(i)'
    <3>1. MpqInv(i)
      BY DEF IInv
    <3>2. StartedOK(i)' /\ HeldOK(i)'
      BY <2>1, <2>4, <3>1 DEF MpqInv, StartedOK, HeaderPart, PayloadPart, PayloadTask,
           CompletionPart, CompletionTask, HeldOK
    <3>3. OutstandingOK(i)' /\ MessageOK(i)' /\ QueueOK(i)'
      BY <2>1, <2>4, <3>1 DEF MpqInv, OutstandingOK, MessageOK, QueueOK, CompletionTask
    <3> QED
      BY <3>2, <3>3 DEF MpqInv
  <2> QED
    BY <2>2, <2>3, <2>5 DEF IInv
<1> QED
  BY <1>1, <1>2

(* The invariant holds in every reachable state.                           *)
THEOREM Invariance == ASSUME Reuse = FALSE PROVE Spec => []IInv
<1>1. Init => IInv
  BY InitIInv
<1>2. IInv /\ [Next]_vars => IInv'
  BY NextIInv
<1> QED
  BY <1>1, <1>2, PTL DEF Spec

(* The registers, queues and the message of each MPQ keep their types.     *)
THEOREM TypeCorrect == ASSUME Reuse = FALSE PROVE Spec => []TypeOK
<1>1. IInv => TypeOK
  BY DEF IInv
<1> QED
  BY <1>1, Invariance, PTL

(* The counters in_flight and length of every MPQ are exact.               *)
THEOREM Counters == ASSUME Reuse = FALSE PROVE Spec => []CountersAccounted
<1>1. IInv => CountersAccounted
  BY DEF IInv, MpqInv, OutstandingOK, QueueOK, CountersAccounted
<1> QED
  BY <1>1, Invariance, PTL

(* An MPQ the arbiter is locked on stays valid.                            *)
THEOREM Locked == ASSUME Reuse = FALSE PROVE Spec => []LockedStaysValid
<1>1. IInv => LockedStaysValid
  BY DEF IInv
<1> QED
  BY <1>1, Invariance, PTL

(* What the invariant says about the started tasks of one kind.            *)
LEMMA StartedKinds ==
  ASSUME IInv, NEW i \in MPQ
  PROVE  /\ OfKind(Started(i), "Header") = HeaderPart(i)
         /\ OfKind(Started(i), "Payload") = PayloadPart(i)
         /\ OfKind(Started(i), "Completion") = CompletionPart(i)
         /\ mpq[i].length \in Nat /\ msg[i].pkts \in Nat /\ mpq[i].state \in MpqStates
         /\ msg[i].meta.th \in BOOLEAN /\ msg[i].meta.hh \in BOOLEAN /\ msg[i].open \in BOOLEAN
         /\ mpq[i].has_completion \in BOOLEAN /\ msg[i].pkts <= MaxPkts
         /\ MpqInv(i)
<1>1. Started(i) = HeaderPart(i) \cup PayloadPart(i) \cup CompletionPart(i) /\ MpqInv(i)
  BY DEF IInv, MpqInv, StartedOK
<1>2. /\ \A t \in HeaderPart(i) : t.kind = "Header"
      /\ \A t \in PayloadPart(i) : t.kind = "Payload"
      /\ \A t \in CompletionPart(i) : t.kind = "Completion"
  BY DEF HeaderPart, HeaderTask, PayloadPart, PayloadTask, CompletionPart, CompletionTask
<1>3. mpq[i] \in MpqType /\ msg[i] \in [open : BOOLEAN, pkts : 0 .. MaxPkts, meta : Metas]
  BY TypesAt DEF IInv
<1>4. /\ mpq[i].length \in Nat /\ msg[i].pkts \in Nat /\ mpq[i].state \in MpqStates
      /\ msg[i].meta.th \in BOOLEAN /\ msg[i].meta.hh \in BOOLEAN /\ msg[i].open \in BOOLEAN
      /\ mpq[i].has_completion \in BOOLEAN /\ msg[i].pkts <= MaxPkts
  BY <1>3, MpqParams DEF MpqType, Metas
<1> QED
  BY <1>1, <1>2, <1>4 DEF OfKind

(* The packets given to a payload handler.                                 *)
LEMMA PayloadPkts ==
  ASSUME NEW i, NEW n, msg[i].pkts - mpq[i].length = n
  PROVE  Pkts(PayloadPart(i)) = 1 .. n
<1>1. \A p : PayloadTask(i, p).pkt = p
  BY DEF PayloadTask
<1>2. PayloadPart(i) = {PayloadTask(i, p) : p \in 1 .. n}
  BY DEF PayloadPart
<1>3. Pkts(PayloadPart(i)) = {t.pkt : t \in {PayloadTask(i, p) : p \in 1 .. n}}
  BY <1>2 DEF Pkts
<1> QED
  BY <1>1, <1>3

(* Header before payloads before completion.                               *)
THEOREM Order == ASSUME Reuse = FALSE PROVE Spec => []HandlerOrder
<1>1. IInv => HandlerOrder
  <2> SUFFICES ASSUME IInv, NEW i \in MPQ
               PROVE  /\ OfKind(Started(i), "Payload") # {} /\ msg[i].meta.hh =>
                           /\ OfKind(Started(i), "Header") # {}
                           /\ OfKind(Started(i), "Header") \subseteq done[i]
                      /\ OfKind(Started(i), "Completion") # {} =>
                           /\ ~ msg[i].open
                           /\ Pkts(OfKind(Started(i), "Payload")) = 1 .. msg[i].pkts
                           /\ OfKind(Started(i), "Payload") \subseteq done[i]
    BY DEF HandlerOrder
  <2>1. /\ OfKind(Started(i), "Header") = HeaderPart(i)
        /\ OfKind(Started(i), "Payload") = PayloadPart(i)
        /\ OfKind(Started(i), "Completion") = CompletionPart(i)
        /\ mpq[i].length \in Nat /\ msg[i].pkts \in Nat /\ mpq[i].state \in MpqStates
        /\ MessageOK(i) /\ OutstandingOK(i)
        /\ HeaderPart(i) \cup PayloadPart(i) \cup CompletionPart(i) = Outstanding(i) \cup done[i]
    BY StartedKinds DEF MpqInv, StartedOK, Started
  <2>2. ASSUME PayloadPart(i) # {}, msg[i].meta.hh
        PROVE  HeaderPart(i) # {} /\ HeaderPart(i) \subseteq done[i]
    <3>1. msg[i].pkts - mpq[i].length >= 1
      BY <2>1, <2>2 DEF PayloadPart
    <3>2. mpq[i].state \notin {"Header", "HeaderRunning"} /\ msg[i].pkts > 0
      BY <2>1, <3>1 DEF MessageOK
    <3>3. HeaderPart(i) = {HeaderTask}
      BY <2>2, <3>2 DEF HeaderPart
    <3>4. HeaderTask \notin Outstanding(i)
      BY <2>1, <3>2 DEF OutstandingOK, MpqStates, HeaderTask, CompletionTask
    <3> QED
      BY <2>1, <3>3, <3>4
  <2>3. ASSUME CompletionPart(i) # {}
        PROVE  /\ ~ msg[i].open /\ Pkts(PayloadPart(i)) = 1 .. msg[i].pkts
               /\ PayloadPart(i) \subseteq done[i]
    <3>1. mpq[i].state \in {"Free", "CompletionRunning"}
      BY <2>3 DEF CompletionPart
    <3>2. ~ msg[i].open /\ mpq[i].length = 0
      BY <2>1, <3>1 DEF MessageOK
    <3>3. msg[i].pkts - mpq[i].length = msg[i].pkts
      BY <2>1, <3>2
    <3>4. Pkts(PayloadPart(i)) = 1 .. msg[i].pkts
      BY <3>3, PayloadPkts
    <3>5. Outstanding(i) \cap PayloadPart(i) = {}
      BY <2>1, <3>1 DEF OutstandingOK, CompletionTask, PayloadPart, PayloadTask
    <3> QED
      BY <2>1, <3>2, <3>4, <3>5
  <2> QED
    BY <2>1, <2>2, <2>3
<1> QED
  BY <1>1, Invariance, PTL

(* What a free MPQ has done.                                               *)
LEMMA FreeDone ==
  ASSUME IInv, NEW i \in MPQ, mpq[i].state = "Free"
  PROVE  /\ done[i] = Started(i)
         /\ msg[i].pkts - mpq[i].length = msg[i].pkts
         /\ HeaderPart(i) = IF msg[i].pkts > 0 /\ msg[i].meta.hh THEN {HeaderTask} ELSE {}
         /\ CompletionPart(i) = IF msg[i].pkts > 0 /\ msg[i].meta.th
                                THEN {CompletionTask(i)} ELSE {}
<1>1. mpq[i].length = 0 /\ msg[i].pkts \in Nat /\ Outstanding(i) = {}
  BY StartedKinds DEF MpqInv, MessageOK, OutstandingOK
<1> QED
  BY <1>1 DEF Started, HeaderPart, CompletionPart

(* A message that has ended ran exactly the handlers it brought.           *)
THEOREM Handled == ASSUME Reuse = FALSE PROVE Spec => []AllHandled
<1>1. IInv => AllHandled
  <2> SUFFICES ASSUME IInv, NEW i \in MPQ, mpq[i].state = "Free", msg[i].pkts > 0
               PROVE  /\ Pkts(OfKind(done[i], "Payload")) = 1 .. msg[i].pkts
                      /\ Pkts(OfKind(done[i], "Header")) = IF msg[i].meta.hh THEN {1} ELSE {}
                      /\ Pkts(OfKind(done[i], "Completion")) =
                            IF msg[i].meta.th THEN {msg[i].pkts} ELSE {}
                      /\ \A t \in done[i] : t.fun
    BY DEF AllHandled
  <2>1. /\ OfKind(done[i], "Header") = HeaderPart(i)
        /\ OfKind(done[i], "Payload") = PayloadPart(i)
        /\ OfKind(done[i], "Completion") = CompletionPart(i)
        /\ done[i] = HeaderPart(i) \cup PayloadPart(i) \cup CompletionPart(i)
    BY StartedKinds, FreeDone DEF MpqInv, StartedOK
  <2>2. Pkts(PayloadPart(i)) = 1 .. msg[i].pkts
    BY FreeDone, PayloadPkts
  <2>3. Pkts(HeaderPart(i)) = IF msg[i].meta.hh THEN {1} ELSE {}
    <3>1. HeaderPart(i) = IF msg[i].meta.hh THEN {HeaderTask} ELSE {}
      BY FreeDone
    <3>2. Pkts({HeaderTask}) = {1} /\ Pkts({}) = {}
      BY DEF Pkts, HeaderTask
    <3> QED
      BY <3>1, <3>2
  <2>4. Pkts(CompletionPart(i)) = IF msg[i].meta.th THEN {msg[i].pkts} ELSE {}
    <3>1. CompletionPart(i) = IF msg[i].meta.th THEN {CompletionTask(i)} ELSE {}
      BY FreeDone
    <3>2. Pkts({CompletionTask(i)}) = {msg[i].pkts} /\ Pkts({}) = {}
      BY DEF Pkts, CompletionTask
    <3> QED
      BY <3>1, <3>2
  <2>5. \A t \in done[i] : t.fun
    BY <2>1 DEF HeaderPart, HeaderTask, PayloadPart, PayloadTask, CompletionPart, CompletionTask
  <2> QED
    BY <2>1, <2>2, <2>3, <2>4, <2>5
<1> QED
  BY <1>1, Invariance, PTL

(* The NIC has all packets of a message back exactly when its MPQ is free. *)
THEOREM GivenBack == ASSUME Reuse = FALSE PROVE Spec => []PacketsGivenBack
<1>1. IInv => PacketsGivenBack
  <2> SUFFICES ASSUME IInv, NEW i \in MPQ
               PROVE  /\ held[i] = (1 .. msg[i].pkts) \ Pkts({t \in done[i] : t.trigger})
                      /\ mpq[i].state = "Free" <=> ~ msg[i].open /\ held[i] = {}
    BY DEF PacketsGivenBack
  <2>1. HeldOK(i) /\ MessageOK(i) /\ msg[i].pkts \in Nat /\ msg[i].meta.th \in BOOLEAN
    BY StartedKinds DEF MpqInv
  <2>2. ASSUME mpq[i].state = "Free" PROVE ~ msg[i].open /\ held[i] = {}
    <3>1. ~ msg[i].open
      BY <2>1, <2>2 DEF MessageOK
    <3>2. done[i] = HeaderPart(i) \cup PayloadPart(i) \cup CompletionPart(i)
      BY <2>2, FreeDone, StartedKinds DEF MpqInv, StartedOK
    <3>3. ASSUME NEW p \in 1 .. msg[i].pkts
          PROVE  \E t \in done[i] : t.trigger /\ t.pkt = p
      <4>1. CASE msg[i].meta.th /\ p = msg[i].pkts
        <5>1. CompletionTask(i) \in done[i]
          BY <2>1, <2>2, <3>2, <3>3, <4>1, FreeDone
        <5> QED
          BY <4>1, <5>1 DEF CompletionTask
      <4>2. CASE ~ (msg[i].meta.th /\ p = msg[i].pkts)
        <5>1. PayloadTask(i, p) \in done[i]
          BY <2>2, <3>2, FreeDone DEF PayloadPart
        <5> QED
          BY <4>2, <5>1 DEF PayloadTask
      <4> QED
        BY <4>1, <4>2
    <3> QED
      BY <2>1, <3>1, <3>3 DEF HeldOK, Pkts
  <2> QED
    BY <2>1, <2>2, BusyHeld DEF HeldOK
<1> QED
  BY <1>1, Invariance, PTL

(* No task is emitted twice, whatever the scheduler's stalls.              *)
THEOREM Once == ASSUME Reuse = FALSE PROVE Spec => EachTaskOnce
<1>1. IInv => \A i \in MPQ : TaskValid /\ selected = i => TaskO \notin flying[i] \cup done[i]
  <2> SUFFICES ASSUME IInv, TaskValid, selected \in MPQ
               PROVE  TaskO \notin flying[selected] \cup done[selected]
    OBVIOUS
  <2>1. TaskO \in Outstanding(selected) /\ OutstandingOK(selected)
    BY DEF Outstanding, IInv, MpqInv
  <2> QED
    BY <2>1 DEF OutstandingOK, IInv, OutputOK
<1>2. IInv => [\A i \in MPQ : TaskTaken /\ selected = i =>
                                 TaskO \notin flying[i] \cup done[i]]_vars
  BY <1>1 DEF TaskTaken
<1> QED
  BY <1>2, Invariance, PTL DEF EachTaskOnce

(* The engine keeps to what PktQueues asks of whoever drives the FIFOs: it *)
(* pushes no full FIFO and pops no empty one.                              *)
THEOREM Drives == ASSUME Reuse = FALSE PROVE Spec => DrivesQueues
<1>1. Init => QueueInit
  BY DEF Init
<1>2. IInv /\ [Next]_vars => [QueueNext]_queueVars
  <2>1. CASE UNCHANGED vars
    BY <2>1 DEF vars
  <2>2. ASSUME IInv, Next PROVE QueueNext
    <3>1. PICK taskReady \in BOOLEAN, ptr \in MPQ, H \in HerInputs, F \in Feedbacks :
             (\A f \in F : f[2] \in flying[f[1]]) /\ Cycle(taskReady, H, F, ptr)
      BY <2>2 DEF Next
    <3> DEFINE S == Sel(taskReady, ptr)
               P == {h.mpq : h \in H}
               e == IF H = {} THEN 1 ELSE NewMsg(CHOOSE h \in H : TRUE).pkts
               pop == Popping(H, S, F, ptr)
    <3>2. /\ \A h \in H : HerReady(h.mpq) /\ MayDeliver(h)
          /\ Candidates # {} => ptr \in Candidates
          /\ QueueCycle(P, e, ptr, pop)
      BY <3>1 DEF Cycle, Sel, Memories
    <3>3. P \in {{}} \cup {{f} : f \in Fifos}
      BY DEF HerInputs, Hers, MPQ
    <3>4. \A f \in P : ~ Full(f)
      BY <3>2 DEF HerReady
    <3>5. e \in Elems
      <4>1. CASE H = {}
        BY <4>1, MpqParams
      <4>2. CASE H # {}
        <5>1. PICK h \in Hers : H = {h}
          BY <4>2 DEF HerInputs
        <5> QED
          BY <2>2, <3>2, <5>1, NewPktType
      <4> QED
        BY <4>1, <4>2
    <3>6. pop => queue[ptr] # <<>>
      <4>1. ptr \in S => Valid(ptr)
        BY <2>2, <3>2, SelValid
      <4> QED
        BY <2>2, <4>1, ValidQueued DEF Popping
    <3>7. ptr \in Fifos /\ pop \in BOOLEAN
      BY DEF MPQ, Popping
    <3> HIDE DEF P, e, pop
    <3> QED
      BY <3>2, <3>3, <3>4, <3>5, <3>6, <3>7 DEF QueueNext
  <2> QED
    BY <2>1, <2>2
<1> QED
  BY <1>1, <1>2, Invariance, PTL DEF Spec, DrivesQueues, QueueSpec
=============================================================================
