----------------------------- MODULE MpqEngine -----------------------------
(***************************************************************************)
(* hw/src/pkt_scheduler/mpq_engine.sv: the message processing queues.      *)
(* Packets arrive as handler execution requests (HERs).  Each MPQ runs its *)
(* message's handlers in order -- header, then payloads, then completion   *)
(* -- by emitting tasks to the scheduler and collecting their feedback,    *)
(* and tells the NIC when the memory of a packet can be freed.             *)
(*                                                                         *)
(* One step is one clock cycle, in which up to three events happen at      *)
(* once: a HER is accepted, an MPQ is selected to emit a task, a feedback  *)
(* is accepted.  The queues are those of PktQueues.                        *)
(*                                                                         *)
(* The NIC side is the environment: it delivers the packets of a message   *)
(* in order, the last one flagged EOM.  The scheduler side returns each    *)
(* task's feedback once, after any delay and in any order.                 *)
(***************************************************************************)
EXTENDS PktQueues

CONSTANTS
  MaxPkts,    (* packets of a message, at most: Elems = 1..MaxPkts         *)
  Reuse       (* TRUE: the NIC may start a message on an MPQ whose         *)
              (* previous message it has not fully got back                *)

ASSUME MpqParams ==
  /\ MaxPkts \in Nat \ {0}
  /\ Elems = 1 .. MaxPkts
  /\ Reuse \in BOOLEAN

MPQ == Fifos

(* mpq_state_t, pspin_cfg_pkg.sv:243 *)
MpqStates == {"Free", "Header", "HeaderRunning", "Payload", "PayloadDraining",
              "Completion", "CompletionRunning"}

(* The handlers a message brings: whether hh_addr and th_addr are nonzero. *)
Metas == [hh : BOOLEAN, th : BOOLEAN]

(* A task: the state its MPQ was selected in, whether its handler_fun is   *)
(* nonzero, its packet, and whether its feedback frees the packet          *)
(* (trigger_feedback).                                                     *)
Kinds == {"Header", "Payload", "Completion"}
Tasks == [kind : MpqStates, fun : BOOLEAN, pkt : Elems, trigger : BOOLEAN]

VARIABLES
  mpq,        (* mpq_q: [state, length, in_flight, eom_seen, has_completion] *)
  meta,       (* i_mpq_meta_mem: the handlers of the message in each MPQ   *)
  engine,     (* state_q: "Idle", "Ready" or "Stalled"                     *)
  selected,   (* selected_mpq_q                                            *)
  outState,   (* mpq_out_state_q                                           *)
  trig,       (* new_task_triggers_feedback_q                              *)
  metaOut,    (* mpqmeta_read_mpq: the read port of the meta memory        *)
  taskQ,      (* task_q: the task held while the scheduler stalls          *)
  lock,       (* the MPQ the arbiter is locked on (LockIn), or {}          *)
  msg,        (* NIC: the message last started on each MPQ                 *)
  held,       (* NIC: packets of it delivered and not yet given back       *)
  flying,     (* tasks of each MPQ between task_o and feedback_i           *)
  done        (* tasks of the current message whose feedback came          *)

regs == <<mpq, meta, engine, selected, outState, trig, metaOut, taskQ, lock>>
env  == <<msg, held, flying, done>>
vars == <<queueVars, regs, env>>

MpqType == [state : MpqStates, length : Nat, in_flight : Nat,
            eom_seen : BOOLEAN, has_completion : BOOLEAN]

TypeOK ==
  /\ QueueTypeOK
  /\ mpq \in [MPQ -> MpqType]
  /\ meta \in [MPQ -> Metas]
  /\ engine \in {"Idle", "Ready", "Stalled"}
  /\ selected \in MPQ
  /\ outState \in MpqStates
  /\ trig \in BOOLEAN
  /\ metaOut \in Metas
  /\ taskQ \in Tasks
  /\ lock \in SUBSET MPQ
  /\ msg \in [MPQ -> [open : BOOLEAN, pkts : 0 .. MaxPkts, meta : Metas]]
  /\ held \in [MPQ -> SUBSET Elems]
  /\ flying \in [MPQ -> SUBSET Tasks]
  /\ done \in [MPQ -> SUBSET Tasks]

NoMeta == [hh |-> FALSE, th |-> FALSE]
FreeMpq == [state |-> "Free", length |-> 0, in_flight |-> 0,
            eom_seen |-> FALSE, has_completion |-> FALSE]

Init ==
  /\ QueueInit
  /\ mpq = [i \in MPQ |-> FreeMpq]
  /\ meta = [i \in MPQ |-> NoMeta]
  /\ engine = "Idle" /\ selected = 0 /\ outState = "Free" /\ trig = FALSE
  /\ metaOut = NoMeta
  /\ taskQ = [kind |-> "Free", fun |-> FALSE, pkt |-> 1, trigger |-> FALSE]
  /\ lock = {}
  /\ msg = [i \in MPQ |-> [open |-> FALSE, pkts |-> 0, meta |-> NoMeta]]
  /\ held = [i \in MPQ |-> {}]
  /\ flying = [i \in MPQ |-> {}]
  /\ done = [i \in MPQ |-> {}]

-----------------------------------------------------------------------------
(* The state a message starts in: header first when there is a handler.    *)
(* Mutant: the header handler is skipped.                                  *)
FirstStatePayload(hm) == "Payload"
FirstState(hm) == IF hm.hh THEN "Header" ELSE "Payload"

(* The payload just sent is the message's last.                            *)
LastPayload(m) == m.eom_seen /\ m.length = 1

(* The feedback just accepted is the last one outstanding.                 *)
(* Mutant: the count is off by one.                                        *)
NoneInFlight(m) == m.in_flight = 0
LastFeedback(m) == m.in_flight = 1

(* Mutant: the completion handler is skipped.                              *)
AfterPayloadsFree(m) == "Free"
AfterPayloads(m) == IF m.has_completion THEN "Completion" ELSE "Free"

(***************************************************************************)
(* mpq_fsm: the next state of an MPQ m given this cycle's events on it:    *)
(* her (a new HER), sent (selected for a task), fb (a feedback), and what  *)
(* the HER says: its meta and its EOM flag.                                *)
(***************************************************************************)
FsmState(m, her, sent, fb, hm) ==
  CASE m.state = "Free" /\ her          -> FirstState(hm)
    [] m.state = "Header" /\ sent       -> "HeaderRunning"
    [] m.state = "HeaderRunning" /\ fb  -> "Payload"
    [] m.state = "Payload" /\ sent /\ LastPayload(m)         -> "PayloadDraining"
    [] m.state = "PayloadDraining" /\ fb /\ LastFeedback(m) -> AfterPayloads(m)
    [] m.state = "Completion" /\ sent   -> "CompletionRunning"
    [] m.state = "CompletionRunning" /\ fb -> "Free"
    [] OTHER                            -> m.state

(* Mutants: every task counts as a packet; the payload state suffices.     *)
PopsAny(m, sent) == sent
PopsUnsent(m, sent) == m.state = "Payload"
PopsPayload(m, sent) == sent /\ m.state = "Payload"

FsmLength(m, her, sent) ==
  LET popping == PopsPayload(m, sent)
  IN  IF her /\ ~ popping THEN m.length + 1
      ELSE IF popping /\ ~ her THEN m.length - 1 ELSE m.length

(* Mutant: a task and a feedback in the same cycle do not cancel out.      *)
FsmInFlightSentWins(m, sent, fb) ==
  IF sent THEN m.in_flight + 1 ELSE IF fb THEN m.in_flight - 1 ELSE m.in_flight

FsmInFlight(m, sent, fb) ==
  IF sent /\ ~ fb THEN m.in_flight + 1
  ELSE IF fb /\ ~ sent THEN m.in_flight - 1 ELSE m.in_flight

Fsm(m, her, sent, fb, hm, eom) ==
  LET st == FsmState(m, her, sent, fb, hm)
  IN  [state          |-> st,
       length         |-> FsmLength(m, her, sent),
       in_flight      |-> FsmInFlight(m, sent, fb),
       eom_seen       |-> (m.eom_seen \/ (her /\ eom)) /\ st # "Free",
       has_completion |-> IF m.state = "Free" /\ her THEN hm.th ELSE m.has_completion]

(* mpq_valid, mpq_busy *)
Valid(i) == \/ mpq[i].state \in {"Header", "Completion"}
            \/ mpq[i].state = "Payload" /\ mpq[i].length > 0
Busy(i) == mpq[i].state # "Free"

(* her_ready_o.  Mutant: the aggregated readiness that line 380 comments   *)
(* out.                                                                    *)
HerReadyAny(i) == \E j \in MPQ : ~ Full(j)
HerReady(i) == ~ Full(i)

(* The head of the queue is removed with the selected task, except for the *)
(* header, which shares the first packet, and for the last packet of a     *)
(* message with a completion handler, which the completion reuses.  m is   *)
(* the MPQ before, n after the cycle.  Mutant: the last packet is not kept *)
(* for the completion.                                                     *)
FifoPopEarly(m, n) == m.state \in {"Payload", "Completion"}
FifoPop(m, n) ==
  \/ m.state = "Payload" /\ n.state = "Payload"
  \/ m.state = "Payload" /\ n.state = "PayloadDraining" /\ ~ n.has_completion
  \/ m.state = "Completion"

(* handler_fun of a task of kind k: the message's own handler for it, the  *)
(* null function when it has none.  (A payload handler is always given.)   *)
Fun(k, m) == \/ k = "Payload"
             \/ k = "Header" /\ m.hh
             \/ k = "Completion" /\ m.th

(* The task at the output.  In Ready the memories answer the read of the   *)
(* selection cycle; afterwards the registered copy is used.                *)
TaskValid == engine \in {"Ready", "Stalled"}
NewTask   == [kind    |-> outState,
              fun     |-> Fun(outState, metaOut),
              pkt     |-> dout,
              trigger |-> outState \in Kinds /\ trig]
TaskO     == IF engine = "Ready" THEN NewTask ELSE taskQ

-----------------------------------------------------------------------------
(* The engine accepts a new selection when the output register is empty or *)
(* being emptied (arb_ready).                                              *)
Accepting(taskReady) == engine = "Idle" \/ taskReady

(* The MPQs the round-robin arbiter may point to: the one it is locked on, *)
(* or any valid one.                                                       *)
Candidates == IF lock # {} THEN lock ELSE {i \in MPQ : Valid(i)}

(* Mutant: a task taken after a stall stays at the output.                 *)
EngineStateKept(taskReady, S) ==
  IF engine # "Idle" /\ ~ taskReady THEN "Stalled"
  ELSE IF S # {} THEN "Ready" ELSE IF engine = "Stalled" THEN "Stalled" ELSE "Idle"

EngineState(taskReady, S) ==
  IF engine # "Idle" /\ ~ taskReady THEN "Stalled"
  ELSE IF S # {} THEN "Ready" ELSE "Idle"

(***************************************************************************)
(* The NIC delivers a packet of a message on MPQ i: the next one of an     *)
(* open message, or the first one of a new message.  A NIC that does not   *)
(* reuse an MPQ early starts a message only when the last one was closed   *)
(* by its EOM and all of its packets were given back.                      *)
(***************************************************************************)
Hers == [mpq : MPQ, eom : BOOLEAN, meta : Metas]

NewMsg(h) ==
  IF msg[h.mpq].open
  THEN [msg[h.mpq] EXCEPT !.pkts = @ + 1, !.open = ~ h.eom]
  ELSE [open |-> ~ h.eom, pkts |-> 1, meta |-> h.meta]

MayDeliver(h) ==
  LET i == h.mpq IN
  /\ IF msg[i].open THEN h.meta = msg[i].meta ELSE Reuse \/ held[i] = {}
  /\ NewMsg(h).pkts = MaxPkts => h.eom

(***************************************************************************)
(* A clock cycle with the accepted HERs H, the selection S and the         *)
(* accepted feedbacks F (each {} or one element; F holds pairs of an MPQ   *)
(* and a task); ptr is the arbiter's output, which addresses the memories  *)
(* even when nothing is selected.                                          *)
(***************************************************************************)
HerOn(H, i)  == \E h \in H : h.mpq = i
FbOn(F, i)   == \E f \in F : f[1] = i

NextMpq(H, S, F, i) ==
  LET h == IF H = {} THEN [mpq |-> i, eom |-> FALSE, meta |-> NoMeta] ELSE CHOOSE h \in H : TRUE
  IN  Fsm(mpq[i], HerOn(H, i), i \in S, FbOn(F, i), h.meta, h.eom)

Popping(H, S, F, ptr) == ptr \in S /\ FifoPop(mpq[ptr], NextMpq(H, S, F, ptr))

Registers(taskReady, H, S, F, ptr) ==
  /\ mpq'      = [i \in MPQ |-> NextMpq(H, S, F, i)]
  /\ meta'     = [i \in MPQ |-> IF HerOn(H, i) /\ ~ Busy(i)
                                THEN (CHOOSE h \in H : TRUE).meta ELSE meta[i]]
  /\ engine'   = EngineState(taskReady, S)
  /\ selected' = IF S # {} THEN ptr ELSE selected
  /\ outState' = IF S # {} THEN mpq[ptr].state ELSE outState
  /\ trig'     = IF S # {} THEN Popping(H, S, F, ptr) ELSE trig
  /\ metaOut'  = IF S # {} THEN meta[ptr] ELSE metaOut
  /\ taskQ'    = TaskO
  /\ lock'     = IF ~ Accepting(taskReady) /\ Candidates # {} THEN {ptr} ELSE {}

(* The packet of a new HER is stored; the read port shows the head of the  *)
(* MPQ the arbiter points to.                                              *)
Memories(H, S, F, ptr) ==
  QueueCycle({h.mpq : h \in H},
             IF H = {} THEN 1 ELSE NewMsg(CHOOSE h \in H : TRUE).pkts,
             ptr, Popping(H, S, F, ptr))

(* The outside: the emitted task flies, the accepted feedback lands, and   *)
(* the NIC gets back the packet of a feedback with trigger_feedback        *)
(* (nic_feedback_valid_o).                                                 *)
Outside(taskReady, H, F) ==
  LET emitted(i) == IF TaskValid /\ taskReady /\ selected = i THEN {TaskO} ELSE {}
      landed(i)  == {f[2] : f \in {g \in F : g[1] = i}}
      fresh(i)   == HerOn(H, i) /\ ~ msg[i].open
  IN  /\ flying' = [i \in MPQ |-> (flying[i] \ landed(i)) \cup emitted(i)]
      /\ done'   = [i \in MPQ |-> (IF fresh(i) THEN {} ELSE done[i]) \cup landed(i)]
      /\ msg'    = [i \in MPQ |-> IF HerOn(H, i) THEN NewMsg(CHOOSE h \in H : TRUE)
                                                 ELSE msg[i]]
      /\ held'   = [i \in MPQ |->
                      (held[i] \ {t.pkt : t \in {u \in landed(i) : u.trigger}})
                        \cup {NewMsg(h).pkts : h \in {g \in H : g.mpq = i}}]

Cycle(taskReady, H, F, ptr) ==
  LET S == IF Accepting(taskReady) /\ Candidates # {} THEN {ptr} ELSE {}
  IN  /\ \A h \in H : HerReady(h.mpq) /\ MayDeliver(h)
      /\ Candidates # {} => ptr \in Candidates
      /\ Registers(taskReady, H, S, F, ptr)
      /\ Memories(H, S, F, ptr)
      /\ Outside(taskReady, H, F)

HerInputs == {{}} \cup {{h} : h \in Hers}
Feedbacks == {{}} \cup {{<<i, t>>} : i \in MPQ, t \in UNION {flying[j] : j \in MPQ}}

Next ==
  \E taskReady \in BOOLEAN, ptr \in MPQ, H \in HerInputs, F \in Feedbacks :
     /\ \A f \in F : f[2] \in flying[f[1]]
     /\ Cycle(taskReady, H, F, ptr)

Spec == Init /\ [][Next]_vars

(***************************************************************************)
(* Fairness.  The scheduler eventually accepts the task it is shown, the   *)
(* handlers of an MPQ that run eventually end, the round-robin arbiter     *)
(* passes over no valid MPQ forever, and the NIC goes on with a message it *)
(* has started (it holds a HER until it is accepted).  Each is weak or     *)
(* strong fairness of the cycles described by the primed condition, with   *)
(* ENABLED replaced by the state predicate it amounts to.                  *)
(***************************************************************************)
TaskTaken    == TaskValid /\ engine' # "Stalled"
Selected(i)  == engine' = "Ready" /\ selected' = i
Landed(i)    == \E t \in flying[i] : t \notin flying'[i]
Continued(i) == msg[i].open /\ msg'[i] # msg[i]

Fairness ==
  /\ []<>(~ TaskValid) \/ []<><<TaskTaken>>_vars
  /\ \A i \in MPQ :
       /\ <>[](i \notin Candidates)  \/ []<><<Selected(i)>>_vars
       /\ []<>(flying[i] = {})       \/ []<><<Landed(i)>>_vars
       /\ <>[](~ (msg[i].open /\ HerReady(i))) \/ []<><<Continued(i)>>_vars

FairSpec == Spec /\ Fairness

-----------------------------------------------------------------------------
(* The tasks of MPQ i on their way, the one at the output included; those  *)
(* whose handler has started or will; those of one kind; their packets.    *)
Outstanding(i) == flying[i] \cup IF TaskValid /\ selected = i THEN {TaskO} ELSE {}
Started(i)     == Outstanding(i) \cup done[i]
OfKind(T, k)   == {t \in T : t.kind = k}
Pkts(T)        == {t.pkt : t \in T}

(* The last packet stays queued for the completion handler.                *)
Retained(i) == mpq[i].state \in {"PayloadDraining", "Completion"} /\ mpq[i].has_completion

(* in_flight counts the tasks without feedback and length the queued       *)
(* packets still to be given to a payload handler, through every           *)
(* combination of simultaneous events (mpq_engine.sv:469-483); neither can *)
(* go negative, which the assertions at lines 428-436 are about.           *)
CountersAccounted ==
  \A i \in MPQ :
    /\ mpq[i].in_flight = Cardinality(Outstanding(i))
    /\ mpq[i].length + (IF Retained(i) THEN 1 ELSE 0) = Len(queue[i])

(* No payload handler is started before the message's header handler has   *)
(* ended; no completion handler before the payload handlers of all packets *)
(* have ended (the H-P-C state machine, mpq_engine.sv:499-549).            *)
HandlerOrder ==
  \A i \in MPQ :
    LET header     == OfKind(Started(i), "Header")
        payload    == OfKind(Started(i), "Payload")
        completion == OfKind(Started(i), "Completion")
    IN  /\ payload # {} /\ msg[i].meta.hh => header # {} /\ header \subseteq done[i]
        /\ completion # {} => /\ ~ msg[i].open
                              /\ Pkts(payload) = 1 .. msg[i].pkts
                              /\ payload \subseteq done[i]

(* The NIC gets back exactly the packets of the tasks that carried         *)
(* trigger_feedback, and has them all back exactly when the MPQ is free    *)
(* for another message: a message that frees its packets early lets the    *)
(* NIC overwrite a packet its completion handler still reads               *)
(* (mpq_engine.sv:143-147, 383-385).                                       *)
PacketsGivenBack ==
  \A i \in MPQ :
    /\ held[i] = (1 .. msg[i].pkts) \ Pkts({t \in done[i] : t.trigger})
    /\ mpq[i].state = "Free" <=> ~ msg[i].open /\ held[i] = {}

(* When an MPQ becomes free its message ran one payload handler per        *)
(* packet, the header handler on the first packet and the completion       *)
(* handler on the last one if it brought them, and no null handler.        *)
AllHandled ==
  \A i \in MPQ : mpq[i].state = "Free" /\ msg[i].pkts > 0 =>
     /\ Pkts(OfKind(done[i], "Payload")) = 1 .. msg[i].pkts
     /\ Pkts(OfKind(done[i], "Header")) = IF msg[i].meta.hh THEN {1} ELSE {}
     /\ Pkts(OfKind(done[i], "Completion")) = IF msg[i].meta.th THEN {msg[i].pkts} ELSE {}
     /\ \A t \in done[i] : t.fun

(* An MPQ the arbiter is locked on stays selectable until it is selected:  *)
(* what rr_arb_tree with LockIn demands of its requests (it asserts that   *)
(* no unserved request is deasserted).                                     *)
LockedStaysValid == \A i \in lock : Valid(i)

(* Every task is emitted once: none that flies, or whose feedback came, is *)
(* emitted again, also after a stall of the scheduler                      *)
(* (mpq_engine.sv:208-248).                                                *)
EachTaskOnce ==
  [][\A i \in MPQ : TaskTaken /\ selected = i => TaskO \notin flying[i] \cup done[i]]_vars

(* The engine never pushes to a full FIFO nor pops an empty one, and uses  *)
(* the queues only as PktQueues allows (mpq_engine.sv:140-147, 380).       *)
DrivesQueues == QueueSpec

(* Every message the NIC starts is eventually given back in full, on       *)
(* whatever MPQs the others run (mpq_engine.sv:186-205, 499-549).          *)
AllGivenBack == \A i \in MPQ : held[i] # {} ~> held[i] = {}

(* The assertion at mpq_engine.sv:424-426: when every message has ended    *)
(* (eos_i) and no MPQ is busy, the FIFOs are empty.                        *)
Eos == \A i \in MPQ : ~ msg[i].open
NonEmptyAssertion == Eos /\ (\A i \in MPQ : ~ Busy(i)) => \A i \in MPQ : queue[i] = <<>>
=============================================================================
