------------------------------ MODULE HpuDriver ------------------------------
(***************************************************************************)
(* hw/src/pkt_scheduler/hpu_driver.sv: what stands between one core and    *)
(* the cluster.  The task frontend takes a task, lets the core run its     *)
(* handler and sends the feedback; the command frontend gives every        *)
(* command of the handler an id and lets the core wait for it.             *)
(*                                                                         *)
(* One step is one clock cycle.  The environment: the core, which runs the *)
(* loop of sw/runtime/src/hpu.c; the DMA frontend of the cluster, which    *)
(* counts the unfinished transfers of this core; the command unit; and the *)
(* arbiter of cluster_scheduler.sv, which may be locked on this HPU.       *)
(***************************************************************************)
EXTENDS Naturals, Sequences, FiniteSets, Functions

CONSTANTS
  Tasks,           (* names for the tasks inside                           *)
  NumCmds,         (* NUM_CMDS: command ids                                *)
  NumBuffered,     (* NUM_BUFFERED_CMD                                     *)
  MaxOps,          (* bound: operations of a handler                       *)
  DmaWhileLocked   (* a handler may start a transfer while the arbiter is  *)
                   (* locked on the feedback of the one before             *)

ASSUME HpuParams ==
  /\ NumCmds \in Nat \ {0, 1}
  /\ NumBuffered \in Nat \ {0}
  /\ MaxOps \in Nat
  /\ DmaWhileLocked \in BOOLEAN

Ids == 0 .. NumCmds - 1
NoTask == "none"
ASSUME NoTaskIsNone == NoTask \notin Tasks

VARIABLES
  tfState,      (* state_q of the task frontend                            *)
  currentTask,  (* current_task_q                                          *)
  feedbackBuff, (* the feedback FIFO, of one entry                         *)
  locked,       (* the arbiter is locked on this HPU                       *)
  cfState,      (* state_q of the command frontend                         *)
  usedIds,      (* free_cmd_ids_q: the ids whose bit is 1, which are taken *)
  cmdId,        (* cmd_q.cmd_id.local_cmd_id                               *)
  cmdBuff,      (* the command FIFO                                        *)
  wtCmdIdx,     (* wt_cmd_idx_q                                            *)
  rdata,        (* rdata_q of the command frontend                         *)
  core,         (* what the core is doing: the access it waits for         *)
  ops,          (* commands, waits, tests and transfers of the handler     *)
  ticket,       (* the last command of the handler and what it knows of it *)
  dma,          (* unfinished transfers of this core: the tasks they serve *)
  sent,         (* ids of the commands in the command unit or beyond       *)
  issuer,       (* issuer[i]: the task of the unanswered command i         *)
  open          (* tasks taken and not fed back                            *)

tfVars  == <<tfState, currentTask, feedbackBuff, locked>>
cfVars  == <<cfState, usedIds, cmdId, cmdBuff, wtCmdIdx, rdata>>
envVars == <<core, ops, ticket, dma, sent, issuer, open>>
vars == <<tfVars, cfVars, envVars>>

NoTicket == [handle |-> 0, id |-> 0, answered |-> TRUE, delayed |-> FALSE]

Init ==
  /\ tfState = "Init" /\ currentTask = NoTask /\ feedbackBuff = <<>> /\ locked = FALSE
  /\ cfState = "Ready" /\ usedIds = {} /\ cmdId = 0 /\ cmdBuff = <<>>
  /\ wtCmdIdx = 0 /\ rdata = 0
  /\ core = "fetch" /\ ops = 0 /\ ticket = NoTicket
  /\ dma = <<>> /\ sent = {} /\ issuer = [i \in Ids |-> NoTask] /\ open = {}

The(S) == CHOOSE x \in S : TRUE

-----------------------------------------------------------------------------
(* The task frontend.  The core reads the address of the handler           *)
(* ("fetch"), which is granted once a task is there, and reads the         *)
(* doorbell at its end.  A trap ends the handler in the same way.          *)
TriggerFeedback == tfState = "Running" /\ core = "doorbell"
BuffFull == feedbackBuff # <<>>
(* Mutant: the doorbell pushes without looking.                            *)
BuffPushBlind == TriggerFeedback \/ (~ BuffFull /\ tfState = "SendingFeedback")
BuffPush == ~ BuffFull /\ (TriggerFeedback \/ tfState = "SendingFeedback")

(* disable_commands: a handler may not issue commands while the feedback   *)
(* of the one before is buffered.  Mutant: it may.                         *)
DisableNever == FALSE
DisableCommands == BuffFull

(* The next state, for the task offered (T, {} or one) and null handlers.  *)
NextTf(T, null) ==
  CASE tfState = "Init" -> IF core \in {"fetch", "doorbell"} THEN "Idle" ELSE "Init"
    [] tfState = "Idle" -> IF T = {} THEN "Idle"
                           ELSE IF null THEN "SendingFeedback" ELSE "Running"
    [] tfState = "Running" -> IF ~ TriggerFeedback THEN "Running"
                              ELSE IF BuffFull THEN "SendingFeedback" ELSE "Idle"
    [] tfState = "SendingFeedback" -> IF BuffFull THEN "SendingFeedback" ELSE "Idle"

(* can_send_feedback: no transfer unfinished, counting this cycle's start  *)
(* and completion, and no command id taken.                                *)
CanSendFeedback(D) == D = <<>> /\ usedIds = {}
FeedbackValid(D) == CanSendFeedback(D) /\ feedbackBuff # <<>>

(* The arbiter: it skips this HPU, holds its feedback for want of a ready  *)
(* scheduler, or takes it.  Once it holds it it is locked: it looks at the *)
(* request of that cycle (req_q) and not at the present one.               *)
Arbiter(D) == IF locked THEN {"hold", "take"}
              ELSE IF FeedbackValid(D) THEN {"skip", "hold", "take"} ELSE {"skip"}

TaskFrontend(T, null, D, arb) ==
  LET popped == arb = "take" /\ FeedbackValid(D)
      rest   == IF popped THEN Tail(feedbackBuff) ELSE feedbackBuff
  IN  /\ tfState' = NextTf(T, null)
      /\ currentTask' = IF tfState = "Idle" /\ T # {} THEN The(T) ELSE currentTask
      /\ feedbackBuff' = IF BuffPush THEN Append(rest, currentTask) ELSE rest
      /\ locked' = (arb = "hold")

-----------------------------------------------------------------------------
(* The command frontend.  R is {} or the id of the response of this cycle. *)
CmdIssued  == core = "issue"
WaitIssued == core = "wait"
TestIssued == core = "test"
CmdBuffFull == Len(cmdBuff) = NumBuffered
NoFreeIds == usedIds = Ids
(* cmd_idx: the first free id; with none free the counter gives the last.  *)
CmdIdx == IF NoFreeIds THEN NumCmds - 1
          ELSE CHOOSE i \in Ids \ usedIds : \A j \in Ids \ usedIds : i <= j

(* Mutants: the response of this very cycle is missed; the id of an        *)
(* earlier wait is looked up.                                              *)
WtCmdFinishedEarlier(R) == ticket.handle \notin usedIds
WtCmdFinishedStale(R) == wtCmdIdx \notin usedIds \/ wtCmdIdx \in R
WtCmdFinished(R) == ticket.handle \notin usedIds \/ ticket.handle \in R

(* Where a new command goes.                                               *)
IssueState == IF DisableCommands THEN "Disabled"
              ELSE IF NoFreeIds THEN "WaitingID"
              ELSE IF CmdBuffFull THEN "WaitingBuffer" ELSE "Ready"

NextCf(R) ==
  CASE cfState = "Ready" -> IF CmdIssued THEN IssueState
                            ELSE IF WaitIssued /\ ~ WtCmdFinished(R) THEN "Waiting"
                            ELSE "Ready"
    [] cfState = "Disabled" -> IssueState
    [] cfState = "WaitingID" -> IF R = {} THEN "WaitingID"
                                ELSE IF CmdBuffFull THEN "WaitingBuffer" ELSE "Ready"
    [] cfState = "WaitingBuffer" -> IF CmdBuffFull THEN "WaitingBuffer" ELSE "Ready"
    [] cfState = "Waiting" -> IF wtCmdIdx \in R THEN "Ready" ELSE "Waiting"

AssignId == /\ cfState = "Disabled" \/ (cfState = "Ready" /\ CmdIssued)
            /\ IssueState \in {"Ready", "WaitingBuffer"}

(* A response frees its id, except in WaitingID, where the blocked command *)
(* takes it over.  Mutant: there too.                                      *)
NextUsedAlways(R) == (usedIds \cup (IF AssignId THEN {CmdIdx} ELSE {})) \ R
NextUsed(R) == (usedIds \cup (IF AssignId THEN {CmdIdx} ELSE {}))
                  \ (IF cfState = "WaitingID" THEN {} ELSE R)

NextCmdId(R) == IF cfState = "WaitingID" /\ R # {} THEN The(R)
                ELSE IF AssignId THEN CmdIdx ELSE cmdId

(* The handle the core reads when its access is granted.  It is set in     *)
(* Ready only, not when a blocked command gets its id.  A test reads       *)
(* whether the id tested (wdata) is free.                                  *)
NextRdata(R, wdata) ==
  CASE cfState = "Ready" /\ CmdIssued -> CmdIdx
    [] cfState = "Ready" /\ TestIssued -> IF wdata \notin usedIds \/ wdata \in R THEN 1 ELSE 0
    [] cfState = "Waiting" /\ R # {} -> The(R)
    [] OTHER -> rdata

Granted(R) == NextCf(R) = "Ready"
CmdPush(R) == CmdIssued /\ Granted(R) /\ ~ CmdBuffFull

CmdFrontend(R, wdata, pop) ==
  LET rest == IF pop THEN Tail(cmdBuff) ELSE cmdBuff
  IN  /\ cfState' = NextCf(R)
      /\ usedIds' = NextUsed(R)
      /\ cmdId' = NextCmdId(R)
      /\ cmdBuff' = IF CmdPush(R) THEN Append(rest, NextCmdId(R)) ELSE rest
      /\ wtCmdIdx' = IF WaitIssued THEN ticket.handle
                     ELSE IF TestIssued THEN wdata ELSE wtCmdIdx
      /\ rdata' = NextRdata(R, wdata)
      /\ sent' = (sent \cup (IF pop THEN {Head(cmdBuff)} ELSE {})) \ R
      /\ issuer' = [i \in Ids |-> IF CmdPush(R) /\ i = NextCmdId(R) THEN currentTask
                                  ELSE IF i \in R THEN NoTask ELSE issuer[i]]

-----------------------------------------------------------------------------
(* The core: hpu_run and a handler that computes ("stay"), issues a        *)
(* command, waits for its last one (at once when it has issued none),      *)
(* tests one, starts a transfer, or ends.  A test is a read, and the id    *)
(* tested is what the bus carries for the data of a read: any.             *)
Choices ==
  IF core # "handler" THEN {"stay"}
  ELSE {"stay", "end"} \cup
       (IF ops = MaxOps THEN {}
        ELSE {"issue", "wait", "test"} \cup (IF locked /\ ~ DmaWhileLocked THEN {} ELSE {"dma"}))

Core(act, R) ==
  /\ core' = CASE core = "fetch" -> IF tfState = "Running" THEN "handler" ELSE "fetch"
               [] core = "doorbell" -> IF TriggerFeedback THEN "fetch" ELSE "doorbell"
               [] core = "handler" -> CASE act = "end" -> "doorbell"
                                        [] act \in {"issue", "wait", "test"} -> act
                                        [] OTHER -> "handler"
               [] OTHER -> IF Granted(R) THEN "handler" ELSE core
  /\ ops' = IF core = "fetch" THEN 0
            ELSE IF act \in {"issue", "wait", "test", "dma"} THEN ops + 1 ELSE ops

(* What the handler knows of its last command: the handle; and, behind its *)
(* back, the id the command has, whether it has been answered, and whether *)
(* it was blocked before it got its id.                                    *)
NextTicket(R) ==
  LET delayed == \/ cfState \in {"Disabled", "WaitingID"}
                 \/ cfState = "WaitingBuffer" /\ ticket.delayed
  IN  CASE core = "fetch" -> NoTicket
        [] CmdPush(R) -> [handle |-> NextRdata(R, 0), id |-> NextCmdId(R),
                          answered |-> FALSE, delayed |-> delayed]
        [] OTHER -> [ticket EXCEPT !.answered = @ \/ ticket.id \in R,
                                   !.delayed = IF CmdIssued THEN delayed ELSE @]

Cycle(T, null, R, wdata, pop, done, arb, act) ==
  LET rest == IF done THEN Tail(dma) ELSE dma
      D    == IF act = "dma" THEN Append(rest, currentTask) ELSE rest
      fed  == IF arb = "take" THEN {Head(feedbackBuff)} ELSE {}
  IN  /\ arb \in Arbiter(D)
      /\ TaskFrontend(T, null, D, arb)
      /\ CmdFrontend(R, wdata, pop)
      /\ Core(act, R)
      /\ ticket' = NextTicket(R)
      /\ dma' = D
      /\ open' = (open \cup (IF tfState = "Idle" THEN T ELSE {})) \ fed

AtMostOne(S) == {{}} \cup {{x} : x \in S}
Offered == IF tfState = "Idle" THEN Tasks \ open ELSE {}

Next ==
  \E T \in AtMostOne(Offered), R \in AtMostOne(sent),
     wdata \in IF TestIssued THEN Ids ELSE {0},
     pop \in {FALSE} \cup (IF cmdBuff # <<>> THEN {TRUE} ELSE {}),
     done \in {FALSE} \cup (IF dma # <<>> THEN {TRUE} ELSE {}),
     arb \in {"skip", "hold", "take"}, act \in Choices, null \in BOOLEAN :
    /\ null => T # {}
    /\ Cycle(T, null, R, wdata, pop, done, arb, act)

Spec == Init /\ [][Next]_vars

(* Fairness: the clock ticks; handlers end; the command unit takes every   *)
(* command and answers it; transfers complete; and the arbiter, which is   *)
(* round-robin, takes a feedback that stays on offer.                      *)
Fairness ==
  /\ WF_vars(Next)
  /\ []<>(core # "handler")
  /\ []<>(cmdBuff = <<>>) \/ []<><<sent' \ sent # {}>>_vars
  /\ \A i \in Ids : []<>(i \notin sent)
  /\ \/ []<>(dma = <<>>)
     \/ []<><<dma # <<>> /\ dma' \in {Tail(dma), Append(Tail(dma), currentTask)}>>_vars
  /\ []<>(feedbackBuff = <<>> \/ usedIds # {} \/ dma # <<>>) \/ []<><<open \ open' # {}>>_vars
FairSpec == Spec /\ Fairness

-----------------------------------------------------------------------------
Current == IF tfState \in {"Running", "SendingFeedback"} THEN {currentTask} ELSE {}
Held == IF cfState = "WaitingBuffer" THEN {cmdId} ELSE {}

TypeOK ==
  /\ tfState \in {"Init", "Idle", "Running", "SendingFeedback"}
  /\ currentTask \in Tasks \cup {NoTask}
  /\ feedbackBuff \in Seq(Tasks) /\ Len(feedbackBuff) <= 1
  /\ locked \in BOOLEAN
  /\ cfState \in {"Disabled", "Ready", "WaitingBuffer", "WaitingID", "Waiting"}
  /\ usedIds \subseteq Ids /\ cmdId \in Ids
  /\ cmdBuff \in Seq(Ids) /\ Len(cmdBuff) <= NumBuffered
  /\ wtCmdIdx \in Ids /\ rdata \in Ids
  /\ core \in {"fetch", "handler", "issue", "wait", "test", "doorbell"}
  /\ ops \in 0 .. MaxOps
  /\ ticket \in [handle : Ids, id : Ids, answered : BOOLEAN, delayed : BOOLEAN]
  /\ dma \in Seq(Tasks)
  /\ sent \subseteq Ids
  /\ issuer \in [Ids -> Tasks \cup {NoTask}]
  /\ open \subseteq Tasks

(* The taken ids are exactly those of the commands on their way, each of   *)
(* one command: in the FIFO, beyond it, or held for want of a place, also  *)
(* when a response and an issue fall in one cycle and when a blocked       *)
(* command takes over an id (hpu_driver.sv:773-785).                       *)
IdsExact ==
  /\ usedIds = Range(cmdBuff) \cup sent \cup Held
  /\ Cardinality(usedIds) = Len(cmdBuff) + Cardinality(sent) + Cardinality(Held)
  /\ \A i \in Ids : issuer[i] # NoTask <=> i \in Range(cmdBuff) \cup sent

(* A task is fed back once, and last: the tasks not fed back are the       *)
(* current one and the one whose feedback is buffered, and every command   *)
(* and transfer that is not finished is theirs (hpu_driver.sv:104,         *)
(* 264-306).                                                               *)
FedBackLast ==
  /\ open = Current \cup Range(feedbackBuff) /\ Current \cap Range(feedbackBuff) = {}
  /\ (Range(dma) \cup Range(issuer)) \ {NoTask} \subseteq open

(* When the core gets past a wait for its last command, that command has   *)
(* been answered, whatever happened to its id meanwhile                    *)
(* (hpu_driver.sv:660-664, 728-734, 763-767; spin_cmd_wait) -- unless the  *)
(* handle is another's: that of a command that was blocked before it got   *)
(* its id is the id of an older read (hpu_driver.sv:845-865 sets it too    *)
(* early), and is right by chance only.                                    *)
WaitMeansDone ==
  [][core = "wait" /\ core' = "handler" /\ (~ ticket.delayed \/ ticket.handle = ticket.id)
       => ticket'.answered]_vars

(* Every task taken is fed back: no blocked issue or wait is forgotten     *)
(* whatever the order of responses, and no feedback starves behind the     *)
(* commands and transfers of the next handler (hpu_driver.sv:264-306,      *)
(* 712-770).                                                               *)
AllFedBack == \A t \in Tasks : t \in open ~> t \notin open

(* A feedback the arbiter is locked on stays on offer until it is taken,   *)
(* which rr_arb_tree.sv:178-181 assumes of its requesters.                 *)
RequestKept == [][locked => FeedbackValid(dma')]_vars
=============================================================================
