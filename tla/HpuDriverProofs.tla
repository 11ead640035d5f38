--------------------------- MODULE HpuDriverProofs ---------------------------
(***************************************************************************)
(* The safety properties of HpuDriver, for every number of tasks, command  *)
(* ids, buffered commands and operations of a handler.                     *)
(***************************************************************************)
EXTENDS HpuDriver, FiniteSetTheorems, WellFoundedInduction, TLAPS

(* The core is past its fetch only while its task runs; the command        *)
(* frontend is blocked only by the access the core waits for.              *)
CoreFollows ==
  /\ core # "fetch" => tfState = "Running"
  /\ tfState \in {"Running", "SendingFeedback"} => currentTask \in Tasks
  /\ cfState \in {"Disabled", "WaitingID", "WaitingBuffer"} => core = "issue"
  /\ cfState = "Waiting" => core = "wait" /\ wtCmdIdx = ticket.handle

OnTheWay == Range(cmdBuff) \cup sent

(* Every taken id is in one place: in the FIFO, where it is once, beyond   *)
(* it, or held by the blocked command.                                     *)
IdsApart ==
  /\ \A j, k \in DOMAIN cmdBuff : cmdBuff[j] = cmdBuff[k] => j = k
  /\ Range(cmdBuff) \cap sent = {}
  /\ Held \cap OnTheWay = {}
  /\ usedIds = OnTheWay \cup Held
  /\ \A i \in Ids : issuer[i] # NoTask <=> i \in OnTheWay

(* The last command, until it is answered, is on its way under the id the  *)
(* handle names, if it was not blocked before it got its id; one blocked   *)
(* after that has shown its id to the core.                                *)
TicketExact ==
  /\ ~ ticket.answered => ticket.id \in OnTheWay
  /\ core # "issue" /\ ~ ticket.delayed => ticket.handle = ticket.id
  /\ cfState = "WaitingBuffer" /\ ~ ticket.delayed => rdata = cmdId

CmdInv == TypeOK /\ CoreFollows /\ IdsApart /\ TicketExact

(* The arbiter is locked on a feedback that stays valid.                   *)
LockHolds == locked => dma = <<>> /\ usedIds = {} /\ feedbackBuff # <<>>

TaskInv == CmdInv /\ FedBackLast /\ LockHolds

-----------------------------------------------------------------------------
(* A set of natural numbers that is not empty has a least member.          *)
LEMMA LeastExists ==
  ASSUME NEW S \in SUBSET Nat, S # {}
  PROVE  \E x \in S : \A y \in S : x <= y
<1> DEFINE R == {ss \in Nat \X Nat : ss[1] < ss[2]}
<1>1. R = OpToRel(<, Nat)
  BY DEF OpToRel
<1>2. IsWellFoundedOn(R, Nat)
  BY <1>1, NatLessThanWellFounded
<1> HIDE DEF R
<1>3. PICK x \in S : \A y \in S : ~ (<<y, x>> \in R)
  BY <1>2, WFMin
<1>4. \A y \in S : ~ (y < x)
  BY <1>3 DEF R
<1> QED
  BY <1>3, <1>4

(* cmd_idx is a command id, and a free one if there is one: what the       *)
(* leading-zero counter finds (hpu_driver.sv:588-597).                     *)
LEMMA CmdIdxFree ==
  ASSUME usedIds \subseteq Ids
  PROVE  CmdIdx \in Ids /\ (~ NoFreeIds => CmdIdx \notin usedIds)
<1>1. CASE NoFreeIds
  BY <1>1, HpuParams DEF CmdIdx, Ids
<1>2. CASE ~ NoFreeIds
  <2> DEFINE S == Ids \ usedIds
  <2>1. S # {}
    BY <1>2 DEF NoFreeIds
  <2>2. S \in SUBSET Nat
    BY HpuParams DEF Ids
  <2>3. \E i \in S : \A j \in S : i <= j
    BY <2>1, <2>2, LeastExists
  <2>4. CmdIdx = CHOOSE i \in S : \A j \in S : i <= j
    BY <1>2 DEF CmdIdx
  <2>5. CmdIdx \in S
    BY <2>3, <2>4
  <2> QED
    BY <2>5
<1> QED
  BY <1>1, <1>2

(* What a push adds to a FIFO, and a pop takes from it.                    *)
LEMMA RangeAppend ==
  ASSUME NEW S, NEW s \in Seq(S), NEW x \in S
  PROVE  /\ Append(s, x) \in Seq(S) /\ Len(Append(s, x)) = Len(s) + 1
         /\ Range(Append(s, x)) = Range(s) \cup {x}
         /\ \A k \in DOMAIN Append(s, x) : Append(s, x)[k] = IF k = Len(s) + 1 THEN x ELSE s[k]
<1>1. /\ Append(s, x) \in Seq(S) /\ Len(Append(s, x)) = Len(s) + 1
      /\ DOMAIN Append(s, x) = 1 .. Len(s) + 1 /\ DOMAIN s = 1 .. Len(s) /\ Len(s) \in Nat
      /\ \A k \in 1 .. Len(s) + 1 : Append(s, x)[k] = IF k = Len(s) + 1 THEN x ELSE s[k]
  OBVIOUS
<1>2. Range(Append(s, x)) = Range(s) \cup {x}
  <2>1. \A y \in Range(Append(s, x)) : y \in Range(s) \cup {x}
    BY <1>1 DEF Range
  <2>2. \A y \in Range(s) : y \in Range(Append(s, x))
    <3>1. \A k \in DOMAIN s : k \in DOMAIN Append(s, x) /\ Append(s, x)[k] = s[k]
      BY <1>1
    <3> QED
      BY <3>1 DEF Range
  <2>3. x \in Range(Append(s, x))
    <3>1. Len(s) + 1 \in DOMAIN Append(s, x) /\ Append(s, x)[Len(s) + 1] = x
      BY <1>1
    <3> QED
      BY <3>1 DEF Range
  <2> QED
    BY <2>1, <2>2, <2>3
<1> QED
  BY <1>1, <1>2

(* What a pop takes from a queue.                                          *)
LEMMA RangeTail ==
  ASSUME NEW S, NEW s \in Seq(S), s # <<>>
  PROVE  /\ Tail(s) \in Seq(S) /\ Len(Tail(s)) = Len(s) - 1 /\ Head(s) \in S
         /\ Head(s) = s[1] /\ 1 \in DOMAIN s
         /\ Range(s) = Range(Tail(s)) \cup {Head(s)}
         /\ \A k \in DOMAIN Tail(s) : k + 1 \in DOMAIN s /\ Tail(s)[k] = s[k + 1]
<1>1. /\ Tail(s) \in Seq(S) /\ Len(Tail(s)) = Len(s) - 1 /\ Head(s) \in S /\ Head(s) = s[1]
      /\ DOMAIN Tail(s) = 1 .. Len(s) - 1 /\ DOMAIN s = 1 .. Len(s) /\ Len(s) \in Nat \ {0}
      /\ \A k \in 1 .. Len(s) - 1 : Tail(s)[k] = s[k + 1]
  OBVIOUS
<1>2. Range(s) = Range(Tail(s)) \cup {Head(s)}
  <2>1. \A y \in Range(Tail(s)) : y \in Range(s)
    <3>1. \A k \in DOMAIN Tail(s) : k + 1 \in DOMAIN s /\ Tail(s)[k] = s[k + 1]
      BY <1>1
    <3> QED
      BY <3>1 DEF Range
  <2>2. Head(s) \in Range(s)
    BY <1>1 DEF Range
  <2>3. ASSUME NEW k \in DOMAIN s
        PROVE  s[k] \in Range(Tail(s)) \cup {Head(s)}
    <3>1. CASE k = 1
      BY <1>1, <3>1
    <3>2. CASE k # 1
      <4>1. k - 1 \in DOMAIN Tail(s) /\ Tail(s)[k - 1] = s[k]
        BY <1>1, <3>2
      <4> QED
        BY <4>1 DEF Range
    <3> QED
      BY <3>1, <3>2
  <2> QED
    BY <2>1, <2>2, <2>3 DEF Range
<1> QED
  BY <1>1, <1>2

-----------------------------------------------------------------------------
(* The id a command gets in this cycle: a free one, or, when it waited for *)
(* one, that of the response.                                              *)
Gets(R) == (IF AssignId THEN {CmdIdx} ELSE {}) \cup (IF cfState = "WaitingID" THEN R ELSE {})

(* A command gets one id, which is then cmd_id: it goes into the FIFO with *)
(* it or keeps it in WaitingBuffer, and no other command has it            *)
(* (hpu_driver.sv:712-785).                                                *)
LEMMA OneIdEach ==
  ASSUME CmdInv, NEW R \in AtMostOne(sent)
  PROVE  /\ NextCmdId(R) \in Ids
         /\ Held \cup Gets(R) \in {{}, {NextCmdId(R)}}
         /\ (Held \cup Gets(R)) \cap OnTheWay \subseteq R
         /\ NextUsed(R) = (usedIds \ R) \cup Gets(R)
         /\ CmdPush(R) <=> CmdIssued /\ Granted(R)
         /\ CmdPush(R) => Held \cup Gets(R) = {NextCmdId(R)}
         /\ ~ CmdPush(R) =>
              Held \cup Gets(R) = IF NextCf(R) = "WaitingBuffer" THEN {NextCmdId(R)} ELSE {}
<1>1. /\ usedIds = OnTheWay \cup Held /\ Held \cap OnTheWay = {} /\ sent \subseteq OnTheWay
      /\ usedIds \subseteq Ids /\ cmdId \in Ids
      /\ cfState \in {"Disabled", "Ready", "WaitingBuffer", "WaitingID", "Waiting"}
      /\ cfState \in {"Disabled", "WaitingID", "WaitingBuffer"} => CmdIssued
      /\ cfState = "Waiting" => ~ CmdIssued
  BY DEF CmdInv, TypeOK, IdsApart, CoreFollows, OnTheWay, CmdIssued
<1>2. CmdIdx \in Ids /\ (~ NoFreeIds => CmdIdx \notin usedIds)
  BY <1>1, CmdIdxFree
<1>3. R = {} \/ R = {The(R)}
  <2>1. R = {} \/ \E r : R = {r}
    BY DEF AtMostOne
  <2> QED
    BY <2>1 DEF The
<1>4. R \subseteq sent
  BY DEF AtMostOne
<1>5. /\ IssueState \in {"Disabled", "WaitingID", "WaitingBuffer", "Ready"}
      /\ IssueState \in {"WaitingBuffer", "Ready"} => ~ NoFreeIds
      /\ IssueState = "Ready" => ~ CmdBuffFull
  BY DEF IssueState
<1>6. CASE (cfState = "Ready" /\ CmdIssued) \/ cfState = "Disabled"
  <2>1. NextCf(R) = IssueState /\ CmdIssued
    BY <1>1, <1>6 DEF NextCf
  <2>2. AssignId <=> IssueState \in {"WaitingBuffer", "Ready"}
    BY <1>6 DEF AssignId
  <2>3. Held = {} /\ Gets(R) = (IF AssignId THEN {CmdIdx} ELSE {})
        /\ NextCmdId(R) = (IF AssignId THEN CmdIdx ELSE cmdId)
        /\ NextUsed(R) = (usedIds \cup (IF AssignId THEN {CmdIdx} ELSE {})) \ R
    BY <1>6 DEF Held, Gets, NextCmdId, NextUsed
  <2>4. CmdPush(R) <=> IssueState = "Ready"
    BY <1>5, <2>1 DEF CmdPush, Granted
  <2>5. CASE AssignId
    BY <1>1, <1>2, <1>4, <1>5, <2>1, <2>2, <2>3, <2>4, <2>5 DEF Granted
  <2>6. CASE ~ AssignId
    BY <1>1, <1>2, <1>4, <1>5, <2>1, <2>2, <2>3, <2>4, <2>6 DEF Granted
  <2> QED
    BY <2>5, <2>6
<1>7. CASE (cfState = "Ready" /\ ~ CmdIssued) \/ cfState = "Waiting"
  <2>1. ~ AssignId /\ Held = {} /\ Gets(R) = {} /\ NextCmdId(R) = cmdId
        /\ NextUsed(R) = usedIds \ R /\ ~ CmdPush(R) /\ ~ CmdIssued
    BY <1>1, <1>7 DEF AssignId, Held, Gets, NextCmdId, NextUsed, CmdPush
  <2>2. NextCf(R) # "WaitingBuffer"
    BY <1>1, <1>7 DEF NextCf
  <2> QED
    BY <1>1, <2>1, <2>2
<1>8. CASE cfState = "WaitingID"
  <2>1. ~ AssignId /\ Held = {} /\ Gets(R) = R /\ NextUsed(R) = usedIds /\ CmdIssued
    BY <1>1, <1>8 DEF AssignId, Held, Gets, NextUsed
  <2>2. NextCmdId(R) = IF R # {} THEN The(R) ELSE cmdId
    BY <1>8, <2>1 DEF NextCmdId
  <2>3. NextCf(R) = IF R = {} THEN "WaitingID"
                    ELSE IF CmdBuffFull THEN "WaitingBuffer" ELSE "Ready"
    BY <1>8 DEF NextCf
  <2>4. CmdPush(R) <=> R # {} /\ ~ CmdBuffFull
    BY <2>1, <2>3 DEF CmdPush, Granted
  <2> QED
    BY <1>1, <1>3, <1>4, <2>1, <2>2, <2>3, <2>4 DEF Granted
<1>9. CASE cfState = "WaitingBuffer"
  <2>1. ~ AssignId /\ Held = {cmdId} /\ Gets(R) = {} /\ NextUsed(R) = usedIds \ R
        /\ NextCmdId(R) = cmdId /\ CmdIssued
    BY <1>1, <1>9 DEF AssignId, Held, Gets, NextUsed, NextCmdId
  <2>2. NextCf(R) = IF CmdBuffFull THEN "WaitingBuffer" ELSE "Ready"
    BY <1>9 DEF NextCf
  <2>3. CmdPush(R) <=> ~ CmdBuffFull
    BY <2>1, <2>2 DEF CmdPush, Granted
  <2> QED
    BY <1>1, <2>1, <2>2, <2>3 DEF Granted
<1> QED
  BY <1>1, <1>6, <1>7, <1>8, <1>9

(* The commands on their way after a cycle: those not answered in it, and  *)
(* the one pushed (hpu_driver.sv:598-648).                                 *)
Pushed(R) == IF CmdPush(R) THEN {NextCmdId(R)} ELSE {}

(* A cycle of the command frontend keeps ids in the command FIFO and on    *)
(* the way apart, each in one place and once.                              *)
LEMMA FifoStep ==
  ASSUME CmdInv, NEW R \in AtMostOne(sent), NEW wdata \in Ids,
         NEW pop \in BOOLEAN, pop => cmdBuff # <<>>, CmdFrontend(R, wdata, pop)
  PROVE  /\ cmdBuff' \in Seq(Ids) /\ Len(cmdBuff') <= NumBuffered
         /\ sent' \subseteq Ids /\ sent' \cap R = {}
         /\ OnTheWay' = (OnTheWay \ R) \cup Pushed(R)
         /\ Range(cmdBuff)' \cap sent' = {}
         /\ \A j, k \in DOMAIN cmdBuff' : cmdBuff'[j] = cmdBuff'[k] => j = k
<1> DEFINE rest == IF pop THEN Tail(cmdBuff) ELSE cmdBuff
           popped == IF pop THEN {Head(cmdBuff)} ELSE {}
           new == NextCmdId(R)
<1>1. /\ cmdBuff' = IF CmdPush(R) THEN Append(rest, new) ELSE rest
      /\ sent' = (sent \cup popped) \ R
  BY DEF CmdFrontend
<1>2. /\ cmdBuff \in Seq(Ids) /\ Len(cmdBuff) <= NumBuffered /\ sent \subseteq Ids
      /\ \A j, k \in DOMAIN cmdBuff : cmdBuff[j] = cmdBuff[k] => j = k
      /\ Range(cmdBuff) \cap sent = {}
  BY DEF CmdInv, TypeOK, IdsApart
<1>3. R \subseteq sent
  BY DEF AtMostOne
<1>4. /\ rest \in Seq(Ids) /\ Len(rest) <= Len(cmdBuff)
      /\ Range(cmdBuff) = Range(rest) \cup popped /\ Range(rest) \cap popped = {}
      /\ \A j, k \in DOMAIN rest : rest[j] = rest[k] => j = k
  <2>1. CASE pop
    <3>1. /\ rest = Tail(cmdBuff) /\ popped = {Head(cmdBuff)} /\ cmdBuff # <<>>
          /\ Len(cmdBuff) \in Nat
      BY <1>2, <2>1
    <3>2. /\ Tail(cmdBuff) \in Seq(Ids) /\ Len(Tail(cmdBuff)) = Len(cmdBuff) - 1
          /\ Head(cmdBuff) = cmdBuff[1] /\ 1 \in DOMAIN cmdBuff
          /\ Range(cmdBuff) = Range(Tail(cmdBuff)) \cup {Head(cmdBuff)}
          /\ \A k \in DOMAIN Tail(cmdBuff) :
               k + 1 \in DOMAIN cmdBuff /\ Tail(cmdBuff)[k] = cmdBuff[k + 1]
      BY <1>2, <3>1, RangeTail
    <3>3. \A k \in DOMAIN Tail(cmdBuff) : k \in Nat /\ k >= 1
      BY <3>2
    <3>4. \A j, k \in DOMAIN Tail(cmdBuff) : Tail(cmdBuff)[j] = Tail(cmdBuff)[k] => j = k
      <4>1. ASSUME NEW j \in DOMAIN Tail(cmdBuff), NEW k \in DOMAIN Tail(cmdBuff),
                   Tail(cmdBuff)[j] = Tail(cmdBuff)[k]
            PROVE  j + 1 = k + 1
        BY <1>2, <3>2, <4>1
      <4> QED
        BY <3>3, <4>1
    <3>5. Head(cmdBuff) \notin Range(Tail(cmdBuff))
      <4>1. \A k \in DOMAIN Tail(cmdBuff) : Tail(cmdBuff)[k] = Head(cmdBuff) => k + 1 = 1
        BY <1>2, <3>2
      <4> QED
        BY <3>3, <4>1 DEF Range
    <3>6. Len(Tail(cmdBuff)) <= Len(cmdBuff)
      <4>1. \A n \in Nat : n - 1 <= n
        OBVIOUS
      <4>2. Len(cmdBuff) \in Nat /\ Len(Tail(cmdBuff)) = Len(cmdBuff) - 1
        BY <3>1, <3>2
      <4> QED
        BY <4>1, <4>2, Zenon
    <3> HIDE DEF rest, popped
    <3> QED
      BY <3>1, <3>2, <3>4, <3>5, <3>6
  <2>2. CASE ~ pop
    BY <1>2, <2>2
  <2> QED
    BY <2>1, <2>2
<1>5. /\ new \in Ids
      /\ CmdPush(R) => new \notin OnTheWay \ R
  BY OneIdEach
<1> HIDE DEF rest, popped, new
<1>6. CASE CmdPush(R)
  <2>1. /\ cmdBuff' = Append(rest, new) /\ Pushed(R) = {new}
    BY <1>1, <1>6 DEF Pushed, new
  <2>2. /\ cmdBuff' \in Seq(Ids) /\ Len(cmdBuff') = Len(rest) + 1
        /\ Range(cmdBuff)' = Range(rest) \cup {new}
        /\ \A k \in DOMAIN cmdBuff' : cmdBuff'[k] = IF k = Len(rest) + 1 THEN new ELSE rest[k]
    <3>1. Range(cmdBuff)' = Range(Append(rest, new))
      BY <2>1 DEF Range
    <3> QED
      BY <1>4, <1>5, <2>1, <3>1, RangeAppend
  <2>3. Len(cmdBuff') <= NumBuffered
    BY <1>2, <1>4, <1>6, <2>2, HpuParams DEF CmdPush, CmdBuffFull
  <2>4. new \notin Range(rest) /\ new \notin sent'
    BY <1>1, <1>2, <1>3, <1>4, <1>5, <1>6 DEF OnTheWay
  <2>5. \A k \in DOMAIN cmdBuff' : k # Len(rest) + 1 => k \in DOMAIN rest
    BY <1>4, <2>2
  <2>6. \A j, k \in DOMAIN cmdBuff' : cmdBuff'[j] = cmdBuff'[k] => j = k
    BY <1>4, <2>2, <2>4, <2>5 DEF Range
  <2>7. Range(cmdBuff)' \cap sent' = {} /\ OnTheWay' = (OnTheWay \ R) \cup {new}
    BY <1>1, <1>2, <1>3, <1>4, <2>2, <2>4 DEF OnTheWay
  <2>8. sent' \subseteq Ids /\ sent' \cap R = {}
    <3>1. Range(cmdBuff) \subseteq Ids
      BY <1>2 DEF Range
    <3> QED
      BY <1>1, <1>2, <1>4, <3>1
  <2> QED
    BY <2>1, <2>2, <2>3, <2>6, <2>7, <2>8
<1>7. CASE ~ CmdPush(R)
  <2>1. cmdBuff' = rest /\ Pushed(R) = {} /\ Range(cmdBuff)' = Range(rest)
    BY <1>1, <1>7 DEF Pushed, Range
  <2>2. Range(cmdBuff)' \cap sent' = {} /\ OnTheWay' = OnTheWay \ R
    BY <1>1, <1>2, <1>3, <1>4, <2>1 DEF OnTheWay
  <2>3. sent' \subseteq Ids /\ sent' \cap R = {}
    <3>1. Range(cmdBuff) \subseteq Ids
      BY <1>2 DEF Range
    <3> QED
      BY <1>1, <1>2, <1>4, <3>1
  <2>4. Len(cmdBuff') <= NumBuffered
    BY <1>2, <1>4, <2>1, HpuParams
  <2> QED
    BY <1>4, <2>1, <2>2, <2>3, <2>4
<1> QED
  BY <1>6, <1>7

(* The ids stay apart in a cycle of the command frontend, whatever falls   *)
(* into it: an issue, a pop, a response (hpu_driver.sv:598-648, 712-785).  *)
LEMMA IdsStep ==
  ASSUME CmdInv, NEW R \in AtMostOne(sent), NEW wdata \in Ids,
         NEW pop \in BOOLEAN, pop => cmdBuff # <<>>, CmdFrontend(R, wdata, pop)
  PROVE  /\ IdsApart'
         /\ usedIds' \subseteq Ids /\ cmdId' \in Ids
         /\ issuer' \in [Ids -> Tasks \cup {NoTask}]
         /\ cfState' \in {"Disabled", "Ready", "WaitingBuffer", "WaitingID", "Waiting"}
         /\ \A i \in Ids : issuer'[i] \in {issuer[i], NoTask} \cup
                             (IF CmdPush(R) THEN {currentTask} ELSE {})
<1>1. /\ usedIds = OnTheWay \cup Held /\ Held \cap OnTheWay = {} /\ usedIds \subseteq Ids
      /\ issuer \in [Ids -> Tasks \cup {NoTask}]
      /\ \A i \in Ids : issuer[i] # NoTask <=> i \in OnTheWay
      /\ CmdPush(R) => currentTask \in Tasks /\ currentTask # NoTask
  BY NoTaskIsNone DEF CmdInv, TypeOK, IdsApart, CoreFollows, CmdPush, CmdIssued
<1>2. /\ cfState' = NextCf(R) /\ usedIds' = NextUsed(R) /\ cmdId' = NextCmdId(R)
      /\ issuer' = [i \in Ids |-> IF CmdPush(R) /\ i = NextCmdId(R) THEN currentTask
                                  ELSE IF i \in R THEN NoTask ELSE issuer[i]]
  BY DEF CmdFrontend
<1>3. /\ NextCmdId(R) \in Ids
      /\ Held \cup Gets(R) \in {{}, {NextCmdId(R)}}
      /\ (Held \cup Gets(R)) \cap OnTheWay \subseteq R
      /\ NextUsed(R) = (usedIds \ R) \cup Gets(R)
      /\ CmdPush(R) => Held \cup Gets(R) = {NextCmdId(R)} /\ Granted(R)
      /\ ~ CmdPush(R) =>
           Held \cup Gets(R) = IF NextCf(R) = "WaitingBuffer" THEN {NextCmdId(R)} ELSE {}
  BY OneIdEach
<1>4. R \subseteq OnTheWay
  BY DEF AtMostOne, OnTheWay
<1>5. /\ OnTheWay' = (OnTheWay \ R) \cup Pushed(R) /\ Range(cmdBuff)' \cap sent' = {}
      /\ \A j, k \in DOMAIN cmdBuff' : cmdBuff'[j] = cmdBuff'[k] => j = k
  BY FifoStep
<1>6. Held' = IF CmdPush(R) THEN {} ELSE Held \cup Gets(R)
  BY <1>2, <1>3 DEF Held, Granted
<1>7. Pushed(R) = IF CmdPush(R) THEN Held \cup Gets(R) ELSE {}
  BY <1>3 DEF Pushed
<1>8. Held' \cap OnTheWay' = {} /\ usedIds' = OnTheWay' \cup Held'
  BY <1>1, <1>2, <1>3, <1>4, <1>5, <1>6, <1>7
<1>9. usedIds' \subseteq Ids /\ cmdId' \in Ids
  BY <1>1, <1>2, <1>3
<1>10. issuer' \in [Ids -> Tasks \cup {NoTask}]
  BY <1>1, <1>2
<1>11. ASSUME NEW i \in Ids
       PROVE  issuer'[i] # NoTask <=> i \in OnTheWay'
  BY <1>1, <1>2, <1>5 DEF Pushed
<1>12. /\ cfState' \in {"Disabled", "Ready", "WaitingBuffer", "WaitingID", "Waiting"}
  BY <1>2 DEF CmdInv, TypeOK, NextCf, IssueState
<1>13. \A i \in Ids : issuer'[i] \in {issuer[i], NoTask} \cup
                        (IF CmdPush(R) THEN {currentTask} ELSE {})
  BY <1>2
<1> QED
  BY <1>5, <1>8, <1>9, <1>10, <1>11, <1>12, <1>13 DEF IdsApart

(* What the handler knows of its last command stays true in a cycle, and a *)
(* wait for it is granted when it has been answered (hpu_driver.sv:        *)
(* 660-664, 728-734, 763-767, 845-865).                                    *)
LEMMA TicketStep ==
  ASSUME CmdInv, NEW R \in AtMostOne(sent), NEW wdata \in Ids,
         NEW pop \in BOOLEAN, pop => cmdBuff # <<>>, CmdFrontend(R, wdata, pop),
         NEW act \in Choices, Core(act, R), ticket' = NextTicket(R)
  PROVE  /\ TicketExact'
         /\ ticket' \in [handle : Ids, id : Ids, answered : BOOLEAN, delayed : BOOLEAN]
         /\ rdata' \in Ids /\ wtCmdIdx' \in Ids
         /\ core = "wait" /\ core' = "handler" /\ (~ ticket.delayed \/ ticket.handle = ticket.id)
              => ticket'.answered
<1> DEFINE blocked == \/ cfState \in {"Disabled", "WaitingID"}
                      \/ cfState = "WaitingBuffer" /\ ticket.delayed
<1>1. /\ ticket \in [handle : Ids, id : Ids, answered : BOOLEAN, delayed : BOOLEAN]
      /\ usedIds \subseteq Ids /\ rdata \in Ids /\ wtCmdIdx \in Ids /\ cmdId \in Ids
      /\ {0, 1} \subseteq Ids
      /\ cfState \in {"Disabled", "Ready", "WaitingBuffer", "WaitingID", "Waiting"}
      /\ OnTheWay \subseteq usedIds
  BY HpuParams DEF CmdInv, TypeOK, Ids, IdsApart
<1>2. R \subseteq Ids /\ (R # {} => The(R) \in Ids)
  BY DEF AtMostOne, CmdInv, TypeOK, The
<1>3. CmdIdx \in Ids /\ NextCmdId(R) \in Ids
  BY <1>1, CmdIdxFree, OneIdEach
<1>4. NextRdata(R, wdata) \in Ids /\ NextRdata(R, 0) \in Ids
  BY <1>1, <1>2, <1>3 DEF NextRdata
<1>5. rdata' = NextRdata(R, wdata) /\ rdata' \in Ids /\ wtCmdIdx' \in Ids
  BY <1>1, <1>4 DEF CmdFrontend
<1>6. CmdPush(R) => core = "issue" /\ core' = "handler"
  BY DEF CmdPush, CmdIssued, Core
<1>7. ticket' = CASE core = "fetch" -> NoTicket
                  [] CmdPush(R) -> [handle |-> NextRdata(R, 0), id |-> NextCmdId(R),
                                    answered |-> FALSE, delayed |-> blocked]
                  [] OTHER -> [ticket EXCEPT !.answered = @ \/ ticket.id \in R,
                                             !.delayed = IF CmdIssued THEN blocked ELSE @]
  BY DEF NextTicket
<1>8. \/ core = "fetch" /\ ticket' = NoTicket
      \/ /\ CmdPush(R) /\ core # "fetch"
         /\ ticket' = [handle |-> NextRdata(R, 0), id |-> NextCmdId(R),
                       answered |-> FALSE, delayed |-> blocked]
      \/ /\ ~ CmdPush(R) /\ core # "fetch"
         /\ ticket' = [ticket EXCEPT !.answered = @ \/ ticket.id \in R,
                                     !.delayed = IF CmdIssued THEN blocked ELSE @]
  BY <1>6, <1>7
<1>9. ticket' \in [handle : Ids, id : Ids, answered : BOOLEAN, delayed : BOOLEAN]
  <2>1. NoTicket \in [handle : Ids, id : Ids, answered : BOOLEAN, delayed : BOOLEAN]
    BY <1>1 DEF NoTicket
  <2> DEFINE answered == ticket.answered \/ ticket.id \in R
             delayed == IF CmdIssued THEN blocked ELSE ticket.delayed
  <2>2. blocked \in BOOLEAN /\ answered \in BOOLEAN /\ delayed \in BOOLEAN
    BY <1>1
  <2>3. \A a \in BOOLEAN, d \in BOOLEAN : [ticket EXCEPT !.answered = a, !.delayed = d]
          \in [handle : Ids, id : Ids, answered : BOOLEAN, delayed : BOOLEAN]
    BY <1>1
  <2>4. [ticket EXCEPT !.answered = @ \/ ticket.id \in R,
                       !.delayed = IF CmdIssued THEN blocked ELSE @]
          \in [handle : Ids, id : Ids, answered : BOOLEAN, delayed : BOOLEAN]
    BY <2>2, <2>3, Zenon
  <2> HIDE DEF blocked
  <2>5. [handle |-> NextRdata(R, 0), id |-> NextCmdId(R), answered |-> FALSE,
         delayed |-> blocked]
          \in [handle : Ids, id : Ids, answered : BOOLEAN, delayed : BOOLEAN]
    BY <1>3, <1>4, <2>2
  <2> QED
    BY <1>8, <2>1, <2>4, <2>5
<1>10. ~ ticket'.answered => ticket'.id \in OnTheWay'
  <2>1. OnTheWay' = (OnTheWay \ R) \cup Pushed(R)
    BY FifoStep
  <2>2. CASE core = "fetch" /\ ticket' = NoTicket
    BY <2>2 DEF NoTicket
  <2>3. CASE CmdPush(R)
    BY <1>6, <1>8, <2>1, <2>3 DEF Pushed
  <2>4. CASE /\ ~ CmdPush(R)
             /\ ticket' = [ticket EXCEPT !.answered = @ \/ ticket.id \in R,
                                         !.delayed = IF CmdIssued THEN blocked ELSE @]
    <3>1. ticket'.id = ticket.id /\ (ticket'.answered = (ticket.answered \/ ticket.id \in R))
      BY <1>1, <2>4
    <3>2. ~ ticket.answered => ticket.id \in OnTheWay
      BY DEF CmdInv, TicketExact
    <3> QED
      BY <2>1, <3>1, <3>2
  <2> QED
    BY <1>8, <2>2, <2>3, <2>4
<1>11. cfState' = "WaitingBuffer" /\ ~ ticket'.delayed => rdata' = cmdId'
  <2>1. SUFFICES ASSUME cfState' = "WaitingBuffer"
                 PROVE  ~ ticket'.delayed => rdata' = cmdId'
    OBVIOUS
  <2>2. NextCf(R) = "WaitingBuffer" /\ cmdId' = NextCmdId(R)
    BY <2>1 DEF CmdFrontend
  <2>3. core = "issue" /\ ~ CmdPush(R)
    <3>1. cfState = "Ready" \/ cfState \in {"Disabled", "WaitingID", "WaitingBuffer"}
      BY <1>1, <2>2 DEF NextCf
    <3> QED
      BY <2>2, <3>1 DEF NextCf, CmdPush, Granted, CmdInv, CoreFollows, CmdIssued
  <2>4. ticket'.delayed = blocked
    BY <1>1, <1>8, <2>3 DEF CmdIssued
  <2>5. CASE cfState = "Ready"
    <3>1. IssueState = "WaitingBuffer" /\ CmdIssued
      BY <2>2, <2>3, <2>5 DEF NextCf, CmdIssued
    <3>2. AssignId /\ NextCmdId(R) = CmdIdx
      BY <2>5, <3>1 DEF AssignId, NextCmdId
    <3>3. NextRdata(R, wdata) = CmdIdx
      BY <2>5, <3>1 DEF NextRdata, CmdIssued, TestIssued
    <3> QED
      BY <1>5, <2>2, <3>2, <3>3
  <2>6. CASE cfState = "WaitingBuffer"
    <3>1. ~ AssignId /\ NextCmdId(R) = cmdId /\ NextRdata(R, wdata) = rdata
      BY <2>6 DEF AssignId, NextCmdId, NextRdata
    <3> QED
      BY <1>5, <2>2, <2>4, <2>6, <3>1 DEF CmdInv, TicketExact
  <2>7. CASE cfState \in {"Disabled", "WaitingID"}
    BY <2>4, <2>7
  <2>8. cfState # "Waiting"
    BY <2>3 DEF CmdInv, CoreFollows
  <2> QED
    BY <1>1, <2>5, <2>6, <2>7, <2>8
<1>12. core' # "issue" /\ ~ ticket'.delayed => ticket'.handle = ticket'.id
  <2>1. CASE core = "fetch" /\ ticket' = NoTicket
    BY <2>1 DEF NoTicket
  <2>2. CASE CmdPush(R)
    <3>1. /\ ticket'.handle = NextRdata(R, 0) /\ ticket'.id = NextCmdId(R)
          /\ ticket'.delayed = blocked
      <4> HIDE DEF blocked
      <4> QED
        BY <1>6, <1>8, <2>2
    <3>2. cfState = "Ready" => NextRdata(R, 0) = CmdIdx /\ NextCmdId(R) = CmdIdx
      <4>1. SUFFICES ASSUME cfState = "Ready"
                     PROVE  NextRdata(R, 0) = CmdIdx /\ NextCmdId(R) = CmdIdx
        OBVIOUS
      <4>2. CmdIssued /\ IssueState = "Ready"
        BY <2>2, <4>1 DEF CmdPush, Granted, NextCf
      <4>3. NextCmdId(R) = CmdIdx
        BY <4>1, <4>2 DEF AssignId, NextCmdId
      <4>4. NextRdata(R, 0) = CmdIdx
        BY <4>1, <4>2 DEF NextRdata, CmdIssued, TestIssued
      <4> QED
        BY <4>3, <4>4
    <3>3. cfState = "WaitingBuffer" => NextRdata(R, 0) = rdata /\ NextCmdId(R) = cmdId
      BY DEF NextRdata, NextCmdId, AssignId
    <3>4. cfState # "Waiting"
      BY <1>6, <2>2 DEF CmdInv, CoreFollows
    <3> QED
      BY <1>1, <3>1, <3>2, <3>3, <3>4 DEF CmdInv, TicketExact
  <2>3. CASE /\ ~ CmdPush(R) /\ core # "fetch"
             /\ ticket' = [ticket EXCEPT !.answered = @ \/ ticket.id \in R,
                                         !.delayed = IF CmdIssued THEN blocked ELSE @]
    <3>1. core = "issue" => core' = "issue"
      BY <2>3, OneIdEach DEF Core, CmdIssued
    <3>2. /\ ticket'.handle = ticket.handle /\ ticket'.id = ticket.id
          /\ core # "issue" => ticket'.delayed = ticket.delayed
      BY <1>1, <2>3 DEF CmdIssued
    <3> QED
      BY <3>1, <3>2 DEF CmdInv, TicketExact
  <2> QED
    BY <1>8, <2>1, <2>2, <2>3
<1>13. ASSUME core = "wait", core' = "handler", ~ ticket.delayed \/ ticket.handle = ticket.id
       PROVE  ticket'.answered
  <2>1. Granted(R) /\ WaitIssued /\ ~ CmdIssued
    BY <1>13 DEF Core, WaitIssued, CmdIssued
  <2>2. ticket.handle = ticket.id
    BY <1>13 DEF CmdInv, TicketExact
  <2>3. ticket.id \notin usedIds \/ ticket.id \in R
    <3>1. CASE cfState = "Ready"
      BY <2>1, <2>2, <3>1 DEF Granted, NextCf, WtCmdFinished
    <3>2. CASE cfState = "Waiting"
      BY <2>1, <2>2, <3>2 DEF Granted, NextCf, CmdInv, CoreFollows
    <3> QED
      BY <1>1, <1>13, <3>1, <3>2 DEF CmdInv, CoreFollows
  <2>4. ticket.answered \/ ticket.id \in R
    BY <1>1, <2>3 DEF CmdInv, TicketExact
  <2>5. ticket' = [ticket EXCEPT !.answered = @ \/ ticket.id \in R,
                                 !.delayed = IF CmdIssued THEN blocked ELSE @]
    BY <1>6, <1>8, <1>13
  <2> QED
    BY <1>1, <2>4, <2>5
<1> QED
  BY <1>5, <1>9, <1>10, <1>11, <1>12, <1>13 DEF TicketExact

-----------------------------------------------------------------------------
(* What a cycle may start from: the choices of Next.                       *)
Inputs(T, null, R, wdata, pop, done, arb, act) ==
  /\ T \in AtMostOne(Offered) /\ R \in AtMostOne(sent) /\ wdata \in Ids
  /\ pop \in BOOLEAN /\ (pop => cmdBuff # <<>>) /\ done \in BOOLEAN /\ (done => dma # <<>>)
  /\ arb \in {"skip", "hold", "take"} /\ act \in Choices
  /\ null \in BOOLEAN /\ (null => T # {})

(* Every step is a cycle with legal inputs.                                *)
LEMMA NextIsCycle ==
  ASSUME Next
  PROVE  \E T, null, R, wdata, pop, done, arb, act :
            /\ Inputs(T, null, R, wdata, pop, done, arb, act)
            /\ Cycle(T, null, R, wdata, pop, done, arb, act)
<1>1. 0 \in Ids
  BY HpuParams DEF Ids
<1>2. PICK T \in AtMostOne(Offered), R \in AtMostOne(sent),
           wdata \in IF TestIssued THEN Ids ELSE {0},
           pop \in {FALSE} \cup (IF cmdBuff # <<>> THEN {TRUE} ELSE {}),
           done \in {FALSE} \cup (IF dma # <<>> THEN {TRUE} ELSE {}),
           arb \in {"skip", "hold", "take"}, act \in Choices, null \in BOOLEAN :
             /\ null => T # {}
             /\ Cycle(T, null, R, wdata, pop, done, arb, act)
  BY DEF Next
<1>3. wdata \in Ids /\ pop \in BOOLEAN /\ (pop => cmdBuff # <<>>)
      /\ done \in BOOLEAN /\ (done => dma # <<>>)
  BY <1>1, <1>2
<1>4. Inputs(T, null, R, wdata, pop, done, arb, act)
  BY <1>2, <1>3 DEF Inputs
<1> QED
  BY <1>2, <1>4

(* The core and the task frontend go together: the core leaves its fetch   *)
(* when the task runs and comes back with its doorbell; only the access    *)
(* it waits for blocks the command frontend (hpu_driver.sv:264-306).       *)
LEMMA CoreStep ==
  ASSUME CmdInv, NEW T, NEW null, NEW R, NEW wdata, NEW pop, NEW done, NEW arb, NEW act,
         Inputs(T, null, R, wdata, pop, done, arb, act),
         Cycle(T, null, R, wdata, pop, done, arb, act)
  PROVE  /\ CoreFollows'
         /\ tfState' \in {"Init", "Idle", "Running", "SendingFeedback"}
         /\ currentTask' \in Tasks \cup {NoTask}
         /\ core' \in {"fetch", "handler", "issue", "wait", "test", "doorbell"}
         /\ ops' \in 0 .. MaxOps
<1>1. /\ T \in AtMostOne(Offered) /\ act \in Choices /\ (null => T # {})
      /\ tfState' = NextTf(T, null)
      /\ currentTask' = IF tfState = "Idle" /\ T # {} THEN The(T) ELSE currentTask
      /\ cfState' = NextCf(R)
      /\ wtCmdIdx' = IF WaitIssued THEN ticket.handle
                     ELSE IF TestIssued THEN wdata ELSE wtCmdIdx
      /\ ticket' = NextTicket(R) /\ Core(act, R)
  BY DEF Inputs, Cycle, TaskFrontend, CmdFrontend
<1>2. /\ tfState \in {"Init", "Idle", "Running", "SendingFeedback"}
      /\ currentTask \in Tasks \cup {NoTask}
      /\ cfState \in {"Disabled", "Ready", "WaitingBuffer", "WaitingID", "Waiting"}
      /\ core \in {"fetch", "handler", "issue", "wait", "test", "doorbell"}
      /\ ops \in 0 .. MaxOps /\ CoreFollows
  BY DEF CmdInv, TypeOK
<1>3. T # {} => The(T) \in Tasks
  BY <1>1 DEF AtMostOne, Offered, The
<1>4. act \in {"stay", "end", "issue", "wait", "test", "dma"}
      /\ (act # "stay" => core = "handler")
      /\ (act \in {"issue", "wait", "test", "dma"} => ops # MaxOps)
  BY <1>1 DEF Choices
<1>5. tfState' \in {"Init", "Idle", "Running", "SendingFeedback"}
  BY <1>1, <1>2 DEF NextTf
<1>6. currentTask' \in Tasks \cup {NoTask}
  BY <1>1, <1>2, <1>3
<1>7. core' \in {"fetch", "handler", "issue", "wait", "test", "doorbell"}
  BY <1>1, <1>2, <1>4 DEF Core
<1>8. ops' \in 0 .. MaxOps
  <2>1. ops' = IF core = "fetch" THEN 0
               ELSE IF act \in {"issue", "wait", "test", "dma"} THEN ops + 1 ELSE ops
    BY <1>1 DEF Core
  <2> QED
    BY <1>2, <1>4, <2>1, HpuParams
<1>9. core' # "fetch" => tfState' = "Running"
  <2>1. SUFFICES ASSUME core' # "fetch" PROVE tfState = "Running" /\ ~ TriggerFeedback
    BY <1>1, <1>2 DEF NextTf
  <2>2. CASE core = "fetch"
    BY <1>1, <2>1, <2>2 DEF Core, TriggerFeedback
  <2>3. CASE core # "fetch"
    BY <1>1, <1>2, <2>1, <2>3 DEF Core, CoreFollows, TriggerFeedback
  <2> QED
    BY <2>2, <2>3
<1>10. tfState' \in {"Running", "SendingFeedback"} => currentTask' \in Tasks
  <2>1. CASE tfState = "Idle"
    BY <1>1, <1>3, <2>1 DEF NextTf
  <2>2. CASE tfState # "Idle"
    BY <1>1, <1>2, <2>2 DEF NextTf, CoreFollows
  <2> QED
    BY <2>1, <2>2
<1>11. cfState' \in {"Disabled", "WaitingID", "WaitingBuffer"} => core' = "issue"
  <2>1. SUFFICES ASSUME NextCf(R) \in {"Disabled", "WaitingID", "WaitingBuffer"}
                 PROVE  core' = "issue"
    BY <1>1
  <2>2. core = "issue"
    BY <1>2, <2>1 DEF NextCf, CoreFollows, CmdIssued
  <2> QED
    BY <1>1, <2>1, <2>2 DEF Core, Granted
<1>12. cfState' = "Waiting" => core' = "wait" /\ wtCmdIdx' = ticket'.handle
  <2>1. SUFFICES ASSUME NextCf(R) = "Waiting"
                 PROVE  core' = "wait" /\ wtCmdIdx' = ticket'.handle
    BY <1>1
  <2>2. core = "wait"
    BY <1>2, <2>1 DEF NextCf, CoreFollows, WaitIssued, IssueState
  <2>3. core' = "wait"
    BY <1>1, <2>1, <2>2 DEF Core, Granted
  <2>4. wtCmdIdx' = ticket.handle
    BY <1>1, <2>2 DEF WaitIssued
  <2>5. ticket'.handle = ticket.handle
    <3>1. ticket' = [ticket EXCEPT !.answered = @ \/ ticket.id \in R, !.delayed = @]
      BY <1>1, <2>2 DEF NextTicket, CmdPush, CmdIssued
    <3> QED
      BY <3>1 DEF CmdInv, TypeOK
  <2> QED
    BY <2>3, <2>4, <2>5
<1> QED
  BY <1>5, <1>6, <1>7, <1>8, <1>9, <1>10, <1>11, <1>12 DEF CoreFollows

(* The transfers unfinished in a cycle, the one that starts included.      *)
Unfinished(done, act) ==
  LET rest == IF done THEN Tail(dma) ELSE dma
  IN  IF act = "dma" THEN Append(rest, currentTask) ELSE rest

(* The feedback FIFO holds one feedback at most: it is pushed only when it *)
(* is empty, so that a push and a pop never meet (hpu_driver.sv:104-128).  *)
LEMMA FeedbackStep ==
  ASSUME CmdInv, NEW T, NEW null, NEW R, NEW wdata, NEW pop, NEW done, NEW arb, NEW act,
         Inputs(T, null, R, wdata, pop, done, arb, act),
         Cycle(T, null, R, wdata, pop, done, arb, act)
  PROVE  LET D == Unfinished(done, act)
             popped == arb = "take" /\ FeedbackValid(D)
         IN  /\ dma' = D /\ D \in Seq(Tasks)
             /\ Range(D) \subseteq Range(dma) \cup (IF act = "dma" THEN {currentTask} ELSE {})
             /\ act = "dma" => core = "handler" /\ tfState = "Running" /\ D # <<>>
             /\ BuffPush => currentTask \in Tasks /\ feedbackBuff = <<>>
             /\ feedbackBuff' = IF BuffPush THEN <<currentTask>>
                                ELSE IF popped THEN <<>> ELSE feedbackBuff
             /\ feedbackBuff' \in Seq(Tasks) /\ Len(feedbackBuff') <= 1
             /\ locked' = (arb = "hold")
             /\ open' = (open \cup (IF tfState = "Idle" THEN T ELSE {}))
                           \ (IF arb = "take" THEN {Head(feedbackBuff)} ELSE {})
             /\ open' \subseteq Tasks
<1> DEFINE D == Unfinished(done, act)
           popped == arb = "take" /\ FeedbackValid(D)
           rest == IF done THEN Tail(dma) ELSE dma
<1>1. /\ T \in AtMostOne(Offered) /\ done \in BOOLEAN /\ (done => dma # <<>>)
      /\ act \in Choices
      /\ feedbackBuff' = IF BuffPush
                         THEN Append(IF popped THEN Tail(feedbackBuff) ELSE feedbackBuff,
                                     currentTask)
                         ELSE IF popped THEN Tail(feedbackBuff) ELSE feedbackBuff
      /\ locked' = (arb = "hold") /\ dma' = D
      /\ open' = (open \cup (IF tfState = "Idle" THEN T ELSE {}))
                    \ (IF arb = "take" THEN {Head(feedbackBuff)} ELSE {})
  BY DEF Inputs, Cycle, TaskFrontend, Unfinished
<1>2. /\ dma \in Seq(Tasks) /\ feedbackBuff \in Seq(Tasks) /\ Len(feedbackBuff) <= 1
      /\ open \subseteq Tasks /\ CoreFollows
  BY DEF CmdInv, TypeOK
<1>3. act = "dma" => core = "handler" /\ tfState = "Running" /\ currentTask \in Tasks
  BY <1>1, <1>2 DEF Choices, CoreFollows
<1>4. rest \in Seq(Tasks) /\ Range(rest) \subseteq Range(dma)
  <2>1. CASE done
    BY <1>1, <1>2, <2>1, RangeTail
  <2>2. CASE ~ done
    BY <1>2, <2>2
  <2> QED
    BY <1>1, <2>1, <2>2
<1>5. /\ D \in Seq(Tasks) /\ (act = "dma" => D # <<>>)
      /\ Range(D) \subseteq Range(dma) \cup (IF act = "dma" THEN {currentTask} ELSE {})
  <2>1. CASE act = "dma"
    <3>1. D = Append(rest, currentTask)
      BY <2>1 DEF Unfinished
    <3> HIDE DEF D, rest
    <3>2. /\ D \in Seq(Tasks) /\ Len(D) = Len(rest) + 1
          /\ Range(D) = Range(rest) \cup {currentTask}
      BY <1>3, <1>4, <2>1, <3>1, RangeAppend
    <3>3. D # <<>>
      BY <1>3, <1>4, <2>1, <3>1
    <3> QED
      BY <1>4, <2>1, <3>2, <3>3
  <2>2. CASE act # "dma"
    <3>1. D = rest
      BY <2>2 DEF Unfinished
    <3> HIDE DEF D, rest
    <3> QED
      BY <1>4, <2>2, <3>1
  <2> QED
    BY <2>1, <2>2
<1> HIDE DEF D, popped, rest
<1>6. BuffPush => currentTask \in Tasks /\ feedbackBuff = <<>>
  BY <1>2 DEF BuffPush, TriggerFeedback, BuffFull, CoreFollows
<1>7. popped => feedbackBuff # <<>> /\ Tail(feedbackBuff) = <<>>
  <2>1. popped => feedbackBuff # <<>>
    BY DEF popped, FeedbackValid
  <2>2. feedbackBuff # <<>> => Tail(feedbackBuff) = <<>>
    BY <1>2
  <2> QED
    BY <2>1, <2>2
<1>8. feedbackBuff' = IF BuffPush THEN <<currentTask>>
                      ELSE IF popped THEN <<>> ELSE feedbackBuff
  <2>1. Append(<<>>, currentTask) = <<currentTask>>
    OBVIOUS
  <2> QED
    BY <1>1, <1>6, <1>7, <2>1
<1>9. feedbackBuff' \in Seq(Tasks) /\ Len(feedbackBuff') <= 1
  <2>1. CASE BuffPush
    BY <1>6, <1>8, <2>1
  <2>2. CASE ~ BuffPush /\ popped
    BY <1>8, <2>2
  <2>3. CASE ~ BuffPush /\ ~ popped
    BY <1>2, <1>8, <2>3
  <2> QED
    BY <2>1, <2>2, <2>3
<1>10. open' \subseteq Tasks
  BY <1>1, <1>2 DEF AtMostOne, Offered
<1> QED
  BY <1>1, <1>3, <1>5, <1>6, <1>8, <1>9, <1>10 DEF D, popped

(* The command frontend keeps its part of the invariant whatever the       *)
(* handlers do with their transfers.                                       *)
LEMMA CmdInvStep ==
  ASSUME CmdInv, [Next]_vars
  PROVE  CmdInv'
<1>1. CASE Next
  <2>1. PICK T, null, R, wdata, pop, done, arb, act :
          /\ Inputs(T, null, R, wdata, pop, done, arb, act)
          /\ Cycle(T, null, R, wdata, pop, done, arb, act)
    BY <1>1, NextIsCycle
  <2>2. /\ R \in AtMostOne(sent) /\ wdata \in Ids /\ pop \in BOOLEAN
        /\ (pop => cmdBuff # <<>>) /\ act \in Choices
        /\ CmdFrontend(R, wdata, pop) /\ Core(act, R) /\ ticket' = NextTicket(R)
        /\ arb \in {"skip", "hold", "take"}
    BY <2>1 DEF Inputs, Cycle
  <2>3. /\ cmdBuff' \in Seq(Ids) /\ Len(cmdBuff') <= NumBuffered /\ sent' \subseteq Ids
    BY <2>2, FifoStep
  <2>4. /\ IdsApart' /\ usedIds' \subseteq Ids /\ cmdId' \in Ids
        /\ issuer' \in [Ids -> Tasks \cup {NoTask}]
        /\ cfState' \in {"Disabled", "Ready", "WaitingBuffer", "WaitingID", "Waiting"}
    BY <2>2, IdsStep
  <2>5. /\ TicketExact' /\ rdata' \in Ids /\ wtCmdIdx' \in Ids
        /\ ticket' \in [handle : Ids, id : Ids, answered : BOOLEAN, delayed : BOOLEAN]
    BY <2>2, TicketStep
  <2>6. /\ CoreFollows'
        /\ tfState' \in {"Init", "Idle", "Running", "SendingFeedback"}
        /\ currentTask' \in Tasks \cup {NoTask}
        /\ core' \in {"fetch", "handler", "issue", "wait", "test", "doorbell"}
        /\ ops' \in 0 .. MaxOps
    BY <2>1, CoreStep
  <2>7. /\ dma' \in Seq(Tasks) /\ feedbackBuff' \in Seq(Tasks) /\ Len(feedbackBuff') <= 1
        /\ locked' \in BOOLEAN /\ open' \subseteq Tasks
    BY <2>1, FeedbackStep
  <2>8. TypeOK'
    BY <2>3, <2>4, <2>5, <2>6, <2>7 DEF TypeOK
  <2> QED
    BY <2>4, <2>5, <2>6, <2>8 DEF CmdInv
<1>2. CASE UNCHANGED vars
  BY <1>2 DEF vars, tfVars, cfVars, envVars, CmdInv, TypeOK, CoreFollows, IdsApart,
              TicketExact, OnTheWay, Held, Range
<1> QED
  BY <1>1, <1>2

(* A feedback leaves only with nothing of its task unfinished, and the     *)
(* arbiter, once locked on it, finds it: no handler starts a transfer then *)
(* (hpu_driver.sv:104, 264-306; rr_arb_tree.sv:178-181).                   *)
LEMMA TaskInvStep ==
  ASSUME ~ DmaWhileLocked, TaskInv, [Next]_vars
  PROVE  TaskInv' /\ (Next /\ locked => FeedbackValid(dma'))
<1>1. CmdInv'
  BY CmdInvStep DEF TaskInv
<1>2. CASE Next
  <2>1. PICK T, null, R, wdata, pop, done, arb, act :
          /\ Inputs(T, null, R, wdata, pop, done, arb, act)
          /\ Cycle(T, null, R, wdata, pop, done, arb, act)
    BY <1>2, NextIsCycle
  <2> DEFINE D == Unfinished(done, act)
             popped == arb = "take" /\ FeedbackValid(D)
  <2>2. /\ R \in AtMostOne(sent) /\ wdata \in Ids /\ pop \in BOOLEAN
        /\ (pop => cmdBuff # <<>>) /\ act \in Choices /\ T \in AtMostOne(Offered)
        /\ (null => T # {}) /\ (done => dma # <<>>) /\ done \in BOOLEAN
        /\ CmdFrontend(R, wdata, pop) /\ arb \in {"skip", "hold", "take"}
        /\ tfState' = NextTf(T, null)
        /\ currentTask' = IF tfState = "Idle" /\ T # {} THEN The(T) ELSE currentTask
        /\ arb \in Arbiter(D)
    BY <2>1 DEF Inputs, Cycle, TaskFrontend, Unfinished
  <2>3. CmdInv /\ FedBackLast /\ LockHolds /\ CoreFollows
        /\ tfState \in {"Init", "Idle", "Running", "SendingFeedback"}
    BY DEF TaskInv, CmdInv, TypeOK
  <2>4. /\ dma' = D /\ D \in Seq(Tasks)
        /\ Range(D) \subseteq Range(dma) \cup (IF act = "dma" THEN {currentTask} ELSE {})
        /\ act = "dma" => core = "handler" /\ tfState = "Running" /\ D # <<>>
        /\ BuffPush => currentTask \in Tasks /\ feedbackBuff = <<>>
        /\ feedbackBuff' = IF BuffPush THEN <<currentTask>>
                           ELSE IF popped THEN <<>> ELSE feedbackBuff
        /\ locked' = (arb = "hold")
        /\ open' = (open \cup (IF tfState = "Idle" THEN T ELSE {}))
                      \ (IF arb = "take" THEN {Head(feedbackBuff)} ELSE {})
        /\ feedbackBuff \in Seq(Tasks) /\ Len(feedbackBuff) <= 1
    BY <2>1, <2>3, FeedbackStep DEF CmdInv, TypeOK
  <2>5. /\ \A i \in Ids : issuer'[i] \in {issuer[i], NoTask} \cup
                             (IF CmdPush(R) THEN {currentTask} ELSE {})
        /\ issuer \in [Ids -> Tasks \cup {NoTask}] /\ issuer' \in [Ids -> Tasks \cup {NoTask}]
        /\ usedIds' = NextUsed(R)
    BY <2>2, <2>3, IdsStep DEF CmdInv, TypeOK, CmdFrontend
  <2>6. locked => D = <<>> /\ FeedbackValid(D)
    <3>1. SUFFICES ASSUME locked PROVE D = <<>> /\ FeedbackValid(D)
      OBVIOUS
    <3>2. dma = <<>> /\ usedIds = {} /\ feedbackBuff # <<>>
      BY <2>3, <3>1 DEF LockHolds
    <3>3. ~ done /\ act # "dma"
      BY <2>2, <3>1, <3>2 DEF Choices
    <3>4. D = <<>>
      BY <3>2, <3>3 DEF Unfinished
    <3> QED
      BY <3>2, <3>4 DEF FeedbackValid, CanSendFeedback
  <2>7. arb # "skip" => FeedbackValid(D)
    BY <2>2, <2>6 DEF Arbiter
  <2> HIDE DEF D, popped
  <2>8. FeedbackValid(D) => /\ D = <<>> /\ act # "dma" /\ feedbackBuff # <<>> /\ ~ BuffPush
                            /\ usedIds = {} /\ usedIds' = {} /\ ~ CmdPush(R)
                            /\ \A i \in Ids : issuer[i] = NoTask
    <3>1. SUFFICES ASSUME FeedbackValid(D)
                   PROVE  /\ ~ BuffPush /\ usedIds' = {} /\ ~ CmdPush(R)
                          /\ \A i \in Ids : issuer[i] = NoTask
      BY <2>4 DEF FeedbackValid, CanSendFeedback
    <3>2. usedIds = {} /\ feedbackBuff # <<>> /\ OnTheWay = {} /\ Held = {} /\ R = {}
      BY <2>2, <2>3, <3>1 DEF FeedbackValid, CanSendFeedback, CmdInv, IdsApart, OnTheWay,
                              AtMostOne
    <3>3. ~ BuffPush
      BY <3>2 DEF BuffPush, BuffFull
    <3>4. \A i \in Ids : issuer[i] = NoTask
      BY <2>3, <3>2 DEF CmdInv, IdsApart
    <3>5. IssueState = "Disabled" /\ ~ AssignId
      BY <3>2 DEF IssueState, DisableCommands, BuffFull, AssignId
    <3>6. usedIds' = {}
      BY <2>5, <3>2, <3>5 DEF NextUsed
    <3>7. ~ CmdPush(R)
      <4>1. Gets(R) = {}
        BY <3>2, <3>5 DEF Gets
      <4> QED
        BY <2>2, <2>3, <3>2, <4>1, OneIdEach
    <3> QED
      BY <3>3, <3>4, <3>6, <3>7
  <2>9. LockHolds'
    BY <2>4, <2>7, <2>8 DEF LockHolds, popped
  <2>10. Range(feedbackBuff)' = IF BuffPush THEN {currentTask}
                                ELSE IF popped THEN {} ELSE Range(feedbackBuff)
    BY <2>4 DEF Range
  <2>11. feedbackBuff # <<>> => Range(feedbackBuff) = {Head(feedbackBuff)}
    BY <2>4 DEF Range
  <2>12. BuffPush => feedbackBuff = <<>> /\ Range(feedbackBuff) = {} /\ Current = {currentTask}
    BY <2>4 DEF Range, BuffPush, TriggerFeedback, Current
  <2>13. Current' = IF BuffPush THEN {} ELSE IF tfState = "Idle" THEN T ELSE Current
    <3>1. T # {} => T = {The(T)}
      BY <2>2 DEF AtMostOne, The
    <3>2. Current' = IF NextTf(T, null) \in {"Running", "SendingFeedback"}
                     THEN {currentTask'} ELSE {}
      BY <2>2 DEF Current
    <3>3. CASE tfState = "Idle"
      BY <2>2, <3>1, <3>2, <3>3 DEF NextTf, BuffPush, TriggerFeedback
    <3>4. CASE tfState # "Idle"
      BY <2>2, <2>3, <3>2, <3>4 DEF NextTf, BuffPush, TriggerFeedback, Current, BuffFull
    <3> QED
      BY <3>3, <3>4
  <2>14. tfState = "Idle" => T \cap open = {} /\ Current = {} /\ ~ BuffPush
    BY <2>2 DEF AtMostOne, Offered, Current, BuffPush, TriggerFeedback
  <2>15. /\ open = Current \cup Range(feedbackBuff) /\ Current \cap Range(feedbackBuff) = {}
         /\ (Range(dma) \cup Range(issuer)) \ {NoTask} \subseteq open
    BY <2>3 DEF FedBackLast
  <2>16. /\ open' = Current' \cup Range(feedbackBuff)' /\ Current' \cap Range(feedbackBuff)' = {}
    <3>1. arb = "take" <=> popped
      BY <2>7 DEF popped
    <3>2. popped => ~ BuffPush /\ Range(feedbackBuff) = {Head(feedbackBuff)}
      BY <2>8, <2>11 DEF popped
    <3>3. CASE popped
      BY <2>4, <2>10, <2>13, <2>14, <2>15, <3>1, <3>2, <3>3
    <3>4. CASE ~ popped
      BY <2>4, <2>10, <2>12, <2>13, <2>14, <2>15, <3>1, <3>4
    <3> QED
      BY <3>3, <3>4
  <2>17. (Range(dma)' \cup Range(issuer)') \ {NoTask} \subseteq open'
    <3>1. act = "dma" \/ CmdPush(R) => {currentTask} = Current
      BY <2>3, <2>4 DEF CmdPush, CmdIssued, CoreFollows, Current
    <3>2. /\ Range(issuer)' \subseteq Range(issuer) \cup {NoTask} \cup
                                (IF CmdPush(R) THEN {currentTask} ELSE {})
      BY <2>5 DEF Range
    <3>3. Range(dma)' = Range(D)
      BY <2>4 DEF Range
    <3>4. CASE arb = "take"
      <4>1. Range(issuer)' \subseteq {NoTask}
        BY <2>5, <2>7, <2>8, <3>4 DEF Range
      <4>2. Range(dma)' = {}
        BY <2>7, <2>8, <3>3, <3>4 DEF Range
      <4> QED
        BY <4>1, <4>2
    <3>5. CASE arb # "take"
      <4>1. open \subseteq open'
        BY <2>4, <3>5
      <4>2. Range(dma)' \subseteq Range(dma) \cup Current
        BY <2>4, <3>1, <3>3
      <4>3. Range(issuer)' \subseteq Range(issuer) \cup {NoTask} \cup Current
        BY <3>1, <3>2
      <4> QED
        BY <2>15, <4>1, <4>2, <4>3
    <3> QED
      BY <3>4, <3>5
  <2>18. FedBackLast'
    BY <2>16, <2>17 DEF FedBackLast
  <2>19. locked => FeedbackValid(dma')
    BY <2>4, <2>6
  <2> QED
    BY <1>1, <2>9, <2>18, <2>19 DEF TaskInv
<1>3. CASE UNCHANGED vars
  <2>1. FedBackLast' /\ LockHolds'
    BY <1>3 DEF vars, tfVars, cfVars, envVars, TaskInv, FedBackLast, LockHolds, Current, Range
  <2>2. Next /\ locked => FeedbackValid(dma')
    BY <1>3 DEF vars, tfVars, cfVars, envVars, TaskInv, LockHolds, FeedbackValid,
                CanSendFeedback
  <2> QED
    BY <1>1, <2>1, <2>2 DEF TaskInv
<1> QED
  BY <1>2, <1>3

-----------------------------------------------------------------------------
(* A FIFO without repetition holds as many ids as it has entries.          *)
LEMMA DistinctCount ==
  ASSUME NEW S, NEW s \in Seq(S), \A j, k \in DOMAIN s : s[j] = s[k] => j = k
  PROVE  IsFiniteSet(Range(s)) /\ Cardinality(Range(s)) = Len(s)
<1> DEFINE n == Len(s)
<1>1. n \in Nat /\ DOMAIN s = 1 .. n /\ s \in [1 .. n -> S]
  OBVIOUS
<1> HIDE DEF n
<1>2. s \in [1 .. n -> Range(s)]
  BY <1>1 DEF Range
<1>3. s \in Bijection(1 .. n, Range(s))
  BY <1>1, <1>2 DEF Bijection, Injection, Surjection, Range, IsInjective
<1>4. ExistsBijection(1 .. n, Range(s))
  BY <1>3 DEF ExistsBijection
<1>5. IsFiniteSet(Range(s)) /\ Cardinality(Range(s)) = n
  BY <1>1, <1>4, FS_CountingElements, FS_NatBijection
<1> QED
  BY <1>5 DEF n

(* Ids that are apart are counted once each.                               *)
LEMMA IdsCounted == CmdInv => IdsExact
<1> SUFFICES ASSUME CmdInv PROVE IdsExact
  OBVIOUS
<1>1. /\ usedIds = OnTheWay \cup Held /\ Held \cap OnTheWay = {}
      /\ Range(cmdBuff) \cap sent = {} /\ cmdBuff \in Seq(Ids) /\ sent \subseteq Ids
      /\ \A j, k \in DOMAIN cmdBuff : cmdBuff[j] = cmdBuff[k] => j = k
      /\ \A i \in Ids : issuer[i] # NoTask <=> i \in OnTheWay
  BY DEF CmdInv, TypeOK, IdsApart
<1>2. IsFiniteSet(Range(cmdBuff)) /\ Cardinality(Range(cmdBuff)) = Len(cmdBuff)
      /\ Len(cmdBuff) \in Nat
  BY <1>1, DistinctCount
<1>3. IsFiniteSet(sent) /\ Cardinality(sent) \in Nat
  <2>1. IsFiniteSet(Ids)
    BY HpuParams, FS_Interval DEF Ids
  <2> QED
    BY <1>1, <2>1, FS_Subset, FS_CardinalityType
<1>4. IsFiniteSet(Held) /\ Cardinality(Held) \in Nat
  <2>1. Held = {} \/ Held = {cmdId}
    BY DEF Held
  <2>2. /\ IsFiniteSet({}) /\ Cardinality({}) = 0
        /\ IsFiniteSet({cmdId}) /\ Cardinality({cmdId}) = 1
    BY FS_Singleton, FS_EmptySet
  <2> QED
    BY <2>1, <2>2
<1>5. /\ IsFiniteSet(OnTheWay)
      /\ Cardinality(OnTheWay) = Cardinality(Range(cmdBuff)) + Cardinality(sent)
  <2>1. Cardinality(Range(cmdBuff) \cap sent) = 0
    BY <1>1, FS_EmptySet
  <2>2. /\ IsFiniteSet(OnTheWay)
        /\ Cardinality(OnTheWay) = Cardinality(Range(cmdBuff)) + Cardinality(sent)
                                     - Cardinality(Range(cmdBuff) \cap sent)
    BY <1>2, <1>3, FS_Union DEF OnTheWay
  <2> QED
    BY <1>2, <1>3, <2>1, <2>2
<1>6. Cardinality(usedIds) = Cardinality(OnTheWay) + Cardinality(Held)
  <2>1. Cardinality(OnTheWay \cap Held) = 0
    BY <1>1, FS_EmptySet
  <2>2. Cardinality(usedIds) = Cardinality(OnTheWay) + Cardinality(Held)
                                 - Cardinality(OnTheWay \cap Held)
    BY <1>1, <1>4, <1>5, FS_Union
  <2> QED
    BY <1>2, <1>3, <1>4, <1>5, <2>1, <2>2
<1> QED
  BY <1>1, <1>2, <1>5, <1>6 DEF IdsExact, OnTheWay

(* With no task inside and no command issued, everything holds.            *)
LEMMA InitInv == Init => TaskInv
<1> SUFFICES ASSUME Init PROVE TaskInv
  OBVIOUS
<1>1. 0 \in Ids
  BY HpuParams DEF Ids
<1>2. Range(<<>>) = {}
  BY DEF Range
<1>3. TypeOK
  <2>1. /\ <<>> \in Seq(Tasks) /\ <<>> \in Seq(Ids) /\ Len(<<>>) = 0
        /\ [i \in Ids |-> NoTask] \in [Ids -> Tasks \cup {NoTask}]
        /\ 0 \in 0 .. MaxOps
    BY HpuParams
  <2>2. NoTicket \in [handle : Ids, id : Ids, answered : BOOLEAN, delayed : BOOLEAN]
    BY <1>1 DEF NoTicket
  <2> QED
    BY <1>1, <2>1, <2>2, HpuParams DEF Init, TypeOK
<1>4. CoreFollows /\ TicketExact /\ LockHolds
  BY DEF Init, CoreFollows, TicketExact, LockHolds, NoTicket
<1>5. IdsApart
  BY <1>2 DEF Init, IdsApart, OnTheWay, Held
<1>6. FedBackLast
  BY <1>2 DEF Init, FedBackLast, Current, Range
<1> QED
  BY <1>3, <1>4, <1>5, <1>6 DEF TaskInv, CmdInv

-----------------------------------------------------------------------------
(* The invariant of the command frontend, whatever the handlers do with    *)
(* their transfers (hpu_driver.sv:588-865).                                *)
THEOREM CmdInvariance == Spec => []CmdInv
<1>1. Init => CmdInv
  BY InitInv DEF TaskInv
<1>2. CmdInv /\ [Next]_vars => CmdInv'
  BY CmdInvStep
<1> QED
  BY <1>1, <1>2, PTL DEF Spec

(* The state of both frontends keeps its types; the FIFOs and the ids keep *)
(* their bounds (hpu_driver.sv:104-128, 598-648).                          *)
THEOREM TypeCorrect == Spec => []TypeOK
<1>1. CmdInv => TypeOK
  BY DEF CmdInv
<1> QED
  BY <1>1, CmdInvariance, PTL

(* Every taken id is that of one command on its way or held back, whatever *)
(* falls into one cycle (hpu_driver.sv:598-648, 712-785).                  *)
THEOREM IdsAreExact == Spec => []IdsExact
BY CmdInvariance, IdsCounted, PTL

(* A wait for the last command is over only when that command has been     *)
(* answered, if the handle is the command's own, as it is whenever the     *)
(* command was not blocked before it got its id (hpu_driver.sv:660-664,    *)
(* 728-734, 763-767).                                                      *)
THEOREM WaitsAreDone == Spec => WaitMeansDone
<1>1. CmdInv /\ [Next]_vars
        => [core = "wait" /\ core' = "handler" /\ (~ ticket.delayed \/ ticket.handle = ticket.id)
              => ticket'.answered]_vars
  <2>1. ASSUME CmdInv, Next
        PROVE  core = "wait" /\ core' = "handler" /\ (~ ticket.delayed \/ ticket.handle = ticket.id)
                 => ticket'.answered
    <3>1. PICK T, null, R, wdata, pop, done, arb, act :
            /\ Inputs(T, null, R, wdata, pop, done, arb, act)
            /\ Cycle(T, null, R, wdata, pop, done, arb, act)
      BY <2>1, NextIsCycle
    <3>2. /\ R \in AtMostOne(sent) /\ wdata \in Ids /\ pop \in BOOLEAN
          /\ (pop => cmdBuff # <<>>) /\ act \in Choices
          /\ CmdFrontend(R, wdata, pop) /\ Core(act, R) /\ ticket' = NextTicket(R)
      BY <3>1 DEF Inputs, Cycle
    <3> QED
      BY <2>1, <3>2, TicketStep
  <2> QED
    BY <2>1
<1> QED
  BY <1>1, CmdInvariance, PTL DEF Spec, WaitMeansDone

(* A task is fed back once, with nothing of it unfinished, when no handler *)
(* starts a transfer while the arbiter is locked on the feedback before    *)
(* (hpu_driver.sv:104, 264-306).                                           *)
THEOREM FeedbackIsLast ==
  ASSUME ~ DmaWhileLocked
  PROVE  Spec => []FedBackLast
<1>1. TaskInv /\ [Next]_vars => TaskInv'
  BY TaskInvStep
<1>2. TaskInv => FedBackLast
  BY DEF TaskInv
<1> QED
  BY <1>1, <1>2, InitInv, PTL DEF Spec

(* In that case the arbiter finds the feedback it is locked on, which      *)
(* rr_arb_tree.sv:178-181 assumes of its requesters.                       *)
THEOREM LockedRequestIsKept ==
  ASSUME ~ DmaWhileLocked
  PROVE  Spec => RequestKept
<1>1. TaskInv /\ [Next]_vars => TaskInv'
  BY TaskInvStep
<1>2. TaskInv /\ [Next]_vars => [locked => FeedbackValid(dma')]_vars
  BY TaskInvStep
<1> QED
  BY <1>1, <1>2, InitInv, PTL DEF Spec, RequestKept

=============================================================================
