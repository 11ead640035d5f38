--------------------------- MODULE SchedulerProofs ---------------------------
(***************************************************************************)
(* The safety properties of Scheduler, for every capacity of the clusters, *)
(* every depth of the spill registers and all home clusters.               *)
(***************************************************************************)
EXTENDS Scheduler, TLAPS

(* A task held in task_q for cluster c.                                    *)
Pending(c) == IF state = "WaitTransfer" /\ clusterId = c THEN 1 ELSE 0

(* The room of every accepted task, the held one included, was there when  *)
(* it was accepted and stays until its feedback has left.                  *)
Reserved == \A c \in Clusters : occup[c] + Pending(c) <= MaxOcc

(* The feedback arbiter is locked on a cluster that offers a feedback.     *)
LockHolds == \A c \in fbLock : fbSpill[c] > 0

IInv == TypeOK /\ OccupancyExact /\ Reserved /\ LockHolds

-----------------------------------------------------------------------------
(* argmin4 answers with one of the four clusters (scheduler.sv:272-292).   *)
LEMMA ArgMinType == ArgMin \in Clusters
BY DEF ArgMin, Lesser, Clusters

(* It answers with a ready cluster if there is one, the least occupied of  *)
(* the ready ones: the all-ones load of the others is above every          *)
(* occupation (scheduler.sv:285-292).                                      *)
LEMMA ArgMinCorrect ==
  ASSUME IInv
  PROVE  ChoosesLeastLoaded
<1>1. \A c \in Clusters : occup[c] \in Nat /\ occup[c] <= MaxOcc
  BY SchedulerParams DEF IInv, TypeOK, Reserved, Pending
<1>2. \A c \in Clusters : Load(c) \in Nat
  BY <1>1, SchedulerParams DEF Load, Ones
<1>3. \A c \in Clusters : Load(ArgMin) <= Load(c)
  BY <1>2 DEF ArgMin, Lesser, Clusters
<1>4. ASSUME NEW c \in Clusters, ClusterReady(c)
      PROVE  ClusterReady(ArgMin) /\ occup[ArgMin] <= occup[c]
  <2>1. Load(c) = occup[c]
    BY <1>4 DEF Load
  <2>2. Load(ArgMin) <= MaxOcc
    BY <1>1, <1>2, <1>3, <2>1, ArgMinType, SchedulerParams
  <2>3. ClusterReady(ArgMin)
    BY <2>2, SchedulerParams DEF Load, Ones
  <2> QED
    BY <1>3, <2>1, <2>3 DEF Load
<1> QED
  BY <1>4 DEF ChoosesLeastLoaded

(* The cluster an accepted task is sent to has room for it                 *)
(* (scheduler.sv:147-149, 169).                                            *)
LEMMA TargetHasRoom ==
  ASSUME IInv, TaskReady, NEW h \in Clusters
  PROVE  SelCluster(h) \in Clusters /\ occup[SelCluster(h)] < MaxOcc
<1>1. ArgMin \in Clusters /\ occup[ArgMin] < MaxOcc
  BY ArgMinType, SchedulerParams DEF TaskReady, NoClusterAvail, IInv, TypeOK
<1>2. CASE CanUseHome(h)
  BY <1>1, <1>2 DEF CanUseHome, SelCluster, TaskReady
<1>3. CASE ~ CanUseHome(h)
  BY <1>1, <1>3 DEF SelCluster
<1> QED
  BY <1>2, <1>3

(* It is not ready only when no cluster is (scheduler.sv:148-149, 188-194).*)
LEMMA TargetReady ==
  ASSUME IInv, TaskReady, NEW h \in Clusters, ~ ClusterReady(SelCluster(h))
  PROVE  \A c \in Clusters : ~ ClusterReady(c)
<1>1. SelCluster(h) = ArgMin
  BY DEF SelCluster, CanUseHome, TaskReady
<1> QED
  BY <1>1, ArgMinCorrect DEF ChoosesLeastLoaded

-----------------------------------------------------------------------------
(* With no task inside, all counters are zero.                             *)
LEMMA InitIInv == Init => IInv
BY SchedulerParams DEF Init, IInv, TypeOK, OccupancyExact, Reserved, Pending, LockHolds, Clusters

(* A clock cycle of the scheduler, in the terms the invariant needs: the   *)
(* clusters served and fed, at most one of each.                           *)
LEMMA ClockIInv ==
  ASSUME IInv, NEW T \in {{}} \cup {{h} : h \in Homes}, NEW g \in Clusters,
         NEW fbReady \in BOOLEAN, Clock(T, g, fbReady)
  PROVE  IInv' /\ (state = "ServePacket" /\ state' = "WaitTransfer"
                     => \A c \in Clusters : ~ ClusterReady(c))
<1> DEFINE accepted == IF TaskReady THEN T ELSE {}
           target   == IF state = "ServePacket"
                       THEN {SelCluster(h) : h \in accepted} ELSE {clusterId}
           served   == {c \in target : ClusterReady(c)}
           fed      == IF fbReady /\ FbCandidates # {} THEN {g} ELSE {}
<1>1. /\ FbCandidates # {} => g \in FbCandidates
      /\ state' = IF target \ served # {} THEN "WaitTransfer" ELSE "ServePacket"
      /\ clusterId' = IF target # {} THEN CHOOSE c \in target : TRUE ELSE clusterId
      /\ occup' = [c \in Clusters |-> NextOccup(c, served, fed)]
      /\ taskSpill' = [c \in Clusters |->
                         IF c \in served THEN taskSpill[c] + 1 ELSE taskSpill[c]]
      /\ fbSpill' = [c \in Clusters |-> IF c \in fed THEN fbSpill[c] - 1 ELSE fbSpill[c]]
      /\ fbLock' = IF fbReady \/ FbCandidates = {} THEN {} ELSE {g}
      /\ inside' = inside
  BY DEF Clock
<1>2. /\ state \in {"ServePacket", "WaitTransfer"} /\ clusterId \in Clusters
      /\ occup \in [Clusters -> Nat] /\ inside \in [Clusters -> Nat]
      /\ taskSpill \in [Clusters -> 0 .. SpillDepth]
      /\ fbSpill \in [Clusters -> 0 .. SpillDepth]
      /\ SpillDepth \in Nat /\ MaxOcc \in Nat
  BY SchedulerParams DEF IInv, TypeOK
<1>3. target = {} \/ \E t \in Clusters :
         /\ target = {t}
         /\ occup[t] < MaxOcc
         /\ state = "WaitTransfer" => t = clusterId
         /\ state = "ServePacket" /\ ~ ClusterReady(t) => \A c \in Clusters : ~ ClusterReady(c)
  <2>1. CASE state = "WaitTransfer"
    <3>1. occup[clusterId] + 1 <= MaxOcc
      BY <1>2, <2>1 DEF IInv, Reserved, Pending
    <3> QED
      BY <1>2, <2>1, <3>1
  <2>2. CASE state = "ServePacket" /\ accepted # {}
    <3>1. PICK h \in Homes : TaskReady /\ T = {h}
      BY <2>2
    <3>2. h \in Clusters
      BY SchedulerParams
    <3>3. target = {SelCluster(h)}
      BY <2>2, <3>1
    <3> QED
      BY <2>2, <3>1, <3>2, <3>3, TargetHasRoom, TargetReady
  <2>3. CASE state = "ServePacket" /\ accepted = {}
    BY <2>3
  <2> QED
    BY <1>2, <2>1, <2>2, <2>3
<1>4. \A t : target = {t} => (target # {} /\ (CHOOSE c \in target : TRUE) = t
                               /\ served = IF ClusterReady(t) THEN {t} ELSE {})
  OBVIOUS
<1>5. served \subseteq Clusters /\ \A c \in served : taskSpill[c] < SpillDepth
  BY <1>3, <1>4 DEF ClusterReady
<1>6. fed \subseteq Clusters /\ \A c \in fed : fbSpill[c] > 0 /\ occup[c] > 0
  <2>1. \A c \in FbCandidates \cap Clusters : fbSpill[c] > 0
    BY DEF IInv, LockHolds, FbCandidates
  <2>2. \A c \in Clusters : fbSpill[c] > 0 => occup[c] > 0
    BY <1>2 DEF IInv, OccupancyExact
  <2> QED
    BY <1>1, <2>1, <2>2
<1> HIDE DEF accepted, target, served, fed
<1>7. \A c \in Clusters :
        /\ occup'[c] = occup[c] + (IF c \in served THEN 1 ELSE 0) - (IF c \in fed THEN 1 ELSE 0)
        /\ taskSpill'[c] = taskSpill[c] + (IF c \in served THEN 1 ELSE 0)
        /\ fbSpill'[c] = fbSpill[c] - (IF c \in fed THEN 1 ELSE 0)
  BY <1>1, <1>2 DEF NextOccup
<1>8. /\ state' \in {"ServePacket", "WaitTransfer"} /\ clusterId' \in Clusters
      /\ fbLock' \subseteq Clusters
  BY <1>1, <1>2, <1>3, <1>4
<1>9. /\ occup' \in [Clusters -> Nat] /\ taskSpill' \in [Clusters -> 0 .. SpillDepth]
      /\ fbSpill' \in [Clusters -> 0 .. SpillDepth]
  BY <1>1, <1>2, <1>5, <1>6 DEF NextOccup
<1>10. TypeOK'
  BY <1>1, <1>2, <1>8, <1>9 DEF TypeOK
<1>11. OccupancyExact'
  BY <1>1, <1>2, <1>7 DEF OccupancyExact, IInv
<1>12. Reserved'
  <2> SUFFICES ASSUME NEW c \in Clusters
               PROVE  (occup[c] + Pending(c) <= MaxOcc)'
    BY DEF Reserved
  <2>1. occup[c] + Pending(c) <= MaxOcc
    BY DEF IInv, Reserved
  <2>2. CASE target = {}
    <3>1. served = {} /\ state' = "ServePacket" /\ state = "ServePacket"
      BY <1>1, <1>2, <2>2 DEF served, target
    <3> QED
      BY <1>2, <1>7, <2>1, <3>1 DEF Pending
  <2>3. CASE target # {}
    <3>1. PICK t \in Clusters :
            /\ target = {t} /\ occup[t] < MaxOcc
            /\ state = "WaitTransfer" => t = clusterId
      BY <1>3, <2>3
    <3>2. clusterId' = t /\ served = IF ClusterReady(t) THEN {t} ELSE {}
      BY <1>1, <1>4, <3>1
    <3>3. CASE ClusterReady(t)
      <4>1. state' = "ServePacket"
        BY <1>1, <3>1, <3>2, <3>3
      <4> QED
        BY <1>2, <1>7, <2>1, <3>1, <3>2, <3>3, <4>1 DEF Pending
    <3>4. CASE ~ ClusterReady(t)
      BY <1>2, <1>7, <2>1, <3>1, <3>2, <3>4 DEF Pending
    <3> QED
      BY <3>3, <3>4
  <2> QED
    BY <2>2, <2>3
<1>13. LockHolds'
  <2>1. CASE fbReady \/ FbCandidates = {}
    BY <1>1, <2>1 DEF LockHolds
  <2>2. CASE ~ fbReady /\ FbCandidates # {}
    <3>1. fed = {} /\ fbLock' = {g} /\ fbSpill[g] > 0
      BY <1>1, <2>2 DEF fed, IInv, LockHolds, FbCandidates
    <3> QED
      BY <1>7, <1>2, <3>1 DEF LockHolds
  <2> QED
    BY <2>1, <2>2
<1>14. ASSUME state = "ServePacket", state' = "WaitTransfer"
       PROVE  \A c \in Clusters : ~ ClusterReady(c)
  BY <1>1, <1>3, <1>4, <1>14
<1> QED
  BY <1>10, <1>11, <1>12, <1>13, <1>14 DEF IInv

(* A cluster takes a task, or offers a feedback.                           *)
LEMMA ClusterIInv ==
  ASSUME IInv, NEW c \in Clusters, ClusterTakes(c) \/ ClusterFeeds(c)
  PROVE  IInv' /\ state' = state
<1> USE DEF IInv, TypeOK, OccupancyExact, Reserved, Pending, LockHolds
<1>1. CASE ClusterTakes(c)
  BY <1>1, SchedulerParams DEF ClusterTakes
<1>2. CASE ClusterFeeds(c)
  BY <1>2, SchedulerParams DEF ClusterFeeds
<1> QED
  BY <1>1, <1>2

(* A step that changes nothing.                                            *)
LEMMA StutterIInv == IInv /\ UNCHANGED vars => IInv'
BY DEF vars, IInv, TypeOK, OccupancyExact, Reserved, Pending, LockHolds

-----------------------------------------------------------------------------
(* Every step of the scheduler and of the clusters preserves the invariant.*)
LEMMA NextIInv == IInv /\ [Next]_vars => IInv'
BY ClockIInv, ClusterIInv, StutterIInv DEF Next, AnyClock

(* The invariant holds in every reachable state.                           *)
THEOREM Invariance == Spec => []IInv
BY InitIInv, NextIInv, PTL DEF Spec

(* The registers and queues keep their types; no counter goes negative.    *)
THEOREM TypeCorrect == Spec => []TypeOK
BY Invariance, PTL DEF IInv

(* The occupation counters are exact, for every number of tasks and every  *)
(* interleaving of the clusters (scheduler.sv:121-131).                    *)
THEOREM Occupancy == Spec => []OccupancyExact
BY Invariance, PTL DEF IInv

(* No cluster is sent more than it can queue (cluster_scheduler.sv:203).   *)
THEOREM NoOverrun == Spec => []NeverOverrun
<1>1. IInv => NeverOverrun
  BY SchedulerParams DEF IInv, TypeOK, OccupancyExact, Reserved, Pending, NeverOverrun
<1> QED
  BY <1>1, Invariance, PTL

(* argmin4 chooses the least occupied of the ready clusters.               *)
THEOREM LeastLoaded == Spec => []ChoosesLeastLoaded
BY ArgMinCorrect, Invariance, PTL

(* A task blocks the ones behind it only when no cluster is ready          *)
(* (scheduler.sv:147-171).                                                 *)
THEOREM BlocksOnlyWhenAllBusy == Spec => WaitsOnlyWhenAllBusy
<1>1. IInv /\ [Next]_vars =>
        [state = "ServePacket" /\ state' = "WaitTransfer"
           => \A c \in Clusters : ~ ClusterReady(c)]_vars
  BY ClockIInv, ClusterIInv DEF Next, AnyClock
<1> QED
  BY <1>1, Invariance, PTL DEF Spec, WaitsOnlyWhenAllBusy
=============================================================================
