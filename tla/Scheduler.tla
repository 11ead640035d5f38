----------------------------- MODULE Scheduler -----------------------------
(***************************************************************************)
(* hw/src/pkt_scheduler/scheduler.sv: distributes the tasks of the MPQ     *)
(* engine over the four clusters and collects their feedback.  A task goes *)
(* to the home cluster of its message if that has room, else to the least  *)
(* occupied cluster.  Two-entry spill registers decouple it from each      *)
(* cluster in both directions.                                             *)
(*                                                                         *)
(* Clock is one clock cycle of the scheduler; a cluster takes a task from  *)
(* its spill register, or puts a feedback into the other one, in steps of  *)
(* its own.  Of a task only the home cluster of its message matters, and   *)
(* only when it is scheduled; afterwards tasks are counted.                *)
(***************************************************************************)
EXTENDS Naturals

CONSTANTS
  MaxOcc,     (* MAX_OCC = NUM_HERS_PER_CLUSTER                            *)
  SpillDepth, (* entries of a spill register (2)                           *)
  Homes       (* the home clusters of the messages there are               *)

Clusters == 0 .. 3      (* NUM_CLUSTERS; argmin4 is built for four *)

ASSUME SchedulerParams ==
  /\ MaxOcc \in Nat \ {0} /\ SpillDepth \in Nat \ {0}
  /\ Homes \subseteq Clusters

VARIABLES
  state,      (* state_q: "ServePacket" or "WaitTransfer"                  *)
  clusterId,  (* cluster_id_q                                              *)
  occup,      (* cluster_occup_q                                           *)
  taskSpill,  (* tasks in the task spill register of each cluster          *)
  fbSpill,    (* entries in the feedback spill register of each cluster    *)
  inside,     (* tasks each cluster has taken and not yet fed back         *)
  fbLock      (* the cluster the feedback arbiter is locked on, or {}      *)

vars == <<state, clusterId, occup, taskSpill, fbSpill, inside, fbLock>>

TypeOK ==
  /\ state \in {"ServePacket", "WaitTransfer"}
  /\ clusterId \in Clusters
  /\ occup \in [Clusters -> Nat]
  /\ taskSpill \in [Clusters -> 0 .. SpillDepth]
  /\ fbSpill \in [Clusters -> 0 .. SpillDepth]
  /\ inside \in [Clusters -> Nat]
  /\ fbLock \in SUBSET Clusters

Init ==
  /\ state = "ServePacket" /\ clusterId = 0
  /\ occup = [c \in Clusters |-> 0]
  /\ taskSpill = [c \in Clusters |-> 0]
  /\ fbSpill = [c \in Clusters |-> 0]
  /\ inside = [c \in Clusters |-> 0]
  /\ fbLock = {}

-----------------------------------------------------------------------------
(* cluster_task_ready_id *)
(* Mutant: one entry too many.                                             *)
ClusterReadyOver(c) == taskSpill[c] <= SpillDepth
ClusterReady(c) == taskSpill[c] < SpillDepth

(* argmin4: a two-level tree over the occupations, in which a cluster that *)
(* is not ready counts as full of ones; ties go to the lower index.        *)
Ones == 2 * MaxOcc + 1
(* Mutant: readiness is ignored.                                           *)
LoadAny(c) == occup[c]
Load(c) == IF ClusterReady(c) THEN occup[c] ELSE Ones
Lesser(c, d) == IF Load(c) <= Load(d) THEN c ELSE d
ArgMin == Lesser(Lesser(0, 1), Lesser(2, 3))

(* Mutant: off by one at the capacity.                                     *)
NoClusterAvailOver == occup[ArgMin] > MaxOcc
NoClusterAvail == occup[ArgMin] >= MaxOcc

(* Mutant: the home cluster is used although it cannot take the task now.  *)
CanUseHomeUnready(h) == NoClusterAvail \/ occup[h] < MaxOcc
CanUseHome(h) == NoClusterAvail \/ (occup[h] < MaxOcc /\ ClusterReady(h))
SelCluster(h) == IF CanUseHome(h) THEN h ELSE ArgMin

TaskReady == state = "ServePacket" /\ ~ NoClusterAvail

(* The clusters whose feedback the arbiter may point to.                   *)
(* Mutant: a feedback is offered only when a second one is behind it.      *)
FbCandidatesBehind ==
  IF fbLock # {} THEN fbLock ELSE {c \in Clusters : fbSpill[c] > 1}
FbCandidates == IF fbLock # {} THEN fbLock ELSE {c \in Clusters : fbSpill[c] > 0}

(* The occupation of cluster c when it is served a task and (or) fed back. *)
(* Mutant: the two do not cancel out.                                      *)
NextOccupServedWins(c, served, fed) ==
  IF c \in served THEN occup[c] + 1 ELSE IF c \in fed THEN occup[c] - 1 ELSE occup[c]

NextOccup(c, served, fed) ==
  IF c \in served /\ c \notin fed THEN occup[c] + 1
  ELSE IF c \in fed /\ c \notin served THEN occup[c] - 1
  ELSE occup[c]

(* One clock cycle: T is {} or the home cluster of the task offered, g the *)
(* feedback arbiter's choice, fbReady the readiness of the MPQ engine.     *)
Clock(T, g, fbReady) ==
  LET accepted == IF TaskReady THEN T ELSE {}
      target   == IF state = "ServePacket"
                  THEN {SelCluster(h) : h \in accepted} ELSE {clusterId}
      served   == {c \in target : ClusterReady(c)}
      fed      == IF fbReady /\ FbCandidates # {} THEN {g} ELSE {}
  IN  /\ FbCandidates # {} => g \in FbCandidates
      /\ state' = IF target \ served # {} THEN "WaitTransfer" ELSE "ServePacket"
      /\ clusterId' = IF target # {} THEN CHOOSE c \in target : TRUE ELSE clusterId
      /\ occup' = [c \in Clusters |-> NextOccup(c, served, fed)]
      /\ taskSpill' = [c \in Clusters |->
                         IF c \in served THEN taskSpill[c] + 1 ELSE taskSpill[c]]
      /\ fbSpill' = [c \in Clusters |-> IF c \in fed THEN fbSpill[c] - 1 ELSE fbSpill[c]]
      /\ fbLock' = IF fbReady \/ FbCandidates = {} THEN {} ELSE {g}
      /\ UNCHANGED inside

ClusterTakes(c) ==
  /\ taskSpill[c] > 0
  /\ taskSpill' = [taskSpill EXCEPT ![c] = @ - 1]
  /\ inside' = [inside EXCEPT ![c] = @ + 1]
  /\ UNCHANGED <<state, clusterId, occup, fbSpill, fbLock>>

ClusterFeeds(c) ==
  /\ inside[c] > 0 /\ fbSpill[c] < SpillDepth
  /\ inside' = [inside EXCEPT ![c] = @ - 1]
  /\ fbSpill' = [fbSpill EXCEPT ![c] = @ + 1]
  /\ UNCHANGED <<state, clusterId, occup, taskSpill, fbLock>>

AnyClock == \E T \in {{}} \cup {{h} : h \in Homes}, g \in Clusters, fbReady \in BOOLEAN :
              Clock(T, g, fbReady)

Next ==
  \/ AnyClock
  \/ \E c \in Clusters : ClusterTakes(c) \/ ClusterFeeds(c)

Spec == Init /\ [][Next]_vars

(* The clock runs; each cluster goes on taking tasks and returning their   *)
(* feedback; the round-robin arbiter and the MPQ engine take the feedback  *)
(* of every cluster.                                                       *)
FbTaken(c) == fbSpill'[c] < fbSpill[c]

Fairness ==
  /\ WF_vars(AnyClock)
  /\ \A c \in Clusters :
       /\ WF_vars(ClusterTakes(c)) /\ WF_vars(ClusterFeeds(c))
       /\ <>[](c \notin FbCandidates) \/ []<><<FbTaken(c)>>_vars

FairSpec == Spec /\ Fairness

-----------------------------------------------------------------------------
(* The occupation of a cluster is the number of its tasks between the two  *)
(* spill registers, also when a task leaves and a feedback arrives in the  *)
(* same cycle (scheduler.sv:121-131).                                      *)
OccupancyExact ==
  \A c \in Clusters : occup[c] = taskSpill[c] + inside[c] + fbSpill[c]

(* No cluster is ever sent more tasks than it can queue                    *)
(* ("we expect the scheduler to not forward us tasks if we are at          *)
(* capacity", cluster_scheduler.sv:203-204): the task that waits for a     *)
(* spill register (scheduler.sv:175-180) has its room reserved.            *)
NeverOverrun ==
  \A c \in Clusters :
     taskSpill[c] + inside[c] + (IF state = "WaitTransfer" /\ clusterId = c THEN 1 ELSE 0)
       <= MaxOcc

(* argmin4 finds a ready cluster when there is one, and of the ready ones  *)
(* the least occupied (scheduler.sv:188-194, 272-292).                     *)
ChoosesLeastLoaded ==
  (\E c \in Clusters : ClusterReady(c)) =>
     /\ ClusterReady(ArgMin)
     /\ \A c \in Clusters : ClusterReady(c) => occup[ArgMin] <= occup[c]

(* A task is held back in task_q, blocking all that follow, only when no   *)
(* cluster at all could have taken it (scheduler.sv:147-171).              *)
WaitsOnlyWhenAllBusy ==
  [][state = "ServePacket" /\ state' = "WaitTransfer"
       => \A c \in Clusters : ~ ClusterReady(c)]_vars

(* Whatever the distribution of the tasks over the clusters, the scheduler *)
(* is ready for another task again and again (scheduler.sv:147, 165-186).  *)
ReadyAgain == []<>TaskReady
=============================================================================
