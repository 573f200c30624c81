---------------------------- MODULE ClusterHealth ----------------------------
(***************************************************************************)
(* How the control nodes of a cluster watch each other                     *)
(* (cluster_node_heartbeat in tasks/system.py, models/ha.py, reaper.py).   *)
(* Each node's heartbeat task reads all Instance rows, renews its own, and *)
(* ends the jobs of those it holds lost. Rows are saved field by field     *)
(* from what was read, so a heartbeat acts on rows that have changed. Time *)
(* is counted in periods of the heartbeat (CLUSTER_NODE_HEARTBEAT_PERIOD). *)
(***************************************************************************)
EXTENDS Naturals, FiniteSets

CONSTANTS
  Nodes,
  Mortal,     \* nodes that crash and shut down, and start again
  Laggards,   \* nodes whose heartbeats may come too late
  NoRedis,    \* nodes that may lose their redis
  ClusterJobs,
  Tolerance,  \* CLUSTER_NODE_MISSED_HEARTBEAT_TOLERANCE
  MaxDowns    \* bound: times that nodes go down

ASSUME ClusterAssumption ==
  /\ Nodes # {} /\ Mortal \subseteq Nodes /\ Laggards \subseteq Nodes /\ NoRedis \subseteq Nodes
  /\ Tolerance \in Nat \ {0} /\ MaxDowns \in Nat

VARIABLES
  up,        \* of a node: its dispatcher is down, starting or works
  age,       \* periods since its last_seen; more than Tolerance + 1 makes no difference
  node,      \* its row: node_state is READY, and capacity is not 0
  beat,      \* its heartbeat task
  clusterJob,\* status of a job and its controller_node
  downs
clusterVars == <<up, age, node, beat, clusterJob, downs>>

NoBeat == [at |-> "off", lost |-> {}, ready |-> {}, startup |-> FALSE, who |-> {}]
Unfinished == {"waiting", "running"}
InPool(n) == node[n].ready /\ node[n].capacity

ClusterInit ==
  /\ up = [n \in Nodes |-> "works"] /\ age = [n \in Nodes |-> 0]
  /\ node = [n \in Nodes |-> [ready |-> TRUE, capacity |-> TRUE]]
  /\ beat = [n \in Nodes |-> NoBeat]
  /\ clusterJob = [j \in ClusterJobs |-> [status |-> "new", on |-> CHOOSE n \in Nodes : TRUE]]
  /\ downs = 0

\* Jobs of node n that the reapers find: all, or just those waiting.
Reaped(n, statuses) ==
  [j \in ClusterJobs |->
     IF clusterJob[j].on = n /\ clusterJob[j].status \in statuses
     THEN [clusterJob[j] EXCEPT !.status = "reaped"] ELSE clusterJob[j]]

-----------------------------------------------------------------------------
(* cluster_node_heartbeat on node n.                                         *)

\* is_lost
Lost_atTolerance(n) == age[n] >= Tolerance
Lost(n) == age[n] > Tolerance

ReadInstances(n) ==
  /\ up[n] # "down" /\ beat[n].at = "off"
  /\ beat' = [beat EXCEPT ![n] =
       [at |-> "read", lost |-> {m \in Nodes \ {n} : Lost(m)},
        ready |-> {m \in Nodes : node[m].ready}, startup |-> Lost(n), who |-> {}]]
  /\ UNCHANGED <<up, age, node, clusterJob, downs>>

\* save_health_data names node_state only if it differs from what was read: a node
\* marked offline in between stays so, with its capacity, until the next heartbeat.
StateSaved_readOnly(n) == node[n].ready
StateSaved(n) == IF n \in beat[n].ready THEN node[n].ready ELSE TRUE

\* local_health_check; a node that was lost itself ends no jobs of others.
CheckHealth(n) ==
  /\ beat[n].at = "read"
  /\ age' = [age EXCEPT ![n] = 0]
  /\ \E ok \in IF n \in NoRedis THEN BOOLEAN ELSE {TRUE} :
       /\ node' = [node EXCEPT ![n] = [ready |-> ok /\ StateSaved(n), capacity |-> ok]]
       /\ beat' = [beat EXCEPT ![n].at = "reap",
                               ![n].lost = IF beat[n].startup /\ ok THEN {} ELSE @]
  /\ UNCHANGED <<up, clusterJob, downs>>

\* For each that is lost: end its jobs, whoever has changed its row by now; then
\* mark it offline, if the row that was read said READY.
ReapLost(n, m) ==
  /\ beat[n].at = "reap" /\ m \in beat[n].lost
  /\ clusterJob' = Reaped(m, Unfinished)
  /\ beat' = [beat EXCEPT ![n].at = "mark", ![n].lost = @ \ {m}, ![n].who = {m}]
  /\ UNCHANGED <<up, age, node, downs>>

MarkOffline(n, m) ==
  /\ beat[n].at = "mark" /\ m \in beat[n].who
  /\ node' = [node EXCEPT ![m] =
       IF m \in beat[n].ready THEN [ready |-> FALSE, capacity |-> FALSE] ELSE @]
  /\ beat' = [beat EXCEPT ![n].at = "reap", ![n].who = {}]
  /\ UNCHANGED <<up, age, clusterJob, downs>>

\* In dispatch_startup the heartbeat is followed by startup_reaping and reap_waiting.
StartupReaped_runningOnly(n) == Reaped(n, {"running"})
StartupReaped(n) == Reaped(n, Unfinished)

EndHeartbeat(n) ==
  /\ beat[n].at = "reap" /\ beat[n].lost = {}
  /\ beat' = [beat EXCEPT ![n] = NoBeat]
  /\ up' = [up EXCEPT ![n] = "works"]
  /\ clusterJob' = IF up[n] = "starting" THEN StartupReaped(n) ELSE clusterJob
  /\ UNCHANGED <<age, node, downs>>

-----------------------------------------------------------------------------
GoDown(n) ==
  /\ n \in Mortal /\ downs < MaxDowns /\ downs' = downs + 1
  /\ up' = [up EXCEPT ![n] = "down"] /\ beat' = [beat EXCEPT ![n] = NoBeat]

Crash(n) == up[n] # "down" /\ GoDown(n) /\ UNCHANGED <<age, node, clusterJob>>

\* inform_cluster_of_shutdown
ShutDown(n) ==
  /\ up[n] = "works" /\ GoDown(n)
  /\ node' = [node EXCEPT ![n] = [ready |-> FALSE, capacity |-> FALSE]]
  /\ age' = [age EXCEPT ![n] = 0]
  /\ clusterJob' = Reaped(n, {"waiting"})

StartNode(n) ==
  /\ up[n] = "down" /\ up' = [up EXCEPT ![n] = "starting"]
  /\ UNCHANGED <<age, node, beat, clusterJob, downs>>

\* A period passes. Heartbeats come in time, but for those of laggards.
TimePasses ==
  /\ \A n \in Nodes \ Laggards : up[n] # "down" => age[n] < Tolerance
  /\ age' = [n \in Nodes |-> IF age[n] <= Tolerance THEN age[n] + 1 ELSE age[n]]
  /\ UNCHANGED <<up, node, beat, clusterJob, downs>>

-----------------------------------------------------------------------------
(* Jobs, as far as the cluster is concerned.                                 *)

PlaceJob(j, n) ==
  /\ clusterJob[j].status = "new" /\ InPool(n)
  /\ clusterJob' = [clusterJob EXCEPT ![j] = [status |-> "waiting", on |-> n]]
  /\ UNCHANGED <<up, age, node, beat, downs>>

AdvanceJob(j) ==
  /\ up[clusterJob[j].on] = "works"
  /\ \/ /\ clusterJob[j].status = "waiting"
        /\ clusterJob' = [clusterJob EXCEPT ![j].status = "running"]
     \/ /\ clusterJob[j].status = "running"
        /\ clusterJob' = [clusterJob EXCEPT ![j].status = "over"]
  /\ UNCHANGED <<up, age, node, beat, downs>>

-----------------------------------------------------------------------------
Heartbeat(n) ==
  \/ ReadInstances(n) \/ CheckHealth(n) \/ EndHeartbeat(n)
  \/ \E m \in Nodes : ReapLost(n, m) \/ MarkOffline(n, m)

ClusterNext ==
  \/ \E n \in Nodes : Heartbeat(n) \/ Crash(n) \/ ShutDown(n) \/ StartNode(n)
  \/ TimePasses
  \/ \E j \in ClusterJobs : AdvanceJob(j) \/ \E n \in Nodes : PlaceJob(j, n)

ClusterSpec == ClusterInit /\ [][ClusterNext]_clusterVars

-----------------------------------------------------------------------------
(* Properties.                                                              *)

ClusterTypeOK ==
  /\ up \in [Nodes -> {"down", "starting", "works"}] /\ age \in [Nodes -> 0 .. Tolerance + 1]
  /\ node \in [Nodes -> [ready : BOOLEAN, capacity : BOOLEAN]]
  /\ beat \in [Nodes -> [at : {"off", "read", "reap", "mark"}, lost : SUBSET Nodes,
                          ready : SUBSET Nodes, startup : BOOLEAN, who : SUBSET Nodes]]
  /\ clusterJob \in [ClusterJobs -> [status : {"new", "over", "reaped"} \cup Unfinished,
                                     on : Nodes]]

(* A node that stays up and whose heartbeats come within the tolerance loses no job
   to the other nodes, whatever befalls those (system.py 566-590 and 621-625;
   ha.py 290-298). *)
SteadfastSpared ==
  \A j \in ClusterJobs :
    clusterJob[j].status = "reaped" => clusterJob[j].on \in Mortal \cup Laggards

(* The jobs of a node that went down come to an end, whether it starts again or
   others find it lost, in whatever state it left its row (system.py 621-625;
   reaper.py 14-29). *)
LostJobsEnd ==
  \A j \in ClusterJobs :
    (clusterJob[j].status \in Unfinished /\ up[clusterJob[j].on] = "down")
      ~> (clusterJob[j].status \notin Unfinished)

(* A node that works is ready and has its capacity again, also if a heartbeat that
   was under way has marked it offline after it came back (ha.py 300-392). *)
WorkingRecovers ==
  \A n \in Nodes \ NoRedis : up[n] = "works" ~> (InPool(n) \/ up[n] = "down")
=============================================================================
