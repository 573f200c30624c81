------------------------------ MODULE Capacity ------------------------------
(***************************************************************************)
(* Where the task manager puts the tasks it starts                         *)
(* (scheduler/task_manager.py, task_manager_models.py). A cycle reads the  *)
(* rows and the instances, goes through the pending tasks in the order of  *)
(* their creation, and commits what it has placed. The capacity in use is  *)
(* never stored: it is added up from the rows each time.                   *)
(***************************************************************************)
EXTENDS Integers, FiniteSets, FiniteSetsExt, SequencesExt

CONSTANTS
  NTasks,         \* tasks are numbered in the order of their creation
  Impact,         \* task_impact of a task: at least 1 for every kind that is placed
  ControlTasks,   \* tasks with capacity_type control: project updates, system jobs
  Preferred,      \* instance groups of a task's preferred_instance_groups_cache
  Instances, NodeType, CapacityOf,
  Groups,         \* the instances of an instance group, as a function
  ContainerGroups, ControlPlane,
  MaxJobs, MaxForks,  \* max_concurrent_jobs and max_forks of a group; 0 is no limit
  ControlImpact,      \* AWX_CONTROL_NODE_TASK_IMPACT
  StartLimit,         \* START_TASK_LIMIT
  Nowhere

Tasks == 1 .. NTasks

ASSUME CapacityAssumption ==
  /\ NTasks \in Nat /\ Impact \in [Tasks -> Nat \ {0}] /\ ControlTasks \subseteq Tasks
  /\ IsFiniteSet(Instances) /\ NodeType \in [Instances -> {"control", "hybrid", "execution"}]
  /\ CapacityOf \in [Instances -> Nat] /\ ControlImpact \in Nat \ {0}
  /\ Groups \in [DOMAIN Groups -> SUBSET Instances] /\ ControlPlane \in DOMAIN Groups
  /\ ContainerGroups \subseteq DOMAIN Groups /\ StartLimit \in Nat \ {0}
  /\ MaxJobs \in [DOMAIN Groups -> Nat] /\ MaxForks \in [DOMAIN Groups -> Nat]
  /\ Preferred \in [Tasks -> Seq(DOMAIN Groups)]
  /\ Nowhere \notin Instances \cup DOMAIN Groups

VARIABLES
  status,      \* of each task
  place,       \* its controller_node, execution_node and instance_group
  ready,       \* instances that are enabled and in state ready
  cycle,       \* what the task manager's cycle has read
  overlooked   \* tasks that a cycle did not see at work since their node was not ready

capVars == <<status, place, ready, cycle, overlooked>>

Unplaced == [control |-> Nowhere, node |-> Nowhere, group |-> Nowhere]
NoCapCycle == [on |-> FALSE, active |-> {}, pending |-> {}, ready |-> {}]

CapacityInit ==
  /\ status = [t \in Tasks |-> "new"] /\ place = [t \in Tasks |-> Unplaced]
  /\ ready = Instances /\ cycle = NoCapCycle /\ overlooked = {}

-----------------------------------------------------------------------------
(* Capacity in use, given the active tasks and their places.                *)

Executes(i) == NodeType[i] \in {"hybrid", "execution"}
Controls(i) == NodeType[i] \in {"hybrid", "control"}

RunsOn(active, at, i) == {t \in active : at[t].node = i /\ Executes(i)}
Load(active, at, i) ==
  SumFunctionOnSet(Impact, RunsOn(active, at, i))
    + ControlImpact * Cardinality({t \in active : at[t].control = i /\ Controls(i)})
Remaining(active, at, i) == Max({0, CapacityOf[i] - Load(active, at, i)})

\* What has_remaining_capacity compares. Forks are capacity.
OfGroup(active, at, g) == {t \in active : at[t].group = g}
JobsIn(active, at, g, up) ==
  IF g \in ContainerGroups THEN Cardinality(OfGroup(active, at, g))
  ELSE Cardinality(UNION {RunsOn(active, at, i) : i \in Groups[g] \cap up})
ForksIn(active, at, g, up) ==
  IF g \in ContainerGroups THEN SumFunctionOnSet(Impact, OfGroup(active, at, g))
  ELSE SumFunctionOnSet([i \in Instances |-> Load(active, at, i)], Groups[g] \cap up)

HasRemainingCapacity_one(active, at, g, up, jobs, forks) ==
  /\ MaxJobs[g] = 0 \/ JobsIn(active, at, g, up) <= MaxJobs[g]
  /\ MaxForks[g] = 0 \/ ForksIn(active, at, g, up) + forks <= MaxForks[g]
HasRemainingCapacity(active, at, g, up, jobs, forks) ==
  /\ MaxJobs[g] = 0 \/ JobsIn(active, at, g, up) + jobs <= MaxJobs[g]
  /\ MaxForks[g] = 0 \/ ForksIn(active, at, g, up) + forks <= MaxForks[g]

Usable(g, type, up) == {i \in Groups[g] \cap up : NodeType[i] \in {type, "hybrid"}}

\* Nowhere if no instance qualifies; among equals, whichever comes first.
Largest(S, size(_)) ==
  IF S = {} THEN Nowhere ELSE CHOOSE i \in S : \A k \in S : size(k) <= size(i)

\* fit_task_to_most_remaining_capacity_instance
Fit(active, at, g, type, up, impact, withControl) ==
  LET left(i) == Remaining(active, at, i) - impact
                   - (IF withControl /\ NodeType[i] = "hybrid" THEN ControlImpact ELSE 0)
  IN Largest({i \in Usable(g, type, up) : left(i) >= 0}, left)

\* find_largest_idle_instance takes a job that is too large for any instance
Idle_always(active, at, i) == TRUE
Idle(active, at, i) ==
  RunsOn(active, at, i) = {} \/ Remaining(active, at, i) = CapacityOf[i]
LargestIdle_dropped(active, at, g, type, up) == Nowhere
LargestIdle(active, at, g, type, up) ==
  Largest({i \in Usable(g, type, up) : CapacityOf[i] > 0 /\ Idle(active, at, i)},
          LAMBDA i : CapacityOf[i])

-----------------------------------------------------------------------------
(* process_pending_tasks                                                    *)

ControllerFor(t, active, at, up) ==
  Fit(active, at, ControlPlane, "control", up,
      IF t \in ControlTasks THEN Impact[t] + ControlImpact ELSE ControlImpact, FALSE)

Place(g, controller, node) ==
  CASE g \in ContainerGroups -> [control |-> controller, node |-> Nowhere, group |-> g]
    [] g \notin ContainerGroups /\ node = Nowhere -> Unplaced
    [] OTHER -> [control |-> IF NodeType[node] = "hybrid" THEN node ELSE controller,
                 node |-> node, group |-> g]

Else(first, second) == IF first # Nowhere THEN first ELSE second
InGroup(t, g, controller, active, at, up) ==
  IF HasRemainingCapacity(active, at, g, up, 1, Impact[t])
    THEN Place(g, controller, Else(Fit(active, at, g, "execution", up, Impact[t], TRUE),
                                   LargestIdle(active, at, g, "execution", up)))
    ELSE Unplaced

FirstFound(places) ==
  LET found == {k \in DOMAIN places : places[k] # Unplaced}
  IN IF found = {} THEN Unplaced ELSE places[Min(found)]

PlaceWith(controller, t, active, at, up) ==
  CASE controller = Nowhere -> Unplaced
    [] controller # Nowhere /\ t \in ControlTasks ->
         IF HasRemainingCapacity(active, at, ControlPlane, up, 0, ControlImpact)
         THEN [control |-> controller, node |-> controller, group |-> ControlPlane]
         ELSE Unplaced
    [] OTHER -> FirstFound([k \in DOMAIN Preferred[t] |->
                              InGroup(t, Preferred[t][k], controller, active, at, up)])

\* One task: done is what is active so far, with the places.
Add(done, t, p) ==
  IF done.left = 0 \/ p = Unplaced THEN done
  ELSE [active |-> done.active \cup {t}, at |-> [done.at EXCEPT ![t] = p],
        left |-> done.left - 1]

Process(done, t) ==
  Add(done, t, PlaceWith(ControllerFor(t, done.active, done.at, cycle.ready),
                         t, done.active, done.at, cycle.ready))

Placed(active, pending) ==
  LET done[k \in 0 .. NTasks] ==
        IF k = 0 THEN [active |-> active, at |-> place, left |-> StartLimit]
        ELSE IF k \in pending THEN Process(done[k - 1], k) ELSE done[k - 1]
  IN done[NTasks]

WithStatus(S) == {t \in Tasks : status[t] \in S}

BeginCapacityCycle ==
  /\ ~cycle.on
  /\ cycle' = [on |-> TRUE, ready |-> ready, active |-> WithStatus({"active"}),
               pending |-> WithStatus({"pending"})]
  /\ overlooked' = overlooked \cup
       {t \in WithStatus({"active"}) : place[t].node \in Instances \ ready}
  /\ UNCHANGED <<status, place, ready>>

CommitCapacityCycle ==
  /\ cycle.on
  /\ \E done \in {Placed(cycle.active, cycle.pending)} :
       /\ status' = [t \in Tasks |->
                       IF t \in done.active \ cycle.active THEN "active" ELSE status[t]]
       /\ place' = [t \in Tasks |->
                      IF t \in done.active \ cycle.active THEN done.at[t] ELSE place[t]]
  /\ cycle' = NoCapCycle
  /\ UNCHANGED <<ready, overlooked>>

-----------------------------------------------------------------------------
LaunchTask(t) ==
  /\ status[t] = "new"
  /\ status' = [status EXCEPT ![t] = "pending"]
  /\ UNCHANGED <<place, ready, cycle, overlooked>>

EndTask(t) ==
  /\ status[t] = "active"
  /\ status' = [status EXCEPT ![t] = "done"]
  /\ overlooked' = overlooked \ {t}
  /\ UNCHANGED <<place, ready, cycle>>

\* An instance leaves the state ready, or comes back: disabled by a user, or
\* unavailable for the health checks (models/ha.py).
Toggle(i) ==
  /\ ready' = IF i \in ready THEN ready \ {i} ELSE ready \cup {i}
  /\ UNCHANGED <<status, place, cycle, overlooked>>

CapacityNext ==
  \/ BeginCapacityCycle \/ CommitCapacityCycle
  \/ \E t \in Tasks : LaunchTask(t) \/ EndTask(t)
  \/ \E i \in Instances : Toggle(i)

CapacitySpec == CapacityInit /\ [][CapacityNext]_capVars

-----------------------------------------------------------------------------
(* Properties.                                                              *)

ActiveTasks == WithStatus({"active"})

CapacityTypeOK ==
  /\ status \in [Tasks -> {"new", "pending", "active", "done"}]
  /\ place \in [Tasks -> [control : Instances \cup {Nowhere}, node : Instances \cup {Nowhere},
                          group : DOMAIN Groups \cup {Nowhere}]]
  /\ ready \subseteq Instances /\ overlooked \subseteq ActiveTasks
  /\ cycle \in [on : BOOLEAN, active : SUBSET Tasks, pending : SUBSET Tasks,
               ready : SUBSET Instances]

(* An instance carries more than its capacity only if it runs a single job, one
   that was too large and found it idle, whatever groups share the instance and
   whatever ended or went away while a cycle ran (task_manager_models.py 148-154,
   209-242; task_manager.py 555-640). *)
CapacityKept ==
  \A i \in Instances :
    Load(ActiveTasks, place, i) > CapacityOf[i] =>
      Cardinality(RunsOn(ActiveTasks, place, i)) = 1

(* The jobs of a group keep to its limits, but for those on instances that a cycle
   did not count since they were not ready (task_manager_models.py 99-129). *)
LimitKept ==
  \A g \in DOMAIN Groups \ {ControlPlane} :
    LET jobs == OfGroup(ActiveTasks, place, g) \ overlooked
    IN /\ MaxJobs[g] > 0 => Cardinality(jobs) <= MaxJobs[g]
       /\ MaxForks[g] > 0 => SumFunctionOnSet(Impact, jobs) <= MaxForks[g]

\* What the limits of groups and the control nodes leave room for at all.
Startable(t) ==
  LET controllers(n) == {i \in Groups[ControlPlane] : Controls(i) /\ CapacityOf[i] >= n}
      within(g, n) == MaxForks[g] = 0 \/ n <= MaxForks[g]
  IN IF t \in ControlTasks
     THEN /\ controllers(Impact[t] + ControlImpact) # {}
          /\ within(ControlPlane, ControlImpact)
     ELSE /\ controllers(ControlImpact) # {}
          /\ \E g \in {Preferred[t][k] : k \in DOMAIN Preferred[t]} :
               /\ within(g, Impact[t])
               /\ g \in ContainerGroups \/ \E i \in Groups[g] : Executes(i) /\ CapacityOf[i] > 0

(* When tasks stop coming and the instances stay ready, every task gets its turn that
   some group of its own can take, however much larger it is than each instance
   (task_manager_models.py 228-242). Others wait for ever: a group never admits a job
   of more forks than its max_forks (line 117), and no control node takes a control
   task that is larger than itself (task_manager.py 574-584). Nor does the code keep
   an instance free for a large job while small ones go on coming. *)
EveryTaskStarts ==
  []<>(ready # Instances \/ \A t \in WithStatus({"pending"}) : ~Startable(t))
=============================================================================
