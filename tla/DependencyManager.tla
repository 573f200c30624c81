-------------------------- MODULE DependencyManager --------------------------
(***************************************************************************)
(* The dependency manager (scheduler/task_manager.py) gives a launched job *)
(* the updates it must wait for; the task manager, which runs under a lock *)
(* of its own, starts a task when nothing blocks it                        *)
(* (scheduler/dependency_graph.py). A task is a row of UnifiedJob: a job   *)
(* of a template, an update of a project, or one of an inventory source.   *)
(***************************************************************************)
EXTENDS Naturals, FiniteSets, SequencesExt

CONSTANTS
  Templates, Projects, Sources,  \* what tasks are of; projects and sources update on launch
  Simultaneous,   \* templates with allow_simultaneous
  ProjectOf,      \* the project of a template, or of an inventory source
  SourcesOf,      \* the sources of a template's inventory
  UserUpdates,    \* what users update by hand
  MaxLaunches     \* bound: tasks that users launch

ASSUME DependencyAssumption ==
  /\ IsFiniteSet(Projects) /\ IsFiniteSet(Sources) /\ Projects \cap Sources = {}
  /\ Templates \cap (Projects \cup Sources) = {}
  /\ Simultaneous \subseteq Templates
  /\ SourcesOf \in [Templates -> SUBSET Sources]
  /\ DOMAIN ProjectOf = Templates \cup Sources
  /\ UserUpdates \subseteq Projects \cup Sources
  /\ MaxLaunches \in Nat

VARIABLES
  tasks,  \* the rows in the order of their creation; a row's index is its key
  dm      \* the dependency manager that holds the lock

depVars == <<tasks, dm>>

Active == {"pending", "running"}
NoCycle == [at |-> "idle", list |-> {}, last |-> <<>>, old |-> {}]

DependencyInit == tasks = <<>> /\ dm = NoCycle

\* What must be up to date before a task starts. (A job that a host asks for by a
\* provisioning callback leaves out the sources which the request itself has just
\* updated, task_manager.py 352-359; no such launch is modelled.)
Wants(x) ==
  CASE x \in Templates -> ({ProjectOf[x]} \cap Projects) \cup SourcesOf[x]
    [] x \in Sources   -> {ProjectOf[x]} \cap Projects
    [] OTHER           -> {}

NewTask(x, manual) ==
  [of |-> x, manual |-> manual, status |-> "pending", flag |-> FALSE,
   processed |-> x \in Projects \/ (x \in Templates /\ Wants(x) = {}), deps |-> {}]

\* A user launches a template, or an update.
Launch(x) ==
  /\ x \in Templates \cup UserUpdates
  /\ Cardinality({i \in DOMAIN tasks : tasks[i].manual}) < MaxLaunches
  /\ tasks' = Append(tasks, NewTask(x, TRUE))
  /\ UNCHANGED dm

-----------------------------------------------------------------------------
(* The dependency manager. It reads the tasks to process, then their latest *)
(* updates, and commits new updates and links in one transaction.           *)

Updatable == Projects \cup Sources
TasksOf(x) == {i \in DOMAIN tasks : tasks[i].of = x}
Latest(x) == Max({0} \cup TasksOf(x))

\* should_update_again, where expired are those whose cache timeout is over
Outdated_whilePending(x, expired) ==
  \/ Latest(x) = 0
  \/ tasks[Latest(x)].status \in {"failed", "canceled", "pending"} \/ Latest(x) \in expired
Outdated(x, expired) ==
  \/ Latest(x) = 0
  \/ tasks[Latest(x)].status \in {"failed", "canceled"} \/ Latest(x) \in expired

Unprocessed == {i \in DOMAIN tasks : tasks[i].status = "pending" /\ ~tasks[i].processed}

BeginDependencies ==
  /\ dm.at = "idle" /\ Unprocessed # {}
  /\ dm' = [NoCycle EXCEPT !.at = "list", !.list = Unprocessed]
  /\ UNCHANGED tasks

LookAtUpdates ==
  /\ dm.at = "list"
  /\ \E expired \in SUBSET {Latest(x) : x \in {x \in Updatable :
                             Latest(x) # 0 /\ tasks[Latest(x)].status = "successful"}} :
       dm' = [dm EXCEPT !.at = "looked", !.last = [x \in Updatable |-> Latest(x)],
                        !.old = {x \in Updatable : Outdated(x, expired)}]
  /\ UNCHANGED tasks

\* The first call of generate_dependencies is for the list, the second for
\* the source updates among what the first has found.
FirstWants == UNION {Wants(tasks[i].of) : i \in dm.list}
Again == {s \in FirstWants \cap Sources :
            s \in dm.old \/ ~tasks[dm.last[s]].processed}
Created == (FirstWants \cup UNION {Wants(s) : s \in Again}) \cap dm.old

\* Links of task i when the tasks of a call are processed in the order of rank:
\* the list of dependencies is kept from one task to the next, so that a task is
\* linked to what those before it need (gen_dep_*, dependent_jobs.add).
Linked(own, rank, i) ==
  IF own[i] = {} THEN {} ELSE UNION {own[k] : k \in {k \in DOMAIN own : rank[k] <= rank[i]}}

Orders(S) == {r \in [S -> 1 .. Cardinality(S)] : IsInjective(r)}

CommitDependencies ==
  LET new == SetToSeq(Created)
      key(x) == IF x \in Created THEN Len(tasks) + CHOOSE k \in DOMAIN new : new[k] = x
                                 ELSE dm.last[x]
      again == {key(s) : s \in Again}
      keys(x) == {key(y) : y \in Wants(x)}
      rows == tasks \o [k \in DOMAIN new |-> NewTask(new[k], FALSE)]
      first == [i \in dm.list |-> keys(rows[i].of)]
      second == [i \in again |-> keys(rows[i].of)]
  IN /\ dm.at = "looked"
     /\ \E rank \in Orders(again) :
          tasks' = [i \in DOMAIN rows |->
            [rows[i] EXCEPT
               !.processed = @ \/ i \in dm.list \cup again,
               !.deps = @ \cup (IF i \in dm.list THEN Linked(first, [k \in dm.list |-> k], i) ELSE {})
                          \cup (IF i \in again THEN Linked(second, rank, i) ELSE {})]]
     /\ dm' = NoCycle

-----------------------------------------------------------------------------
(* The task manager. A cycle goes through the pending tasks; what it starts *)
(* counts as running for those after it, so one action is one task of it.   *)

DepsIn(i, statuses) == {d \in tasks[i].deps : tasks[d].status \in statuses}
Ready(i) == tasks[i].status = "pending" /\ tasks[i].processed

\* process_job_dep_failures
FailDependent(i) ==
  /\ Ready(i) /\ DepsIn(i, {"failed"}) # {}
  /\ tasks' = [tasks EXCEPT ![i].status = "failed"]
  /\ UNCHANGED dm

\* What the dependency graph knows of running tasks.
BlockedByGraph_ownOnly(i) ==
  LET x == tasks[i].of
  IN \E k \in DOMAIN tasks : tasks[k].status = "running" /\ tasks[k].of \in {x} \ Templates
BlockedByGraph(i) ==
  LET x == tasks[i].of
      against == IF x \in Templates
                   THEN Wants(x) \cup {ProjectOf[x]} \cup ({x} \ Simultaneous)
                   ELSE {x}
  IN \E k \in DOMAIN tasks : tasks[k].status = "running" /\ tasks[k].of \in against

Blocked_untilSuccessful(i) ==
  BlockedByGraph(i) \/ \E d \in tasks[i].deps : tasks[d].status # "successful"
Blocked_byGraphOnly(i) == BlockedByGraph(i)
Blocked(i) == BlockedByGraph(i) \/ DepsIn(i, Active) # {}

Start(i) ==
  /\ Ready(i) /\ DepsIn(i, {"failed"}) = {} /\ ~Blocked(i)
  /\ tasks' = [tasks EXCEPT ![i].status = "running"]
  /\ UNCHANGED dm

-----------------------------------------------------------------------------
(* Tasks end, and users cancel them.                                        *)

Finish(i) ==
  /\ tasks[i].status = "running"
  /\ \E result \in IF tasks[i].flag THEN {"canceled"} ELSE {"successful", "failed"} :
       tasks' = [tasks EXCEPT ![i].status = result]
  /\ UNCHANGED dm

\* get_jobs_fail_chain: a source update takes along the other source updates of
\* one of the jobs that wait for it.
WaitFor(S) == {k \in DOMAIN tasks : tasks[k].deps \cap S # {}}
FailChains(i) ==
  CASE tasks[i].of \in Projects -> {WaitFor({i}) \cup WaitFor(WaitFor({i}))}
    [] tasks[i].of \in Sources ->
         IF WaitFor({i}) = {} THEN {{}}
         ELSE {WaitFor({i}) \cup {d \in tasks[k].deps \ {i} : tasks[d].of \in Sources} :
                 k \in WaitFor({i})}
    [] OTHER -> {{}}

\* A pending task is canceled at once, a running one once it notices.
Cancel(i) ==
  /\ tasks[i].status \in Active /\ ~tasks[i].flag
  /\ \E chain \in FailChains(i) :
       tasks' = [k \in DOMAIN tasks |->
         IF k \notin chain \cup {i} \/ tasks[k].status \notin Active THEN tasks[k]
         ELSE [tasks[k] EXCEPT !.flag = TRUE,
                               !.status = IF @ = "pending" THEN "canceled" ELSE @]]
  /\ UNCHANGED dm

-----------------------------------------------------------------------------
DependencyCycle == BeginDependencies \/ LookAtUpdates \/ CommitDependencies

DependencyNext ==
  \/ \E x \in Templates \cup Projects \cup Sources : Launch(x)
  \/ BeginDependencies \/ LookAtUpdates \/ CommitDependencies
  \/ \E i \in DOMAIN tasks :
       FailDependent(i) \/ Start(i) \/ Finish(i) \/ Cancel(i)

DependencySpec == DependencyInit /\ [][DependencyNext]_depVars

Keys == 1 .. MaxLaunches * (1 + Cardinality(Projects) + Cardinality(Sources))

-----------------------------------------------------------------------------
(* Properties.                                                              *)

Task == [of : Templates \cup Projects \cup Sources, manual : BOOLEAN,
         status : Active \cup {"successful", "failed", "canceled"}, flag : BOOLEAN,
         processed : BOOLEAN, deps : SUBSET Keys]

DependencyTypeOK ==
  /\ DOMAIN tasks \subseteq Keys /\ \A i \in DOMAIN tasks : tasks[i] \in Task
  /\ dm.at \in {"idle", "list", "looked"} /\ dm.list \subseteq DOMAIN tasks

(* Two updates of one project or of one source never run at a time, nor do two
   jobs of a template that is not simultaneous (dependency_graph.py 43-141). *)
Exclusive ==
  \A i, k \in DOMAIN tasks :
    /\ i # k /\ tasks[i].of = tasks[k].of /\ tasks[i].of \notin Simultaneous
    => ~(tasks[i].status = "running" /\ tasks[k].status = "running")

(* A job starts with what it wants up to date: each of its updates was linked to
   it and is over, and none of them failed. A canceled one counts, since a cancel
   during the dependency manager's cycle misses the link that is about to be made
   (task_manager.py 320-395, 436-470; mixins.py 465-495). *)
UpdatedBeforeStart ==
  [][\A i \in DOMAIN tasks :
       tasks[i].status = "pending" /\ tasks'[i].status = "running" =>
         \A x \in Wants(tasks[i].of) :
           \E d \in tasks[i].deps : /\ tasks[d].of = x
                                    /\ tasks[d].status \in {"successful", "canceled"}]_depVars

(* Jobs share updates: of two unfinished updates of one thing that the manager
   made, the second came after a user had updated by hand in between
   (task_manager.py 320-346; test_scheduler.py 415). *)
SharedUpdate ==
  \A i, k \in DOMAIN tasks :
    /\ i < k /\ tasks[i].of = tasks[k].of /\ ~tasks[i].manual /\ ~tasks[k].manual
    /\ tasks[i].status \in Active /\ tasks[k].status \in Active
    => \E m \in i .. k : tasks[m].of = tasks[i].of /\ tasks[m].manual

Pending == {i \in DOMAIN tasks : tasks[i].status = "pending"}
WaitsForItself(i) == i \in tasks[i].deps /\ tasks[i].of \in Sources /\ tasks[i].manual

(* A pending task starts, fails or is canceled, unless what it waits for, itself or
   through others, includes a source's update that waits for itself: one that a user
   made by hand and that is processed behind a job which needs it
   (task_manager.py 390-392). Nothing else makes tasks wait in a circle. *)
Settles ==
  []<>(\A S \in (SUBSET Pending) \ {{}} :
         (\A i \in S : tasks[i].deps \cap Pending \subseteq S) =>
           \E i \in S : WaitsForItself(i))

=============================================================================
