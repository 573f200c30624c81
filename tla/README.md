# Forail's job engine in TLA+

Forail (`src/forail`) is a Django back end that launches automation jobs,
schedules them over a cluster, runs them in worker processes and records what
happened. This directory holds TLA+ models of the parts where its processes meet:
the dispatcher's pool, the database row of a job that half a dozen kinds of
processes write, the workflow manager that spawns jobs along a graph while
they run, and nine services around them: dependencies and capacity, the events of
a job, tenant quotas, the dispatcher's clock, the heartbeats of a cluster, the
managers' locks, schedules, and the settings cache. TLC checks the models on small
instances; section 5 says what TLAPS proves for instances of any size.

## 1. The system

All paths are under `src/forail/main` unless they begin with `src/`.

| Component | State | Operations | Talks to |
|---|---|---|---|
| Dispatcher pool (`dispatch/pool.py`, `dispatch/worker/base.py`, `task.py`) | worker processes, their queues, `managed_tasks` | write, cancel, reload, cleanup, periodic tasks | bus, workers, job rows (reaping) |
| Publishing and control (`dispatch/publish.py`, `control.py`, `__init__.py`) | Postgres LISTEN/NOTIFY | apply_async, control with and without reply | everybody to the dispatcher |
| Periodic scheduler (`dispatch/periodic.py`) | periods passed of each entry | get_and_mark_pending, time_until_next_run | main loop, CELERYBEAT_SCHEDULE |
| Job row (`models/unified_jobs.py`, `tasks/jobs.py`, `tasks/signals.py`, `dispatch/reaper.py`, `utils/update_model.py`) | status, cancel_flag, celery_task_id, started | signal_start, cancel, run, reap | task manager, API, pool, heartbeat |
| Task manager (`scheduler/task_manager*.py`, `dependency_graph.py`) | rows of a cycle, capacity counted in memory | schedule, process_pending_tasks, start_task | job rows, instances, bus, advisory lock |
| Dependency manager (`scheduler/task_manager.py`) | dependent_jobs, dependencies_processed | generate_dependencies | job rows, task manager |
| Advisory lock and bulk scheduling (`utils/pglock.py`, `utils/common.py`) | session lock, per-thread queue of managers | schedule | task managers |
| Workflows (`scheduler/dag_*.py`, `models/workflow.py`) | DAG nodes with jobs and do_not_run | spawn, mark, cancel, finish | job rows |
| Event wrap-up (`dispatch/worker/callback.py`, `tasks/callback.py`) | event buffers, host_status_counts | flush, wrap up | job rows, notifications |
| Cluster (`tasks/system.py`, `models/ha.py`) | instances, last_seen, capacity | heartbeat, mark offline | reapers |
| Schedules (`models/schedules.py`, `tasks/system.py`) | next_run, schedule_last_run | awx_periodic_scheduler, save | jobs, advisory lock |
| Tenancy (`tenancy/`) | counters of a tenant, token buckets | check_tenant_quota, recalculate | API, Celery |
| Settings (`src/forail/conf/`) | rows, redis of a node, memory of a process | read, change, clear_setting_cache | every process |
| EDA, drift, policy, scanning (`tasks/eda.py`, `tasks/drift.py`, `policy/`, `scanning/`) | rule logs, snapshots, cooldowns | evaluate, capture, alert | API, job launch |
| The rest | | | see `PROJECT.json`, `components` |

What is hard about it: the dispatcher and its workers share no memory and lag
behind each other; a worker, the dispatcher or a whole node can die between any
two steps; rows are read, kept in memory and written back without locks by
users, task managers, workers and reapers; messages are not stored, so whoever is
not listening loses them. `PROJECT.json` lists these hazards line by line.

What makes each component correct, in one line each:

- pool: a message is never lost without an exception, a death or a log line, never in two places, and no worker is dismissed with work;
- job row: a job is never handled twice at a time, is always somebody's until it ends, and stops when it is canceled;
- task manager: no capacity is given out twice, nothing that is ready starves;
- dependency manager: a job starts when what it needs has been updated, and waits for nothing else;
- managers' locks: whatever happens is seen by the manager that has to act on it, though requests are dropped;
- workflow: a node runs at most once, only after its parents allow it, and the workflow finishes when nothing can run;
- events: each is stored once, whatever its neighbours are, and the notification of the end goes out once;
- cluster: jobs of a lost node are reaped, those of a live one are not, and who comes back is used again;
- periodic scheduler: an entry runs once in each period, and no later than the loop is late;
- schedules: a run is launched once, and a lost one does not stop those after it;
- tenancy: what passes the gate keeps to the limits, whatever a recalculation writes;
- settings: no value but the committed one outlives the caches' timeouts.

## 2. Modules

| Module | Models | State and actions |
|---|---|---|
| `DispatchPool` | pool.py, worker/base.py | one main loop whose long handlers (cleanup, reload) are several steps, and worker processes beside it that take, refuse, begin and finish messages and may die |
| `DispatchPool_proofs` | | TLAPS proofs about `DispatchPool` |
| `MCDispatchPool` | | symmetry for TLC |
| `JobLifecycle` | unified_jobs.py, jobs.py, reaper.py, task_manager.py (start_task), system.py (heartbeat, start), receptor.py (quota), pool.py as far as rows depend on it | the row of a job, written one database operation at a time |
| `JobLifecycle_proofs` | | TLAPS proofs about `JobLifecycle` |
| `TaskDelivery` | | what the dispatcher promises of its messages, without pool, queues or processes; `DispatchPool` implements it |
| `MCJobLifecycle` | | symmetry for TLC |
| `WorkflowManager` | task_manager.py (WorkflowManager), dag_workflow.py, dag_simple.py | one workflow, the manager's cycle over its nodes in two steps, and the jobs, users and deleted templates that change what the cycle has read |
| `WorkflowPromise` | | what a workflow promises those who watch it, without cycles and rows; `WorkflowManager` implements it |
| `WorkflowManager_proofs` | | TLAPS proofs about `WorkflowManager` |
| `MCWorkflowManager` | | the graphs TLC looks at |
| `DependencyManager` | task_manager.py (DependencyManager, blocking), dependency_graph.py, mixins.py, models/jobs.py | the rows of jobs and updates with their links; a cycle of the manager in three steps beside the task manager, users and ends of jobs |
| `Capacity` | task_manager_models.py, task_manager.py (process_pending_tasks) | status and place of each task, instances that come and go, a cycle in two steps |
| `EventWrapup` | tasks/callback.py, worker/callback.py, the end of run() in tasks/jobs.py | the events of one job from run() through redis and the receiver's buffers to rows, and both senders of its notification |
| `EventDelivery` | | what the receiver promises, without queues; `EventWrapup` implements it |
| `TenantQuota` | tenancy/quota.py, usage.py, helpers.py, the launch views | one tenant's counters, the launches that pass the gate, and the recalculation in three steps |
| `PeriodicScheduler` | periodic.py, worker/base.py (main loop) | the clock, the periods of each entry, a main loop that is late, dies and is started again |
| `ClusterHealth` | tasks/system.py (heartbeat, start, shutdown), models/ha.py, reaper.py | rows of control nodes, and the heartbeat task of each, one database operation at a time |
| `ManagerLocks` | task_manager.py (schedule), utils/common.py, pglock.py | requests for the three managers, their locks, and what a cycle has not seen |
| `Schedules` | tasks/system.py (awx_periodic_scheduler), models/schedules.py | rows of schedules and the rounds of several hosts over them |
| `SettingsCache` | src/forail/conf/settings.py, signals.py, views.py, middleware.py | one setting in the database, in each redis and in each process |
| `MCServices` | | the nine modules above side by side |
| `MCDependencyManager`, `MCPeriodicScheduler` | | instances for the findings of section 6 |
| `DependencyManager_proofs`, `Schedules_proofs`, `EventWrapup_proofs` | | TLAPS proofs about these services |
| `Limits_proofs` | | TLAPS proofs about `TenantQuota` and `Capacity` |
| `Timeliness_proofs` | | TLAPS proofs about `ClusterHealth`, `PeriodicScheduler`, `SettingsCache` and `ManagerLocks` |

### DispatchPool

`managed`, `queue`, `task`, `unflushed` are a worker's `managed_tasks`, its
inbound queue, the message it has in hand, and the finished uuids its feeder
thread has not yet written to the pipe. `Flush` is the arrival of such a uuid;
since every reader of `managed_tasks` drains the pipe first, an entry is taken
out at that moment. `Write` is the whole of `AutoscalePool.write`: growing,
choosing an idle worker, or trying the others in turn, each of which records the
message in `managed_tasks` before its queue accepts it. The workers tried before
the one that takes it are any set of those with full queues, since the order
depends on the uuid. Cleanup visits the workers one by one (`CleanupDead`,
`CleanupIdle`, `CleanupKeep`) while they go on working, then writes the
recovered messages again (`Respawn`, `Redispatch`). A worker that waits in
`queue.get` holds the queue's reader lock; one killed there may leave it locked
("wedged").

`run()` reads the row and accepts the job (`ReadRow`) and marks it running in a second
operation (`Begin`), whatever the row holds by then. `RequestCancel` is `cancel()`
up to the question; if no answer comes in time, or a negative one, `SaveCanceled` saves
"canceled" over any status and asks again, which is why `control` tells the
first request of a task from the second. `ControlCancel` signals every worker that has the uuid at
the front of its `managed_tasks`, which need not be the one that works on it, nor alive.
An exception in `perform_work` (`Raise`) reports the message as finished and leaves the row as
it is. `lost` collects what leaves the pool without an end of its job: by an
exception, by a log line, behind a wedged lock, or in the hands of a worker whose first
entry was another task, or whose reaping failed. `refused` are the tasks that some full
queue has left recorded in `managed_tasks`. What else happens to the row is the subject
of `JobLifecycle`, and so is the cancel of a job that is pending.

The promise of all this is `TaskDelivery`: a message moves from unsent to sent, started
and over and never back, so that it starts one `run()` at most, and that it arrives is not
promised. `DeliversOnce` is its specification with the fate of a message read off the
places it is in: it is started when a `run()` has accepted it. A job that was shown as
canceled between the two steps of `run()` is therefore still one start of one message.

Left out: the control replies, statistics, the metrics, `SIGUSR1` to a task manager
that runs too long, tasks that are not jobs, the exit of the main loop. A reload waits until the
QUITs of the last one are gone. `quit()` in cleanup blocks too, but only until an idle worker has taken the QUIT
of a reload, and the model visits that worker afterwards.

### JobLifecycle

`row` has the four fields of a job that decide its life. `seen` is the snapshot a
task manager works on between `ReadRows` and `Commit`; `user` is a cancel
request with the model it loaded; `saw` is `self.instance` of a `run()`;
`doomed` holds the jobs whose status `reap_job` has checked but not saved, and
`beat` what the heartbeat was bound with when it was queued. `managed` are the messages
recorded with the worker that has them, `ghosts` those recorded with one that does not:
`put()` records first and may then find the queue full. A message, and
then its `run()`, goes through the stages

    none -> bus -> pool -> run -> read -> prep -> exec -> ended -> gone

with the side exits `cancel` and `stop` (canceled before or while it was prepared),
`stranded` (in the queue of a worker that died), `lost` (dropped, unreadable, or sent to a
dispatcher that was down) and `dead` (its worker
died). Every database operation is one action, because any other process may
come between two of them. The save of a task manager and its commit are one
action: until the commit nobody sees the save, and nobody can write the rows. `Faults`
names what goes wrong in a run:

- `abort`: a task manager's transaction rolls back;
- `full`: a worker's queue is full, the next one takes the message, and the first keeps it in its list;
- `drop`: a message finds every queue full, and stays in every list;
- `lag`: a message whose end was not yet read is still in its worker's list;
- `wedge`: the queue of a dead worker cannot be read;
- `die`: a worker process dies in `run()` or with messages in its queue;
- `error`: an exception in `run()`, `update_model` gives up, or a reaping fails;
- `sigterm`: somebody other than the dispatcher signals a worker or its playbook;
- `quota`: the pod of a job exceeds a quota and the job goes back to pending;
- `survive`: workers outlive the main process of the dispatcher.

The code decides by the first entry of a worker's list (`current_task`): whom a cancel signals,
and whose job cleanup reaps. While there are ghosts or late entries (`Stale`), that
entry may be any, so `ControlCancel` may hit any worker and `Cleanup` reap any of those jobs
(`Fronts`); otherwise both are exact. A cancel that hits a worker which has not begun
its message kills it, and `Requeue` sends on what its queue held, as it does after `Strand`.
`CleanupGhost` is the cleanup of a dead worker that had nothing but ghosts in its list. The heartbeat is
bound with all that the lists hold and with whether one has two entries or more, in which case it
reaps no waiting jobs (`BindHeartbeat`).

Abstractions: one node controls all jobs. Whether a job's dependencies and the
capacity allow it to start is a free choice of `Commit`. A waiting job is old
enough to be reaped as soon as the heartbeat is bound after it began to wait, so
`JOB_WAITING_GRACE_PERIOD` may be any time. `reap`'s query and `reap_job`'s second read
of the status are one step. Which worker has which ghost is not kept: any may stand before any message.

### WorkflowManager

`edge[p][n]` is the label of the link from `p` to `n`, `converge` the nodes with
`all_parents_must_converge`, `job[n]` the status of the node's job as far as a
workflow asks for it: `pending` has no uuid yet, `active` is waiting or running.
A cycle begins with the query that loads the workflow (`BeginCycle`). Its nodes
and their jobs are read later, one by one, each job once, so `RunCycle` answers
from a view: a job that ended since the cycle began may still be seen as active, a
template deleted since then may still be seen. What the code computes by walking
the graph, the model defines as a set: `mark_dnr_nodes` goes through the nodes
parents first, which gives the one set of marks that agrees with `MarksNode`;
`bfs_nodes_to_run` visits the least set closed under following links (`Visited`).
The whole cycle is one transaction, so `Commit` is one step and `AbortCycle`
undoes it. A cycle that has read the `cancel_flag` (`CancelCycle`) marks all nodes without a job
with one UPDATE, which the nodes it holds in memory do not see. If it could cancel a job, the
workflow still runs and the code goes on to spawn by those nodes, so `CancelCycle`
spawns too, as `ToRun` says of the marks that were there before and of the
jobs as they are after the cancel, and takes back the mark of what it spawns (section 6).

`WorkflowPromise` says the same without cycles: every node has a fate (open, at work, skipped or a final
status) that moves only forward; `Run` and `Skip` need `Reached` and `OutOfReach` to hold of
the fates as they are then, whatever was read before; `Finish` needs all nodes to be over. `KeepsPromise` is this
specification with the fate of a node read off its job and its mark. It has found
that a node that loses its template after it was successful makes the workflow failed
(`dag_workflow.py` 145 looks at the template only), which the promise now says.

Left out: the details of nested workflows (a refused start is one of the jobs that
fail at once), artifacts, notifications, slicing. A spawned job is its status only;
`JobLifecycle` is about how it gets there. A save of the task manager that
overwrites a cancel (`job_revived`) can befall a workflow too, and is not repeated here.

### DependencyManager

`tasks` holds the rows in the order of their creation; `dm` is what the dependency manager
that holds the lock has read. A cycle is the query for the tasks to process
(`BeginDependencies`), the look at each project's and source's latest update
(`LookAtUpdates`), and the transaction's commit of new updates and links
(`CommitDependencies`), which stands for both calls of `generate_dependencies`. The task
manager runs under another lock, so its steps come in between: `Start` if
neither the graph of running tasks nor an unfinished dependency blocks, `FailDependent` if
one has failed. `Cancel` takes `get_jobs_fail_chain` along. Since the list of
dependencies is kept from one task to the next, `Linked` gives a task what those
before it need as well; the order of the second call is any (`Orders`). An update that a user makes by
hand of a source (`UserUpdates`) behind a job which needs the source is linked to itself in this way, is
blocked by its own status, and waits for ever: `Settles` excludes what waits for such an update and
nothing else. Left out: launches by provisioning callback, which skip the sources that
the request has just updated (`task_manager.py` 352-359).

### Capacity

A cycle reads rows and instances (`BeginCapacityCycle`) and later commits what it has
placed (`CommitCapacityCycle`), which is the fold of `Process` over the pending tasks in
their order. `Load` adds up the impact of what runs on an instance and of what it
controls, `Fit` chooses the instance with the most capacity left, `LargestIdle`
takes a job that fits nowhere. `overlooked` remembers the tasks that a cycle did not see
at work since their node was not ready: `LimitKept` says that they are the only excess. `Startable` is
what a group's `max_forks`, a control node's size and the instances leave room for at all: the code
never starts a job of more forks than each of its groups admits, nor a control task larger than every
control node, and `EveryTaskStarts` is about the others. It presupposes that tasks stop coming, since the
code keeps no instance free for a large job while small ones arrive. An instance's capacity is constant:
that the heartbeat changes it is not modelled.
`Impact` is positive: `_get_task_impact` gives jobs and ad hoc commands `min(...) + 1`
(`jobs.py:689`, `ad_hoc_commands.py:192`), inventory updates and project updates 1, system jobs 5.
What has none is not placed by a cycle: workflow jobs, and the project syncs of a job (job
type `run`), which the job itself starts when it runs.

### EventWrapup and EventDelivery

`run` is how far the job's `run()` is, `queue` the redis list, `buffer` and `wrapping` what
each worker of the receiver holds. `FlushAll` is the bulk save, `FlushEach` what happens
when the database refuses one of them, `LoseBuffer` a worker that dies or gives up. An event with a NUL
(`Nul`) is refused once, cleaned and saved on its next try; `FlushPoorly` is a single save that fails by an error of
the database that passes, which counts as one of the event's tries.
`SaveStatus`/`RunNotifies` and `SetCounts`/`ReceiverNotifies` are the two sides of the
handshake over `host_status_counts` and `status`: each writes its own field and
reads the other's under the row lock, and sends afterwards.

`EventDelivery` knows each event's fate only: unsent, underway, stored, lost.
`EventWrapup` implements it under the mapping that reads the fate off the queue, the
buffers and the rows (`Fate`; an event that is stored and still waits would be
"twice", which is no fate of the specification). The run checks `Delivered`, which
is all of `DeliverySpec`, its liveness included.

### TenantQuota

The gate's check and increment are one step, as it holds the row's lock; for the launch
of a template the whole request is. `recalculate_tenant_usage` takes no lock, so it is
`ReadUsage`, `CountJobs`, `SaveUsage`. Nothing decrements the counter when a job ends:
`post_save.connect(..., sender=UnifiedJob)` (`signals.py:299`) does not fire for
the subclasses of UnifiedJob, so the decrement that `docs/22-multi-tenancy.md:189-192`
describes does not take place. The gate takes the tenant of a job without an organization from its
inventory (`_get_org`), while a recalculation counts the jobs of the tenant's organization only
(`usage.py` 29-32): such jobs (`Strays`) and ad hoc commands are never counted again. `missed` and `lost` are the
launches that a recalculation does not look for or could not know of; `LimitsKept` bounds all others.

### PeriodicScheduler

`Look` is `run_periodic_tasks` with the marking of all that is due and the sending,
one by one, until an entry of `Undecorated` ends the process. `Tick` is a second; the loop
may be `MaxLag` seconds late for its select timeout.

### ClusterHealth

`beat[n]` is the heartbeat task of node `n` with the rows it has read: whom it holds lost,
who was READY. Its steps are the read, the node's own health check and save, the reaping of
a lost node and the save of its row, which other nodes' steps may separate. Time is
counted in heartbeat periods. `Laggards` are nodes whose heartbeat may come too late,
`Mortal` those that crash and shut down.

### ManagerLocks

`news` holds the managers for whom something was committed that no cycle of theirs has
read; `requests` are messages, which are dropped if the lock is taken and lost in a
mishap; `asks` are the requests that `task_manager_bulk_reschedule` collects and sends
when the lock is free. The workflow manager has no entry of its own in
CELERYBEAT_SCHEDULE; the task manager asks for it in each cycle that sees a workflow running.

### Schedules

A round is `BeginRound`, `SaveLastRun`, the renewal of overdue rows, the reading of
those due, and for each of them its renewal and its job. `Renew` writes `next_run` from
the clock of that moment and the rule that was read, also over an edit. A dispatcher that starts renews every
row without the lock of the rounds (`StartDispatcher`, `RenewAtStart`), also rows whose run is due and not
yet launched. `ties` are the
moments at which rounds began, `passed` the runs that went by while one before waited, `skipped` those that
a starting dispatcher moved past or a broken round left undone:
`RunsKept` says that nothing else is left out.

`Imaginary` are times that do not exist for a change of the clocks. `update_computed_fields` replaces one by the
recurrence after it, and raises if there is none (`schedules.py` 272-277). In a round nothing catches that
(`RenewalRaises`; `system.py` 734 and 745), and each later round ends the same way before it has
read the rows that are due, as long as the imaginary time lies ahead; the start of a
dispatcher and a user's edit fail for this row alone. `NeverStalls` exempts such
times, which pass.

### SettingsCache

A read (`LookUp`, `Fetch`, `Put`) goes through the memory of a process, the redis of its node
and the database; what was fetched may be put much later, `MaxHeld` at most. A
change empties the caches inside its transaction and reads the new value there (`Write`),
which puts it where others see it before the commit; after the commit
`clear_setting_cache` is broadcast, and may be missed.

### MCServices

The nine modules share no state. Their instances are one specification, in which `on` says
to which of them a behaviour belongs, and the others keep their initial values: the
states of the components add up. Every property of a component holds trivially in
the behaviours of the others, so the run checks each on its own component.

## 3. Runs

| Run | Instance | Shows |
|---|---|---|
| `pool_safe` | 3 messages, one of which may be canceled and its run() may raise, 3 process slots, pool of 1 to 2, queues of 1; running workers crash, reaping may fail | type, `Tracked`, `SingleCopy`, `Accounted` (3.3 million) |
| `pool_live` | 2 messages, 2 slots, pool of 1, queues of 1, 1 cancel; any run() may raise, crashes for ever between taking a message and finishing it | every published job is concluded, unless a reload hangs; `DeliversOnce`: every step of the pool is one of `TaskDelivery` or a stutter (105 000) |
| `job_faults` | 1 job, 2 task managers, 1 cancel, 2 sends, 1 death of the dispatcher; managers abort, workers die, the quota is exceeded, queues are full, messages are dropped, ends are read late | type, `OneRun` (3.4 million) |
| `job_crashes` | 2 managers, 1 cancel, 2 sends, 2 deaths; workers die, managers abort, stray SIGTERM | `Owned`, `HeartbeatSparesLive` (737 000) |
| `job_live` | 1 manager, 1 cancel, 1 send, 1 death; workers die, managers abort, errors in `run()` and of reapings, unreadable queues | `CancelEnds`, `NeverStuck` under `FairSpec` (297 000) |
| `job_revived` | the least that shows it | finding of section 6 |
| `wf_safe` | every graph of 3 nodes and 2 or 3 links, any convergence, 1 deleted template, 1 cancel; jobs end as successful or canceled, those that cannot start as failed | type, `OnlyReached`; `KeepsPromise`: every step is one of `WorkflowPromise` or a stutter (1.9 million) |
| `wf_live` | every graph of 3 nodes and 3 links, 1 cancel | `CanceledEnds`, `WorkflowEnds` under `FairSpec` (149 000) |
| `wf_converge` | 3 nodes | finding of section 6 |
| `services` | see below | the properties of the nine components (212 600) |
| `sched_self` | 2 templates with a project each, 1 source that users update, 2 launches | finding of section 6 |
| `periodic` | 3 entries, one of them undecorated | finding of section 6 |

The instances of `services`:

| Component | Instance | Properties | States |
|---|---|---|---|
| dependencies | a simultaneous template with an updating project and a source, one without updates; 2 launches, also of the project and of the source by hand | `UpdatedBeforeStart`, `SharedUpdate`, `Exclusive`, `Settles` | 8 700 |
| capacity | a hybrid and an execution node, 2 overlapping groups, a container group, the control plane; 4 tasks: one too large for any node, one a control task, one of more forks than its groups admit | `CapacityKept`, `LimitKept`, `EveryTaskStarts` | 30 400 |
| events | 3 events, one of them refused and one with a NUL, 2 workers, 2 tries; redis, workers, database and messages fail; playbooks and system jobs | `Delivered`, `NotifiedOnce`, `EndNotified` | 29 400 |
| quota | 2 template jobs, one of them without an organization, 1 ad hoc command, limits of 1, 2 days, jobs from elsewhere | `LimitsKept` | 41 400 |
| periodic | intervals of 5, 3 and 7 seconds, 30 seconds, a loop up to 8 seconds late, 1 stop | `OncePerPeriod`, `Punctual` | 480 |
| cluster | 2 nodes, one of which lags and goes down once, 1 job | `SteadfastSpared`, `LostJobsEnd`, `WorkingRecovers` | 17 100 |
| locks | 1 message and 1 request left over per manager, 1 mishap | `EveryChangeSeen` | 30 100 |
| schedules | 2 schedules of 2 rules, one of which ends at an imaginary time, 2 hosts, 3 moments, and 1 edit, 1 crash or 1 start of a dispatcher | `LaunchedOnce`, `RunsKept`, `NeverStalls` | 32 000 |
| settings | 2 processes on 2 nodes, timeouts of 2 and 1, 1 change | `SettingsFresh` | 23 100 |

State counts are of distinct states.

Pool: three messages let one wait behind another, be overtaken and be recovered;
three slots let a dead worker, its replacement and a surviving one meet. A queue of one
message is full at once, as the real ones are with many: in `pool_safe` messages are refused and dropped, and in
`pool_live` a reload hangs behind a message and a dead worker. `pool_live` has a pool of one so that a second
message must wait behind one whose worker dies. Job: the processes meet over one
row, so one job is enough; jobs share only the lock, the snapshot and the
heartbeat's list, in which each is treated by itself. A message's own ghost suffices for cleanup to reap a job that runs elsewhere. Two sends are needed to
run a job again after a quota, two managers to compete for the lock, two deaths
to have a heartbeat that outlives a dispatcher. `HeartbeatSparesLive` is checked without queues that are full and
ends that are read late; `JobLifecycle_proofs` has it with them, and `OneRun` also with the faults that
`job_faults` leaves out, of which no run has workers that outlive their dispatcher (`survive`). Workflow: three nodes hold a chain,
a fork, a join of two roots, and a node whose two parents depend on each other, which
is where skipping, convergence and stale views meet. The graphs number their nodes in
topological order, which every DAG allows.

Services: two workers of the receiver suffice to have events of one job in two buffers,
and three events to have a good one, a refused one and the wrap-up share one. Two nodes are enough for a
heartbeat that acts on another's row while its owner comes back; a tolerance of one
period keeps "just in time" and "too late" apart. Two hosts contend for the schedules' lock, and one
crash lets the second find a round half done, one start renews rows in the middle of a round. Intervals of 5, 3 and 7 seconds with offsets
of 0, 1 and 2 bring the entries together in every order within 30 seconds, and a lag of 8
passes over whole periods of each. One change of a setting has all of dirty reads,
rollbacks, late puts and missed announcements; the cache's timeout is longer
than the memory's, as 60 seconds are than 5.

`pool_safe` runs without deadlock checking since a reload blocks for ever on the
full queue of a dead worker (`pool.py:99`), the workflow's runs since a workflow
comes to an end.

## 4. Fairness

`DispatchPool!FairSpec`: the main loop and each worker go on (weak fairness); cleanup is
a periodic task and the listener reads its notifications in order, so neither
is passed over for ever by an endless supply of other work (strong fairness).
Crashes, cancels, reloads, exceptions and the answers to cancels are never required.

`JobLifecycle!FairSpec`: the same for the dispatcher and the steps of `run()`; a user's
request goes on; the heartbeat is periodic, and strong fairness of
`BindHeartbeat(TRUE)` and `HeartbeatReap` says that it sometimes finds every worker with at most one task,
the condition under which it reaps waiting jobs (`system.py:656`); strong fairness of `Take`
says that workers do not die for ever before they take a message. A playbook is
not required to end, except after SIGTERM, which `receptor.py:474-487` turns into
the end of the work unit. Task managers are not required to commit.

`CancelEnds` and `NeverStuck` are checked without `full`, `drop` and `lag`, with which the code does not keep them: a
message that was dropped, or refused by a queue before another one took it, is in the list of a worker that
does not have it until that worker dies or the dispatcher starts again. Meanwhile the heartbeat spares the
dropped job (`system.py` 650-657), and a cancel is
answered by that worker although it may run another job, which gets the signal
(`base.py` 83-88).

`WorkflowManager!FairSpec`: the manager is scheduled by every job that ends and by every
cycle of the task manager that sees the workflow running (`task_manager.py:535`),
which the dispatcher's schedule starts every 20 seconds, so a cycle always begins
again (weak fairness); a cycle ends, since the pool's cleanup signals one that is too slow; and
not every cycle aborts (strong fairness of `RunCycle` and `CancelCycle`). A job
needs to end only when it was told to stop; `WorkflowEnds` says in its own
premise that jobs end.

`MCServices!ServicesSpec` has weak fairness for each component: the managers run every 20
seconds and what runs ends (dependencies, capacity); `run()` and the receiver's
workers go on and the reapers look again and again (events); each node's heartbeat is
periodic and time passes (cluster); periodic requests are sent and delivered and cycles
end, which cleanup's signal sees to (locks); rounds begin again and go on (schedules).
A group of actions shares one
condition of weak fairness where some step of the group is all that the properties need. Crashes, launches, edits, mishaps,
starts of dispatchers and cancels are never required. The periodic requests presuppose a dispatcher that lives, which the
finding of `periodic` puts in doubt for installations with undecorated entries. `MCPeriodicScheduler!FairSpec`: time passes, the loop looks when its
select times out, and the dispatcher is started again.

## 5. Proofs

`DispatchPool_proofs` proves, for any set of tasks and processes, any sizes of
pool and queue and any choice of crashes (`PoolAssumption`):

| Theorem | Statement |
|---|---|
| `TypeCorrect` | `Spec => []TypeOK` |
| `TrackedAlways` | `Spec => []Tracked` |
| `SingleCopyAlways` | `Spec => []SingleCopy` |
| `AccountedAlways` | `Spec => []Accounted` |
| `DeliversOnceAlways` | `Spec => DeliversOnce`: the pool implements `TaskDelivery` |

They rest on one inductive invariant,

    IInv == TypeOK /\ Tracked /\ SingleCopy /\ Accounted /\ Unsent /\ Working /\ Distinct

`Tracked` alone is not inductive: that a write cannot put a second copy of
a message anywhere needs `SingleCopy`, which needs that a message about to be
published is nowhere yet (`Unsent`). That a process which reports a message as
finished had it, and that a dead one reports nothing, is `Working`. `Accounted` has two parts: `InPlace` (a
job that waits or runs is in the pool or in `lost`) and `Recorded` (a live worker's list names what it holds, or what
a queue refused); the second needs that a list, which is a dictionary in the code, has no uuid twice (`Distinct`), so
that a finished uuid takes its only entry away. The module first proves what appending,
taking the head and removing do to the set of a sequence's elements, then that
`Put` and `Write` preserve each part for any set of recorded workers, then one
lemma per action, and puts them together in `Invariance`. `DeliversOnceAlways` follows
the same list of actions: each leaves every message where it is or takes it onward
(`Onward`), from the bus to the pool's places and from there to its worker or its end, and
no job comes to be pending again (`Decided`). What recovery puts back was in the queue of a dead worker and had not
been begun (`Places`, `RunsOrWaits`). The status of a job plays no part after its message was sent: a cancel or
a reaper may overwrite it between any two steps.

`JobLifecycle_proofs` proves, for any numbers of jobs, task managers, users, messages
and deaths of the dispatcher, and for every choice of faults (`JobAssumption`):

| Theorem | Statement |
|---|---|
| `TypeCorrect` | `Spec => []TypeOK` |
| `OneRunAlways` | `Spec => []OneRun` |
| `OwnedAlways` | `NoLoss /\ NoSurvivor /\ Spec => []Owned` |
| `HeartbeatSparesLiveAlways` | `NoRetry /\ NoSurvivor /\ Spec => HeartbeatSparesLive` |

the first two by `IInv == TypeOK /\ OneRun /\ AtRest /\ Held`. A job is sent by who has read it as
pending, perhaps long ago. `AtRest` says that nobody handles a new or pending job, and
`Held` that this is still so for what the holder of the lock has read, since only
the holder sends. Nearly every step is `Calmer`: it brings no message to life, and it
makes a job pending only as its one `run()` leaves (`LeaveRests`, which is where
`OneRun` itself is needed: the quota's retry writes "pending", and so may the save of
a status that was read back). `CommitStep` is the one step that sends.

The last two need that some faults do not happen, which their premises say of the
constant `Faults`: no queue is full or unreadable, ends are read at once and nothing raises (`NoLoss`), no job goes back
to pending (`NoRetry`), no worker outlives its dispatcher (`NoSurvivor`). Without
`NoLoss` a row belongs to nobody for a while, until the heartbeat finds it, which is what
`NeverStuck` is about, or, if a queue has refused its message, until the dispatcher starts again (section 4);
without `NoRetry` the heartbeat does take a live `run()`'s job
(section 6). `HeartbeatSparesLiveAlways` is about the heartbeat only, and needs no `NoLoss`: what full queues and late ends
leave in the lists only adds to what the heartbeat spares. Cleanup, which goes by the first entry of a dead worker's list,
may reap a job that runs elsewhere when there are ghosts, and nothing says otherwise. Both
theorems rest on `BInv`: the live message of a job is the one its row names
(`Latest`), every `run()` and every queued message is in the pool of a dispatcher that is up
(`Placed`), and what a `run()` has done so far agrees with its row (`StageOK`). `OwnedNow`
extends `Owned` to the start of the dispatcher, after it has listed the running jobs and
before it has listed the waiting ones; it uses that without losses there are no ghosts (`Clear`), so that cleanup reaps
the job of the message it removes. For the heartbeat, `Spares` says that a job which had started when
the heartbeat was bound gets no further message, so that its live one, if any, is among those
excluded. Each lemma `...Keeps` shows all three for one group of actions; `RunKeeps` does so
for every step of `run()` but `MarkRunning`, the one that takes a row from waiting to running.

`WorkflowManager_proofs` proves, for any finite set of nodes and any set of graphs
over them (acyclic or not), any outcomes of jobs and any number of deletions
(`WorkflowAssumption`):

| Theorem | Statement |
|---|---|
| `TypeCorrect` | `Spec => []TypeOK` |
| `OnlyReachedAlways` | `Spec => []OnlyReached` |
| `EndsRightlyAlways` | `Spec => []EndsRightly` |
| `SkippedRightlyAlways` | `Spec => []SkippedRightly` |
| `KeepsPromiseAlways` | `Spec => KeepsPromise`: every step of `WorkflowManager` is one of `WorkflowPromise` or a stutter |

the first three by the invariant `IInv == TypeOK /\ Quiet /\ OnlyReached /\ EndsRightly`. `Quiet`
(a workflow that ended by itself is in no cycle) is what keeps a last cycle from spawning
behind the end. The argument has two halves. What a cycle saw of a parent is still
so when it commits, if what it saw was final (`OutcomeIs`): a view may lag, but only
towards "active". And what is final stays (`Steady`, `ReachedStays`): marks are not
taken back, templates do not return, a job's final status does not change, a
node without a template gets no job. So a step need only be examined for the nodes it
spawns (`OnlyReachedStep`), and those were visited by the search from a parent whose
link is to be followed (`VisitedFromParent`, by taking all nodes but this one as the
closed set).

`EndsRightly` and `SkippedRightly` say of every later state what `WorkflowPromise` demands of the step that
ends the workflow or gives up a node; the runs check them as parts of `KeepsPromise`. `SkippedRightly` adds to the
invariant `FlagRead`: a cycle that gives nodes up because the workflow is
canceled has read the flag, which then is still set. A node is given up for what its parents ended
as or for their being given up, and both stay (`OutcomeStays`, `GivenUpStays`), so that
the reason given in a cycle is one in every later state (`SkippedStays`).

`KeepsPromiseAlways` needs three more facts, which make up `PInv`: no node has a mark and a job (`Marked`), a cycle goes on
only in a workflow that runs or that a user called canceled, and a user does so after the flag only.
`PromiseLeads` shows that where a parent leads is the same by its fate as by its row, with which
`PromiseReached` and `PromiseOutOfReach` carry what is proved above over to the promise. Of the steps,
`RunCycle` is `Advance` or `Finish` (`PromiseAdvance`), `CancelCycle` is `GiveUp` (`PromiseGiveUp`), and what
begins, aborts or starts a job is a stutter (`PromiseOthers`).

`DependencyManager_proofs`, for any finite sets of projects and sources and any number of launches
(`DependencyAssumption`):

| Theorem | Statement |
|---|---|
| `ExclusiveAlways` | `DependencySpec => []Exclusive` |
| `UpdatedBeforeStartAlways` | `DependencySpec => UpdatedBeforeStart` |
| `SharedUpdateAlways` | `DependencySpec => []SharedUpdate` |
| `DependencyTypeCorrect` | `DependencySpec => []DependencyTypeOK` |

the first three by `IInv == Types /\ Noted /\ ProcessedLinked /\ Exclusive`. What the dependency manager noted of the
updates is stale when it commits; `Noted` says what cannot have changed since, and
`ProcessedLinked` that a task whose dependencies are processed is linked to an update of
each thing it wants. `SharedUpdateAlways` rests on `Sharing`, which strengthens `SharedUpdate` to later
updates in any status (`Latecomers`) and says of what the manager has found outdated that the update it
noted stays over and the last of its own (`OldOver`): launches in between only add updates by
hand. `Types` leaves out the bound on the rows' keys that `DependencyTypeOK` has. That bound says
that the dependency manager stops: it creates at most one update of each project and source for each
task that was launched, and none for its own updates. `Counts` shows it by counting the launched tasks
that are `Served`: what a cycle has listed are launched tasks that it has not yet processed, even
if they end meanwhile (`ListedOnce`); the cycle processes all of them and at least one, and of what it creates
no two are of one thing (`CommitCounts`).

`Schedules_proofs`, for any schedules, hosts, rules and imaginary times (`ScheduleAssumption`):

| Theorem | Statement |
|---|---|
| `TypeCorrect` | `ScheduleSpec => []ScheduleTypeOK` |
| `LaunchedOnceAlways` | `ScheduleSpec => []LaunchedOnce` |
| `RunsKeptAlways` | `ScheduleSpec => []RunsKept` |

by `IInv == Types /\ OneRound /\ Past /\ RoundsWithin /\ LaunchedOnce`: one host at a time is in a round, and
a row's `next_run` has passed what was launched, through edits, crashes, exceptions and starting dispatchers in any step of a round.
`RunsKeptAlways` rests on a second invariant, `KInv`: of a schedule without edits, what lies behind the row's
`next_run` was handled or is excused (`Settled`), what a round has read is still the row, or a starting dispatcher has moved
its `next_run` on since (`AsRead`), and a `next_run` that lies behind the last round fell on the very begin of one or was
left undone by a broken one (`Behind`), since each round that ends by itself handles every row that is due in its time.

`EventWrapup_proofs`, for any events, workers, size of buffers and number of tries, and
whichever of redis, workers, database and messages fail (`EventAssumption`):

| Theorem | Statement |
|---|---|
| `TypeCorrect` | `EventSpec => []EventTypeOK` |
| `NotifiedOnceAlways` | `EventSpec => []NotifiedOnce` |
| `DeliveredSafely` | `EventSpec => Delivery!DeliverySafety`: every step of `EventWrapup` is one of `EventDelivery` or a stutter |

An event is in one place only, and there once (`Unique`), so that `FatesRight` can say which events
were stored and which were lost; with `Emitted`, `Wrapping` and `Sent`, which order the end of `run()`, the
wrap-up event and both senders, this is `IInv`.

`Timeliness_proofs`, for any set of nodes, any tolerance and any choice of nodes that lag, crash or
have no redis (`ClusterAssumption`); any entries and periods of at least as many seconds as there are
entries (`PeriodicAssumption`, `periodic.py` 81-82 refuses any others); any processes, nodes and
timeouts (`SettingAssumption`); any numbers of requests, follow-ups and mishaps (`ManagerAssumption`):

| Theorem | Statement |
|---|---|
| `ClusterTypeCorrect` | `ClusterSpec => []ClusterTypeOK` |
| `SteadfastSparedAlways` | `ClusterSpec => []SteadfastSpared` |
| `PeriodicTypeCorrect` | `PeriodicSpec => []PeriodicTypeOK` |
| `OncePerPeriodAlways` | `PeriodicSpec => []OncePerPeriod` |
| `PunctualAlways` | `PeriodicSpec => []Punctual` |
| `SettingTypeCorrect` | `SettingSpec => []SettingTypeOK` |
| `SettingsFreshAlways` | `SettingSpec => []SettingsFresh` |
| `LockTypeCorrect` | `LockSpec => []LockTypeOK` |
| `WorkflowHeard` | `LockSpec => []Heard` |

Cluster: `ClusterIInv == ClusterTypeOK /\ SeenInTime /\ NeverLost /\ SteadfastSpared`. A node that never lags
has been seen within the tolerance (`SeenInTime`), so that no other finds it among the lost (`NeverLost`),
whenever it read the rows.

Periodic: `PeriodicInvariant == PeriodicTypeOK /\ twice = {} /\ Marking /\ Waking`. While the main loop lives,
what is marked is what ran (`Marking`), and its select times out no later than the next run of any
entry (`Waking`), as `time_until_next_run` takes the minimum over all of them; the arithmetic of periods and offsets
(`Quotient` and the lemmas after it) then makes a look that is late send an entry off once, in the
period that it is in.

Settings: `SettingInvariant == SettingTypes /\ Expiring /\ ClearedForGood`. A value that is not the committed one
is somewhere on a chain of three: held by a process that read it, in the redis of a node, in a
process's memory. `Expiring` bounds the age of each by what is left of its timeout and of those before it in
the chain, so that the sum of the three is the bound of `SettingsFresh`; it says nothing while a
transaction has written and not committed, when what is read may not be the committed value.

Locks: `LockInvariant == LockTypeOK /\ Heard`. `Heard` is the safety behind `EveryChangeSeen`: nobody calls the
workflow manager periodically, but what it has not seen, or was looking at when it died, is there
only while a workflow runs, and then each cycle of the task manager calls it.

`Limits_proofs`, for any finite sets of jobs and commands, any of the jobs without an organization, any limits and any number of days
(`QuotaAssumption`); any number of tasks with positive impacts, any finite set of instances of the three
types, any groups and limits (`CapacityAssumption`):

| Theorem | Statement |
|---|---|
| `QuotaTypeCorrect` | `QuotaSpec => []QuotaTypeOK` |
| `LimitsKeptAlways` | `QuotaSpec => []LimitsKept` |
| `CapacityTypeCorrect` | `CapacitySpec => []CapacityTypeOK` |
| `CapacityKeptAlways` | `CapacitySpec => []CapacityKept` |
| `LimitKeptAlways` | `CapacitySpec => []LimitKept` |

Quota: `QuotaIInv == QuotaTypes /\ QuotaJobs /\ QuotaLaunches /\ LimitsKept`, where `QuotaJobs` and `QuotaLaunches` relate
the counters to the jobs that run and to the launches between the gate and their job.

Capacity: `CapacityInvariant`. `CapacityKept` is not inductive: of a single job that is too large it does not
say that the rest of the load, which is for controlling, fits. `AllCarried` does: an instance
carries at most its capacity, or one job without which it would. `CycleKept` says how the rows
may differ from what a cycle has read: the cycle alone starts tasks, so that there is only less
at work than it believes (`CarriedPart`, `LimitPart`: with fewer tasks everything still holds). A cycle is
a recursive function over the pending tasks (`OneByOneExists`), and after each of them `DoneOK` holds
(`ProcessOK`): whatever the fit or the idle instance it took, the task is at a `GoodPlace` (`Chosen`). For the limits
of groups, what `has_remaining_capacity` counts covers the tasks of the group that the cycle sees at
work (`AllCounted`), since each of them runs on a ready instance of its group (`WellPlaced`, `SeenBy`). A job
that `find_largest_idle_instance` places on an idle instance is alone there because every
impact is positive (`IdleOne`). The sums are `SumFunctionOnSet`, whose recursion
over a chosen element is shown not to depend on the choice (`SumFacts`, `SumOfBoth`, `SumOfPart`).

Only model-checked: all liveness (`EventuallyConcluded`, `CancelEnds`, `NeverStuck`, `CanceledEnds`,
`WorkflowEnds`, and of the services `Settles`, `EveryTaskStarts`, `EndNotified`, the fairness half of
`Delivered`, `LostJobsEnd`, `WorkingRecovers`, `EveryChangeSeen`, `NeverStalls`), which is beyond the
prover. Every safety property of the passing runs is a theorem. `ServicesTypeOK`, the type
invariant of the composition in `MCServices`, is the conjunction of nine type invariants that are each
proved of their own specification; the composition itself, which only puts the nine side
by side for TLC, has no theorem.

## 6. Findings

Each is a run whose property quotes the repository and is violated by what
the code does; `PROJECT.json` has the quotes.

- `job_revived`: a task manager's save undoes a cancel, and the job runs.
- `wf_converge`: a node that must wait until all its parents meet their criteria runs although one of them ended in error or was canceled.
- `sched_self`: a task is linked to updates that other tasks of the same cycle need. In the trace a job is launched, and then by hand an update of the source that this job needs: the update is linked to what the job needs, the project and the update itself.
- `periodic`: an entry of CELERYBEAT_SCHEDULE that is not one of the dispatcher's tasks ends the main loop each time it is due and never runs. Three entries are Celery's `shared_task`.

Six more behaviours are part of the models without a run of their own. A cycle that
cancels a workflow marks its nodes in the database but not in memory (`task_manager.py:184`), and so
may create jobs of nodes that it has just ruled out, although `models/workflow.py:284` says of `do_not_run`
that "a job will not be created when True" (`CancelCycle`; `WorkflowPromise` has it in `GiveUp`,
and `CanceledEnds` shows that those jobs are stopped by a later cycle). The messages
behind a reader lock that died with a worker are not recovered (`pool.py:175` reads
the queue with `get(block=False)`; `DispatchPool`, "wedged"). A job sent again
after an exceeded quota keeps `started` (`receptor.py:509`), so a heartbeat that was bound
before may reap it while it runs; `job_crashes` leaves the quota out for this reason. A message
that a full queue has refused stays in that worker's `managed_tasks` (`pool.py` 88-90), with what section 4 says of cancels
and the heartbeat (`JobLifecycle`, "full" and "drop"). A dispatcher that starts skips the runs of schedules that are due and
not yet launched (`system.py` 94-99), and a schedule whose last recurrence is an imaginary time stops all
schedules until that time is over (`RenewalRaises`).

## 7. Plan

1. Abstract specifications of `Capacity` and `TenantQuota` (a ledger that never overdraws), which the detailed ones implement.
2. `ClusterHealth` composed with `JobLifecycle`: the job of a lost node that still runs there.
3. Nested workflows and approvals with their timeout, as actions of `WorkflowManager`.
4. Execution nodes: their health checks, and orphaned instances' jobs.
5. The token bucket, and EDA and drift once the repository says what runs their tasks.

## 8. Not modelled

The API's serializers and permission checks, single sign-on, credential plugins, analytics, notifications'
delivery, inventory import, and what ansible-runner, receptor, OPA and the scanners do. They
have little concurrent state of their own or are outside the repository. Event-driven
automation and drift detection run in Celery tasks for which the repository has neither
a worker nor the requirement, so there is no scheduling to be faithful to. The rebuilding of role
ancestors (`models/rbac.py`) is switched off by `ANSIBLE_BASE_ROLE_SYSTEM_ACTIVATED`. The
reason for each is in `PROJECT.json`, `components`.

Within the modelled services: database outages, automatic deprovisioning and the version
check (cluster); the time limit inside a cycle, which `ManagerLocks` has as `StopsEarly`
(capacity); what a recurrence rule means (schedules); limits on hosts and storage (quota);
encryption and dependent settings (settings).
