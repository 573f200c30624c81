---------------------------- MODULE DispatchPool ----------------------------
(***************************************************************************)
(* The dispatcher's pool of worker processes (main/dispatch/pool.py and    *)
(* main/dispatch/worker/base.py): one single-threaded main loop that       *)
(* delivers task messages, cancels, reloads and cleans up, and worker      *)
(* processes that run beside it and can die between any two of its steps.  *)
(*                                                                         *)
(* Every task here is a job task (RunJob and its siblings), so it has a    *)
(* row with a status; what the run() of a job does with that row in detail *)
(* is the subject of module JobLifecycle.                                  *)
(***************************************************************************)
EXTENDS Naturals, Sequences, FiniteSets, SequencesExt

CONSTANTS
  Tasks,        \* the uuids of the task messages
  Pids,         \* process slots; the slot of a dead worker is used again
  MinWorkers, MaxWorkers,
  QueueSize,    \* queue_size, JOB_EVENT_MAX_QUEUE_SIZE
  QUIT, None,
  Cancels,      \* the tasks a user may cancel
  Raises,       \* the tasks the work on which may end in an exception
  CrashPhases,  \* the process states in which the OS may kill a worker
  ReapMayFail   \* may the database refuse the reaping of a job?

ASSUME PoolAssumption ==
  /\ MinWorkers \in Nat \ {0} /\ MaxWorkers \in Nat /\ MinWorkers <= MaxWorkers
  /\ QueueSize \in Nat \ {0}
  /\ IsFiniteSet(Pids) /\ MaxWorkers <= Cardinality(Pids)
  /\ QUIT \notin Tasks /\ None \notin Tasks /\ Cancels \cup Raises \subseteq Tasks
  /\ CrashPhases \subseteq {"idle", "starting", "read", "running"}
  /\ ReapMayFail \in BOOLEAN

VARIABLES
  \* the main process
  bus,        \* published messages the listener has not read
  control,    \* unread cancel messages: a task, and whether its cancel()'s 1st or 2nd
  phase,      \* "main", or the multi-step handler the loop is inside of
  todo,       \* workers that handler has still to visit
  orphaned,   \* messages recovered from dead workers, to be written again
  workers,    \* pool.workers
  managed,    \* managed_tasks of each worker, oldest first
  \* the worker processes
  proc,       \* state of each process
  queue,      \* its inbound multiprocessing queue
  task,       \* the message it is processing
  sigterm,    \* SIGTERM caught by with_signal_handling
  unflushed,  \* uuids put on `finished`, still in the feeder thread
  \* the database and what is kept for the properties
  status,     \* status of the job of each task
  cancelFlag, \* its cancel_flag
  asked,      \* tasks whose cancel() has no answer from the dispatcher yet
  lost,       \* tasks that left the pool by an exception, a death or a log line
  refused     \* tasks that some worker's queue had no room for

mainVars == <<bus, control, phase, todo, orphaned, workers, managed>>
procVars == <<proc, queue, task, sigterm, unflushed>>
dbVars   == <<status, cancelFlag, asked, lost, refused>>
vars     == <<bus, control, phase, todo, orphaned, workers, managed,
              proc, queue, task, sigterm, unflushed, status, cancelFlag, asked, lost, refused>>

\* A process waits for a message, has one, has read the job's row, runs the job.
Alive == {"idle", "starting", "read", "running"}
InRunPhases == {"read", "running"}
Dead  == {"exited", "crashed", "wedged"}
Terminal == {"successful", "failed", "canceled"}

IsAlive(p) == proc[p] \in Alive
Busy(p)    == managed[p] # <<>>
Messages(p) == ToSet(queue[p]) \ {QUIT}

-----------------------------------------------------------------------------
(* Initially the pool has its minimum of idle workers and nothing was sent. *)

Init ==
  /\ bus = {} /\ control = {} /\ phase = "main" /\ todo = {} /\ orphaned = {}
  /\ workers \in {ws \in SUBSET Pids : Cardinality(ws) = MinWorkers}
  /\ managed = [p \in Pids |-> <<>>]
  /\ proc = [p \in Pids |-> IF p \in workers THEN "idle" ELSE "exited"]
  /\ queue = [p \in Pids |-> <<>>]
  /\ task = [p \in Pids |-> None]
  /\ sigterm = [p \in Pids |-> FALSE]
  /\ unflushed = [p \in Pids |-> <<>>]
  /\ status = [t \in Tasks |-> "pending"]
  /\ cancelFlag = [t \in Tasks |-> FALSE]
  /\ asked = {} /\ lost = {} /\ refused = {}

-----------------------------------------------------------------------------
(* Other processes: the task manager publishes, a user cancels.             *)

\* TaskManager.start_task commits the job as waiting together with the NOTIFY.
Submit(t) ==
  /\ status[t] = "pending"
  /\ status' = [status EXCEPT ![t] = "waiting"]
  /\ bus' = bus \cup {t}
  /\ UNCHANGED <<control, phase, todo, orphaned, workers, managed, procVars, cancelFlag, asked, lost, refused>>

\* UnifiedJob.cancel saves cancel_flag, sends the control message and waits for the answer.
RequestCancel(t) ==
  /\ t \in Cancels /\ status[t] \in {"waiting", "running"} /\ ~cancelFlag[t]
  /\ cancelFlag' = [cancelFlag EXCEPT ![t] = TRUE]
  /\ control' = control \cup {<<t, 1>>}
  /\ asked' = asked \cup {t}
  /\ UNCHANGED <<bus, phase, todo, orphaned, workers, managed, procVars, status, lost, refused>>

\* The answer is negative, or too late: cancel() saves status = 'canceled' over whatever
\* the row holds by now, and sends the message again.
SaveCanceled(t) ==
  /\ t \in asked
  /\ asked' = asked \ {t}
  /\ status' = [status EXCEPT ![t] = "canceled"]
  /\ control' = control \cup {<<t, 2>>}
  /\ UNCHANGED <<bus, phase, todo, orphaned, workers, managed, procVars, cancelFlag, lost, refused>>

-----------------------------------------------------------------------------
(* Worker processes.                                                        *)

\* work_loop reads its queue: a message is taken up, QUIT ends the process.
\* An exiting process joins the feeder thread of `finished` first.
Take(p) ==
  /\ proc[p] = "idle" /\ queue[p] # <<>>
  /\ \/ /\ Head(queue[p]) # QUIT
        /\ proc' = [proc EXCEPT ![p] = "starting"]
        /\ task' = [task EXCEPT ![p] = Head(queue[p])]
        /\ queue' = [queue EXCEPT ![p] = Tail(@)]
     \/ /\ Head(queue[p]) = QUIT /\ unflushed[p] = <<>>
        /\ proc' = [proc EXCEPT ![p] = "exited"]
        /\ queue' = [queue EXCEPT ![p] = IF p \in workers THEN Tail(@) ELSE <<>>]
        /\ UNCHANGED task
  /\ UNCHANGED <<mainVars, sigterm, unflushed, dbVars>>

\* The uuid of the message goes on `finished` whatever perform_work did.
Done(p) ==
  /\ proc' = [proc EXCEPT ![p] = "idle"]
  /\ task' = [task EXCEPT ![p] = None]
  /\ sigterm' = [sigterm EXCEPT ![p] = FALSE]
  /\ unflushed' = [unflushed EXCEPT ![p] = Append(@, task[p])]

\* run() refuses a job that is canceled or no longer active.
MayStart(t) == status[t] \notin Terminal /\ ~cancelFlag[t]

Refuse(p) ==
  /\ proc[p] = "starting" /\ ~MayStart(task[p])
  /\ status' = IF status[task[p]] \in Terminal /\ ~cancelFlag[task[p]]
               THEN status ELSE [status EXCEPT ![task[p]] = "canceled"]
  /\ Done(p)
  /\ UNCHANGED <<mainVars, queue, cancelFlag, asked, lost, refused>>

\* run() reads the row and accepts the job; from here SIGTERM only sets a flag.
ReadRow(p) ==
  /\ proc[p] = "starting" /\ MayStart(task[p])
  /\ proc' = [proc EXCEPT ![p] = "read"]
  /\ UNCHANGED <<mainVars, queue, task, sigterm, unflushed, dbVars>>

\* It marks the job running, whatever became of the row since it was read.
Begin(p) ==
  /\ proc[p] = "read"
  /\ status' = [status EXCEPT ![task[p]] = "running"]
  /\ proc' = [proc EXCEPT ![p] = "running"]
  /\ UNCHANGED <<mainVars, queue, task, sigterm, unflushed, cancelFlag, asked, lost, refused>>

\* run() ends: with its result, or because of the signal; a signal without a
\* cancel_flag counts as a shutdown, which fails the job.
Finish(p) ==
  /\ proc[p] = "running"
  /\ \E result \in IF ~sigterm[p] THEN {"successful"}
                   ELSE {"successful", IF cancelFlag[task[p]] THEN "canceled" ELSE "failed"} :
       status' = [status EXCEPT ![task[p]] = result]
  /\ Done(p)
  /\ UNCHANGED <<mainVars, queue, cancelFlag, asked, lost, refused>>

\* An exception of the database or of run() itself ends the work on a message: work_loop
\* logs it and reports the message finished, and the row stays as it is.
Raise(p) ==
  /\ proc[p] \in {"starting", "read", "running"} /\ task[p] \in Raises
  /\ lost' = lost \cup {task[p]}
  /\ Done(p)
  /\ UNCHANGED <<mainVars, queue, status, cancelFlag, asked, refused>>

\* The feeder thread hands a finished uuid to the pipe. Every reader of
\* managed_tasks drains the pipe first, so the entry is gone from that moment.
Flush(p) ==
  /\ IsAlive(p) /\ unflushed[p] # <<>>
  /\ unflushed' = [unflushed EXCEPT ![p] = Tail(@)]
  /\ \E i \in 1 .. Len(managed[p]) :
       /\ managed[p][i] = Head(unflushed[p])
       /\ managed' = [managed EXCEPT ![p] = RemoveAt(@, i)]
  /\ UNCHANGED <<bus, control, phase, todo, orphaned, workers, proc, queue, task, sigterm, dbVars>>

\* A signal ends these processes: one waiting in queue.get may die holding the
\* queue's reader lock ("wedged"). What the feeder thread held is gone.
Killed(ps) ==
  /\ \E locked \in SUBSET {p \in ps : proc[p] = "idle"} :
       proc' = [p \in Pids |-> IF p \in locked THEN "wedged"
                              ELSE IF p \in ps THEN "crashed" ELSE proc[p]]
  /\ queue' = [p \in Pids |-> IF p \in ps \ workers THEN <<>> ELSE queue[p]]
  /\ unflushed' = [p \in Pids |-> IF p \in ps THEN <<>> ELSE unflushed[p]]

\* The operating system kills a worker.
Crash(p) ==
  /\ proc[p] \in CrashPhases
  /\ Killed({p})
  /\ UNCHANGED <<mainVars, task, sigterm, dbVars>>

-----------------------------------------------------------------------------
(* The main loop writes a message to the pool.                              *)

ShouldGrow == Cardinality(workers) < MinWorkers \/ \A w \in workers : Busy(w)
Full == Cardinality(workers) = MaxWorkers
Spare == {p \in Pids \ workers : proc[p] \in Dead}

\* up() appends one worker, unless the pool is full.
Grown_unlimited == {workers \cup {p} : p \in Spare}
Grown == IF Full THEN {workers} ELSE {workers \cup {p} : p \in Spare}

\* put() records the message before it waits for room in the queue: the workers
\* in `recorded` have it in managed_tasks, those in `receivers` in their queue.
Put(m, recorded, receivers) ==
  /\ managed' = [p \in Pids |-> IF p \in recorded /\ m \notin ToSet(managed[p])
                                THEN Append(managed[p], m) ELSE managed[p]]
  /\ queue' = [p \in Pids |-> IF p \in receivers THEN Append(queue[p], m) ELSE queue[p]]
  /\ lost' = IF receivers = {} THEN lost \cup {m} ELSE lost
  /\ refused' = IF recorded = receivers THEN refused ELSE refused \cup {m}

HasRoom(p) == Len(queue[p]) < QueueSize

\* A write that goes on to the next worker after a put.
Write_noBreak(m) ==
  \E ws \in IF ShouldGrow THEN Grown ELSE {workers} :
    /\ workers' = ws
    /\ proc' = [p \in Pids |-> IF p \in ws \ workers THEN "idle" ELSE proc[p]]
    /\ Put(m, ws, {w \in ws : HasRoom(w)})

\* AutoscalePool.write: grow if everybody is busy, claim a worker that is not,
\* else try the workers in turn, those with a full queue first or not at all.
Write(m) ==
  \E ws \in IF ShouldGrow THEN Grown ELSE {workers} :
    /\ workers' = ws
    /\ proc' = [p \in Pids |-> IF p \in ws \ workers THEN "idle" ELSE proc[p]]
    /\ \/ \E w \in ws : /\ ~Busy(w)
                        /\ Put(m, {w}, IF HasRoom(w) THEN {w} ELSE {})
       \/ /\ \A w \in ws : Busy(w)
          /\ \E full \in SUBSET {w \in ws : ~HasRoom(w)} :
               \/ \E w \in ws : HasRoom(w) /\ Put(m, full \cup {w}, {w})
               \/ full = ws /\ Put(m, ws, {})

\* The listener hands a published message to the pool.
Dispatch(m) ==
  /\ phase = "main" /\ m \in bus
  /\ Write(m)
  /\ bus' = bus \ {m}
  /\ UNCHANGED <<control, phase, todo, orphaned, task, sigterm, unflushed, status, cancelFlag, asked>>

-----------------------------------------------------------------------------
(* Control messages.                                                        *)

\* cancel: SIGTERM to every worker whose current_task, the front of managed_tasks, has
\* the uuid, whatever it works on. It kills a worker that has not entered run(), which
\* installs a handler; a dead one is still there to be signalled until it is cleaned up.
\* The answer, positive if there was such a worker, may come after cancel() gave up.
ControlCancel(c) ==
  /\ phase = "main" /\ c \in control
  /\ control' = control \ {c}
  /\ LET hit == {w \in workers : Busy(w) /\ Head(managed[w]) = c[1]}
     IN /\ \E caught \in SUBSET {w \in hit : proc[w] = "starting"} :
             /\ Killed({w \in hit : proc[w] \in {"idle", "starting"}} \ caught)
             /\ sigterm' = [p \in Pids |-> \/ sigterm[p] \/ p \in caught
                                           \/ p \in hit /\ proc[p] \in InRunPhases]
        /\ asked' \in {asked} \cup (IF hit = {} THEN {} ELSE {asked \ {c[1]}})
  /\ UNCHANGED <<bus, phase, todo, orphaned, workers, managed, task, status, cancelFlag, lost, refused>>

\* reload: quit() to every worker of the pool, all of which stay in it. The
\* model's bound: a reload waits until the QUITs of the last one are gone.
Reload ==
  /\ phase = "main" /\ workers # {} /\ \A w \in workers : QUIT \notin ToSet(queue[w])
  /\ phase' = "reload" /\ todo' = workers
  /\ UNCHANGED <<bus, control, orphaned, workers, managed, procVars, dbVars>>

ReloadWorker(w) ==
  /\ phase = "reload" /\ w \in todo /\ HasRoom(w)
  /\ todo' = todo \ {w}
  /\ phase' = IF todo = {w} THEN "main" ELSE "reload"
  /\ queue' = [queue EXCEPT ![w] = Append(@, QUIT)]
  /\ UNCHANGED <<bus, control, orphaned, workers, managed, proc, task, sigterm, unflushed, dbVars>>

-----------------------------------------------------------------------------
(* cleanup(), every 60 seconds: visit each worker, then write again what the *)
(* dead ones left.                                                           *)

Cleanup ==
  /\ phase = "main"
  /\ phase' = "scan" /\ todo' = workers
  /\ UNCHANGED <<bus, control, orphaned, workers, managed, procVars, dbVars>>

\* orphaned_tasks: what is left in its queue, unless the reader lock died with it.
Recovered_lost(w) == {}
Recovered_currentToo(w) == IF proc[w] = "wedged" THEN {} ELSE Messages(w) \cup ({task[w]} \ {None})
Recovered(w) == IF proc[w] = "wedged" THEN {} ELSE Messages(w)

\* A dead worker: the job of its current_task is reaped, its messages recovered. What it
\* had in hand is lost if an earlier task still was the front, or the reaping fails.
CleanupDead(w) ==
  /\ phase = "scan" /\ w \in todo /\ ~IsAlive(w)
  /\ todo' = todo \ {w}
  /\ workers' = workers \ {w}
  /\ \E reaped \in IF Busy(w) /\ status[Head(managed[w])] \in {"waiting", "running"}
                   THEN {{Head(managed[w])}} \cup (IF ReapMayFail THEN {{}} ELSE {})
                   ELSE {{}} :
       /\ status' = [t \in Tasks |-> IF t \in reaped THEN "failed" ELSE status[t]]
       /\ lost' = lost \cup (IF proc[w] = "wedged" THEN Messages(w) ELSE {})
                       \cup ({task[w]} \ ({None} \cup reaped))
  /\ orphaned' = orphaned \cup Recovered(w)
  /\ managed' = [managed EXCEPT ![w] = <<>>]
  /\ queue' = [queue EXCEPT ![w] = <<>>]
  /\ task' = [task EXCEPT ![w] = None]
  /\ sigterm' = [sigterm EXCEPT ![w] = FALSE]
  /\ UNCHANGED <<bus, control, phase, proc, unflushed, cancelFlag, asked, refused>>

CleanupIdle_busyToo(w) ==
  /\ phase = "scan" /\ w \in todo /\ IsAlive(w)
  /\ Cardinality(workers) > MinWorkers /\ HasRoom(w)
  /\ todo' = todo \ {w}
  /\ workers' = workers \ {w}
  /\ queue' = [queue EXCEPT ![w] = Append(@, QUIT)]
  /\ UNCHANGED <<bus, control, phase, orphaned, managed, proc, task, sigterm, unflushed, dbVars>>

\* An idle worker above the minimum is told to quit and leaves the pool.
CleanupIdle(w) ==
  /\ phase = "scan" /\ w \in todo /\ IsAlive(w)
  /\ ~Busy(w) /\ Cardinality(workers) > MinWorkers /\ HasRoom(w)
  /\ todo' = todo \ {w}
  /\ workers' = workers \ {w}
  /\ queue' = [queue EXCEPT ![w] = Append(@, QUIT)]
  /\ UNCHANGED <<bus, control, phase, orphaned, managed, proc, task, sigterm, unflushed, dbVars>>

CleanupKeep(w) ==
  /\ phase = "scan" /\ w \in todo /\ IsAlive(w)
  /\ Busy(w) \/ Cardinality(workers) <= MinWorkers
  /\ todo' = todo \ {w}
  /\ UNCHANGED <<bus, control, phase, orphaned, workers, managed, procVars, dbVars>>

CleanupScanned ==
  /\ phase = "scan" /\ todo = {}
  /\ phase' = "redispatch"
  /\ UNCHANGED <<bus, control, todo, orphaned, workers, managed, procVars, dbVars>>

\* "if all the workers are dead, spawn at least one"
Respawn ==
  /\ phase = "redispatch" /\ orphaned # {} /\ workers = {}
  /\ workers' \in Grown
  /\ proc' = [p \in Pids |-> IF p \in workers' THEN "idle" ELSE proc[p]]
  /\ UNCHANGED <<bus, control, phase, todo, orphaned, managed, queue, task, sigterm, unflushed, dbVars>>

Redispatch(m) ==
  /\ phase = "redispatch" /\ m \in orphaned /\ workers # {}
  /\ Write(m)
  /\ orphaned' = orphaned \ {m}
  /\ UNCHANGED <<bus, control, phase, todo, task, sigterm, unflushed, status, cancelFlag, asked>>

CleanupEnd ==
  /\ phase = "redispatch" /\ orphaned = {}
  /\ phase' = "main"
  /\ UNCHANGED <<bus, control, todo, orphaned, workers, managed, procVars, dbVars>>

-----------------------------------------------------------------------------
MainLoop ==
  \/ \E t \in Tasks : Dispatch(t) \/ Redispatch(t) \/ \E n \in {1, 2} : ControlCancel(<<t, n>>)
  \/ \E w \in Pids : ReloadWorker(w) \/ CleanupDead(w) \/ CleanupIdle(w) \/ CleanupKeep(w)
  \/ CleanupScanned \/ Respawn \/ CleanupEnd

Worker(p) == Take(p) \/ Refuse(p) \/ ReadRow(p) \/ Begin(p) \/ Finish(p)

Next ==
  \/ \E t \in Tasks : Submit(t) \/ RequestCancel(t) \/ SaveCanceled(t)
  \/ \E p \in Pids : Worker(p) \/ Raise(p) \/ Flush(p) \/ Crash(p)
  \/ MainLoop \/ Cleanup \/ Reload

Spec == Init /\ [][Next]_vars

\* The main loop and the workers keep running, pool_cleanup is periodic, and the
\* listener reads its notifications in order, so no message is passed over for ever.
FairSpec ==
  /\ Spec
  /\ WF_vars(MainLoop) /\ SF_vars(Cleanup)
  /\ \A t \in Tasks : SF_vars(Dispatch(t))
  /\ \A p \in Pids : WF_vars(Worker(p)) /\ WF_vars(Flush(p))

-----------------------------------------------------------------------------
(* Properties.                                                              *)

TypeOK ==
  /\ bus \subseteq Tasks /\ control \subseteq Tasks \X {1, 2} /\ orphaned \subseteq Tasks
  /\ phase \in {"main", "scan", "redispatch", "reload"}
  /\ workers \subseteq Pids /\ todo \subseteq workers
  /\ Cardinality(workers) <= MaxWorkers
  /\ managed \in [Pids -> Seq(Tasks)]
  /\ proc \in [Pids -> Alive \cup Dead]
  /\ queue \in [Pids -> Seq(Tasks \cup {QUIT})]
  /\ task \in [Pids -> Tasks \cup {None}]
  /\ sigterm \in [Pids -> BOOLEAN]
  /\ unflushed \in [Pids -> Seq(Tasks)]
  /\ status \in [Tasks -> Terminal \cup {"pending", "waiting", "running"}]
  /\ cancelFlag \in [Tasks -> BOOLEAN]
  /\ asked \subseteq Tasks /\ lost \subseteq Tasks /\ refused \subseteq Tasks

\* What a process has been given and has not reported back as finished.
Held(p) == Messages(p) \cup ({task[p]} \ {None}) \cup ToSet(unflushed[p])

(* Everything a process still holds is in its managed_tasks, and a process that
   left the pool holds nothing: so scaling down an "idle" worker never takes a
   queued or running job away (pool.py 82-92, 123-146, 404-411). *)
Tracked ==
  \A p \in Pids : /\ Held(p) \subseteq ToSet(managed[p])
                  /\ p \notin workers => managed[p] = <<>>

\* No message twice in a sequence; QUIT may repeat.
NoRepeat(s) == \A i, j \in DOMAIN s : s[i] = s[j] /\ s[i] # QUIT => i = j

(* A message exists once: on the bus, among the orphans, or with one worker, in
   its queue, being run or just finished. Recovery from dead workers and writes
   that try several queues never make two workers run one job (pool.py 160-182,
   283-298, 464-486). *)
SingleCopy ==
  /\ bus \cap orphaned = {}
  /\ \A p \in Pids : /\ Held(p) \cap (bus \cup orphaned) = {}
                     /\ task[p] \notin Messages(p) \cup ToSet(unflushed[p])
                     /\ Messages(p) \cap ToSet(unflushed[p]) = {}
                     /\ NoRepeat(queue[p]) /\ NoRepeat(unflushed[p])
  /\ \A p, r \in Pids : p # r => Held(p) \cap Held(r) = {}

Somewhere(t) ==
  \/ t \in bus \cup orphaned
  \/ \E w \in workers : t \in Messages(w) \/ task[w] = t

(* A job that waits or runs has its message or its worker in the pool, or was lost:
   an exception of run(), its worker's death without a reaping, a wedged queue, a write
   that found every queue full. And managed_tasks of a live worker names only what it
   holds, and what a queue refused; so the heartbeat, which passes over what is recorded
   there (system.py 650-657), sees every lost job that no queue has refused (pool.py
   82-92, 123-146, 369-436; base.py 316-321). *)
InPlace == \A t \in Tasks : status[t] \in {"waiting", "running"} => Somewhere(t) \/ t \in lost
Recorded == \A w \in workers : IsAlive(w) => ToSet(managed[w]) \subseteq Held(w) \cup refused
Accounted == InPlace /\ Recorded

\* What the inductive invariant needs besides: a job still pending has no message
\* anywhere and is not being canceled, only a process that works on a message has a
\* task, a dead one has no feeder thread, and managed_tasks, a dictionary, has no uuid twice.
Unsent == \A t \in Tasks : status[t] = "pending" =>
            t \notin bus \cup orphaned \cup asked /\ \A p \in Pids : t \notin Held(p)
Working == \A p \in Pids : /\ proc[p] \in {"starting", "read", "running"} => task[p] \in Tasks
                           /\ proc[p] \in {"idle", "exited", "wedged"} => task[p] = None
                           /\ ~IsAlive(p) => unflushed[p] = <<>>

Distinct == \A p \in Pids : NoRepeat(managed[p])

IInv == TypeOK /\ Tracked /\ SingleCopy /\ Accounted /\ Unsent /\ Working /\ Distinct

(* The pool implements TaskDelivery: wherever a message is put, recovered or left
   behind, once a run() has accepted it it waits nowhere, whatever is written to the row of
   its job meanwhile, and what was dropped, refused, raised or died does not come back
   (pool.py 160-182, 369-436, 464-486; jobs.py 471-484). *)
InRun(t) == \E p \in Pids : proc[p] \in InRunPhases /\ task[p] = t
ToStart(t) == \/ t \in bus \cup orphaned
              \/ \E p \in Pids : t \in Messages(p) \/ (proc[p] = "starting" /\ task[p] = t)
Fate(t) == IF status[t] = "pending" THEN "unsent"
           ELSE IF InRun(t) THEN "started"
           ELSE IF ToStart(t) THEN "sent" ELSE "over"
Delivery == INSTANCE TaskDelivery WITH Sent <- Tasks, fate <- [t \in Tasks |-> Fate(t)]
DeliversOnce == Delivery!TaskSpec

\* A reload waits for ever on the full queue of a worker that has died.
Hung == phase = "reload" /\ \E w \in todo : ~IsAlive(w) /\ ~HasRoom(w)

(* A published message is eventually dealt with, unless a reload hangs (quit(), pool.py
   99): nothing of it is left in the pool, and its job has ended or counts as lost. *)
EventuallyConcluded ==
  \A t \in Tasks : t \in bus ~> \/ ~Somewhere(t) /\ (status[t] \in Terminal \/ t \in lost)
                                \/ Hung
=============================================================================
