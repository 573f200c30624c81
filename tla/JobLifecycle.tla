---------------------------- MODULE JobLifecycle ----------------------------
(***************************************************************************)
(* The life of a job's database row (models/unified_jobs.py) under all the *)
(* processes that write it, one database operation at a time: users who    *)
(* cancel with a stale model, the task managers, the workers' run(), and   *)
(* the reapers of the pool, the heartbeat and the dispatcher's start.      *)
(* One node controls the jobs; its pool is the one of module DispatchPool, *)
(* seen here as the set of messages it manages.                            *)
(***************************************************************************)
EXTENDS Naturals, FiniteSets

CONSTANTS
  Jobs, Managers, Users,
  None,
  MaxRuns,    \* bound: how often a job may be sent to the dispatcher
  MaxDeaths,  \* bound: how often the dispatcher may die
  Faults      \* which faults happen

AllFaults == {"abort", "die", "error", "sigterm", "quota", "survive",
              "full", "drop", "lag", "wedge"}

ASSUME JobAssumption ==
  /\ MaxRuns \in Nat \ {0} /\ MaxDeaths \in Nat
  /\ Faults \subseteq AllFaults /\ None \notin Managers

VARIABLES
  row,      \* row of each job: status, cancel_flag, celery_task_id, is started set?
  lock,     \* holder of the advisory lock task_manager_lock
  seen,     \* rows a task manager has read and not yet saved
  user,     \* progress of each user's cancel request
  stage,    \* where each message, and then its run(), is
  saw,      \* self.instance of a run()
  term,     \* SIGTERM caught by a run()
  result,   \* its local variable status
  managed,  \* messages in managed_tasks of the worker that has them
  ghosts,   \* messages in managed_tasks of a worker that does not have them
  control,  \* cancel control messages on the bus
  phase,    \* the dispatcher: "down", the stages of its start, "up"
  toReap,   \* jobs its start has listed and not yet reaped
  doomed,   \* jobs reap_job has checked and not yet saved
  beat,     \* what the heartbeat was bound with
  deaths

pool == <<managed, ghosts, control, phase, toReap, deaths>>
runs == <<saw, term, result>>
vars == <<row, lock, seen, user, stage, saw, term, result, managed, ghosts,
          control, phase, toReap, doomed, beat, deaths>>

Terminal  == {"successful", "failed", "error", "canceled"}
CanCancel == {"new", "pending", "waiting", "running"}

\* The k-th message sent for a job; k stands for its uuid, and 0 for none.
Messages == Jobs \X (1 .. MaxRuns)
Current(j) == <<j, row[j].run>>

InRun   == {"run", "cancel", "read", "prep", "stop", "exec", "ended"}
Queued  == {"bus", "pool", "stranded"}   \* stranded: in a dead worker's queue
Live(m) == stage[m] \in Queued \cup InRun

Idle == [at |-> "idle", job |-> None, seen |-> None]
Done == [Idle EXCEPT !.at = "done"]
NoBeat == [on |-> FALSE, excluded |-> {}, begun |-> {}, waiting |-> {}]

Init ==
  /\ row = [j \in Jobs |-> [status |-> "new", flag |-> FALSE, run |-> 0, started |-> FALSE]]
  /\ lock = None /\ seen = [t \in Managers |-> None]
  /\ user = [u \in Users |-> Idle]
  /\ stage = [m \in Messages |-> "none"]
  /\ saw = [m \in Messages |-> None]
  /\ term = [m \in Messages |-> FALSE]
  /\ result = [m \in Messages |-> "error"]
  /\ managed = {} /\ ghosts = {} /\ control = {} /\ phase = "up" /\ toReap = {} /\ doomed = {}
  /\ beat = NoBeat /\ deaths = 0

-----------------------------------------------------------------------------
(* Launching, and the task managers.                                        *)

\* signal_start makes a new job pending.
SignalStart(j) ==
  /\ row[j].status = "new"
  /\ row' = [row EXCEPT ![j].status = "pending"]
  /\ UNCHANGED <<lock, seen, user, stage, runs, pool, doomed, beat>>

\* schedule(): who does not get the lock returns; the holder reads all rows.
ReadRows_noLock(t) ==
  /\ seen[t] = None
  /\ lock' = t
  /\ seen' = [seen EXCEPT ![t] = row]
  /\ UNCHANGED <<row, user, stage, runs, pool, doomed, beat>>
ReadRows(t) ==
  /\ seen[t] = None /\ lock = None
  /\ lock' = t
  /\ seen' = [seen EXCEPT ![t] = row]
  /\ UNCHANGED <<row, user, stage, runs, pool, doomed, beat>>

\* The transaction commits, and with it the NOTIFYs. A started job's row is
\* saved as a whole, over whatever was written since it was read; so is that of
\* a job that fails its pre-start check. A failed dependency saves the status.
Unused(j) == {k \in 1 .. MaxRuns : stage[<<j, k>>] = "none"}
NextRun(j) == CHOOSE k \in Unused(j) : TRUE

Saved(t, j, sent, refused, dependent) ==
  CASE j \in sent -> [seen[t][j] EXCEPT !.status = "waiting", !.run = NextRun(j)]
    [] j \in refused -> [seen[t][j] EXCEPT !.status = "failed"]
    [] j \in dependent -> [row[j] EXCEPT !.status = "failed"]
    [] OTHER -> row[j]

Commit(t) ==
  /\ seen[t] # None
  /\ LET pending == {j \in Jobs : seen[t][j].status = "pending"}
     IN \E sent, refused, dependent \in SUBSET pending :
          /\ sent \cap refused = {} /\ (sent \cup refused) \cap dependent = {}
          /\ \A j \in sent : Unused(j) # {}
          /\ row' = [j \in Jobs |-> Saved(t, j, sent, refused, dependent)]
          /\ stage' = [m \in Messages |-> IF m[1] \in sent /\ m[2] = NextRun(m[1])
                                          THEN IF phase = "down" THEN "lost" ELSE "bus"
                                          ELSE stage[m]]
  /\ seen' = [seen EXCEPT ![t] = None] /\ lock' = None
  /\ UNCHANGED <<user, runs, pool, doomed, beat>>

\* SIGUSR1 after TASK_MANAGER_TIMEOUT, an error, or the end of its session:
\* the transaction rolls back and the lock is free.
Abort(t) ==
  /\ "abort" \in Faults /\ seen[t] # None
  /\ seen' = [seen EXCEPT ![t] = None] /\ lock' = None
  /\ UNCHANGED <<row, user, stage, runs, pool, doomed, beat>>

-----------------------------------------------------------------------------
(* UnifiedJob.cancel by a user whose model may be stale when it is used.    *)

Notify(ms) == control' = IF phase = "down" THEN control ELSE control \cup ms

Open(u, j) ==
  /\ user[u].at = "idle" /\ row[j].status \in CanCancel
  /\ user' = [user EXCEPT ![u] = [at |-> "open", job |-> j, seen |-> row[j]]]
  /\ UNCHANGED <<row, lock, seen, stage, runs, pool, doomed, beat>>

\* cancel_flag is saved, then the dispatcher is asked if the model has a uuid.
SaveFlag_noUuidCheck(u) ==
  LET j == user[u].job  k == user[u].seen.run IN
  /\ user[u].at = "open"
  /\ row' = IF user[u].seen.flag THEN row ELSE [row EXCEPT ![j].flag = TRUE]
  /\ user' = [user EXCEPT ![u].at = "asked"]
  /\ Notify({<<j, k>>})
  /\ UNCHANGED <<lock, seen, stage, runs, managed, ghosts, phase, toReap, deaths, doomed, beat>>
SaveFlag(u) ==
  LET j == user[u].job  k == user[u].seen.run IN
  /\ user[u].at = "open"
  /\ row' = IF user[u].seen.flag THEN row ELSE [row EXCEPT ![j].flag = TRUE]
  /\ user' = [user EXCEPT ![u].at = IF k # 0 THEN "asked" ELSE "unanswered"]
  /\ Notify(IF k # 0 THEN {<<j, k>>} ELSE {})
  /\ UNCHANGED <<lock, seen, stage, runs, managed, ghosts, phase, toReap, deaths, doomed, beat>>

\* No reply within 5 seconds; the message may still be read later.
ReplyTimeout(u) ==
  /\ user[u].at = "asked"
  /\ user' = [user EXCEPT ![u].at = "unanswered"]
  /\ UNCHANGED <<row, lock, seen, stage, runs, pool, doomed, beat>>

\* "change status now", whatever it is by now.
SaveCanceled(u) ==
  /\ user[u].at = "unanswered"
  /\ row' = [row EXCEPT ![user[u].job].status = "canceled"]
  /\ user' = [user EXCEPT ![u].at = "canceled"]
  /\ UNCHANGED <<lock, seen, stage, runs, pool, doomed, beat>>

\* fallback_cancel reads the uuid if the model has none, and asks again.
Uuid(u) == IF user[u].seen.run # 0 THEN user[u].seen.run ELSE row[user[u].job].run

FallbackCancel_staleUuid(u) ==
  /\ user[u].at = "canceled"
  /\ user' = [user EXCEPT ![u] = Done]
  /\ Notify(IF user[u].seen.run # 0 THEN {<<user[u].job, user[u].seen.run>>} ELSE {})
  /\ UNCHANGED <<row, lock, seen, stage, runs, managed, ghosts, phase, toReap, deaths, doomed, beat>>
FallbackCancel(u) ==
  /\ user[u].at = "canceled"
  /\ user' = [user EXCEPT ![u] = Done]
  /\ Notify(IF Uuid(u) # 0 THEN {<<user[u].job, Uuid(u)>>} ELSE {})
  /\ UNCHANGED <<row, lock, seen, stage, runs, managed, ghosts, phase, toReap, deaths, doomed, beat>>

\* Inside a transaction (a workflow's cancel of its jobs) all of it commits at
\* once, and a dispatcher that could be asked is taken to have agreed.
CancelInTransaction(u) ==
  LET j == user[u].job IN
  /\ user[u].at = "open"
  /\ row' = [row EXCEPT ![j].flag = @ \/ ~user[u].seen.flag,
                        ![j].status = IF user[u].seen.run # 0 THEN @ ELSE "canceled"]
  /\ Notify(IF Uuid(u) # 0 THEN {<<j, Uuid(u)>>} ELSE {})
  /\ user' = [user EXCEPT ![u] = Done]
  /\ UNCHANGED <<lock, seen, stage, runs, managed, ghosts, phase, toReap, deaths, doomed, beat>>

-----------------------------------------------------------------------------
(* The dispatcher's main loop.                                              *)

\* A worker's list has a message before its queue takes it, and keeps it when
\* the queue is full and the next worker is tried.
Deliver(m) ==
  /\ phase = "up" /\ stage[m] = "bus"
  /\ stage' = [stage EXCEPT ![m] = "pool"]
  /\ managed' = managed \cup {m}
  /\ ghosts' \in {ghosts} \cup IF "full" \in Faults THEN {ghosts \cup {m}} ELSE {}
  /\ UNCHANGED <<row, lock, seen, user, runs, control, phase, toReap, deaths, doomed, beat>>

\* Every worker's queue is full: the message is dropped with a log line, and
\* stays in the lists.
Drop(m) ==
  /\ "drop" \in Faults /\ phase = "up" /\ stage[m] = "bus"
  /\ stage' = [stage EXCEPT ![m] = "lost"]
  /\ ghosts' = ghosts \cup {m}
  /\ UNCHANGED <<row, lock, seen, user, runs, managed, control, phase, toReap, deaths, doomed, beat>>

\* Every user who waits for an answer about m gets it.
Reply(m, acked) ==
  user' = [u \in Users |->
             IF user[u].at = "asked" /\ m = <<user[u].job, user[u].seen.run>>
             THEN IF acked THEN Done ELSE [user[u] EXCEPT !.at = "unanswered"]
             ELSE user[u]]

\* The first message of a worker's list need not be the one it runs: a ghost or
\* one whose end has not been read may stand before it.
Late == IF "lag" \in Faults THEN {m \in Messages : stage[m] = "gone"} ELSE {}
Stale == "lag" \in Faults \/ ghosts # {}

\* cancel: SIGTERM to the workers whose current_task it is. Before run() has
\* installed its handlers this kills the worker, with what its queue holds.
ControlCancel(m) ==
  /\ phase = "up" /\ m \in control
  /\ control' = control \ {m}
  /\ \E hit \in SUBSET {n \in managed : stage[n] \in {"pool"} \cup InRun}, acked \in BOOLEAN :
       /\ acked => m \in managed \cup ghosts \cup Late
       /\ hit # {} => acked
       /\ ~Stale => /\ hit \subseteq {m}
                    /\ m \in managed /\ stage[m] \in InRun => acked
                    /\ acked /\ stage[m] \in {"pool"} \cup InRun => hit = {m}
       /\ Reply(m, acked)
       /\ term' = [n \in Messages |-> term[n] \/ (n \in hit /\ stage[n] \in InRun)]
       /\ \E stranded \in SUBSET {n \in managed : stage[n] = "pool"} :
            /\ (\A n \in hit : stage[n] # "pool") => stranded = {}
            /\ stage' = [n \in Messages |-> IF n \in stranded THEN "stranded"
                                            ELSE IF n \in hit /\ stage[n] = "pool" THEN "dead" ELSE stage[n]]
  /\ UNCHANGED <<row, lock, seen, saw, result, managed, ghosts, phase, toReap, deaths, doomed, beat>>

\* reap_job reads the status again and saves "failed" only for these.
Reapable(j) == row[j].status \in {"running", "waiting"}

\* cleanup() reaps the job of the first message in a dead worker's list, unless
\* the database fails.
Reaped(m) == IF m = Current(m[1]) /\ Reapable(m[1]) THEN {m[1]} ELSE {}
Fronts(m) == IF Stale THEN {m} \cup ghosts \cup Late ELSE {m}

Cleanup(m) ==
  /\ phase = "up" /\ m \in managed /\ stage[m] = "dead"
  /\ managed' = managed \ {m} /\ ghosts' \in SUBSET ghosts
  /\ doomed' \in {doomed \cup Reaped(front) : front \in Fronts(m)}
                 \cup IF "error" \in Faults THEN {doomed} ELSE {}
  /\ UNCHANGED <<row, lock, seen, user, stage, runs, control, phase, toReap, deaths, beat>>

\* What waited in its queue goes to another worker, unless every queue is full
\* or the dead worker's cannot be read; the first in the list is reaped too.
Requeue(m) ==
  /\ phase = "up" /\ stage[m] = "stranded"
  /\ \/ /\ stage' = [stage EXCEPT ![m] = "pool"] /\ UNCHANGED managed
        /\ ghosts' \in SUBSET (ghosts \cup IF "full" \in Faults THEN {m} ELSE {})
     \/ /\ "drop" \in Faults
        /\ stage' = [stage EXCEPT ![m] = "lost"] /\ managed' = managed \ {m}
        /\ ghosts' \in {left \cup {m} : left \in SUBSET ghosts}
     \/ /\ "wedge" \in Faults
        /\ stage' = [stage EXCEPT ![m] = "lost"] /\ managed' = managed \ {m}
        /\ ghosts' \in SUBSET ghosts
  /\ doomed' \in {doomed} \cup {doomed \cup Reaped(front) : front \in Fronts(m)}
  /\ UNCHANGED <<row, lock, seen, user, runs, control, phase, toReap, deaths, beat>>

\* A worker that ran nothing has died: nothing but ghosts is in its list.
CleanupGhost(m) ==
  /\ "die" \in Faults /\ phase = "up" /\ m \in ghosts
  /\ ghosts' \in SUBSET ghosts
  /\ doomed' = doomed \cup Reaped(m)
  /\ UNCHANGED <<row, lock, seen, user, stage, runs, managed, control, phase, toReap, deaths, beat>>

ReapSave(j) ==
  /\ j \in doomed
  /\ row' = [row EXCEPT ![j].status = "failed"]
  /\ doomed' = doomed \ {j}
  /\ UNCHANGED <<lock, seen, user, stage, runs, pool, beat>>

\* The heartbeat is bound with the workers' lists and the time, then reaps;
\* waiting jobs only if no list is longer than one (short).
BindHeartbeat(short) ==
  /\ phase = "up" /\ ~beat.on
  /\ \E late \in SUBSET Late :
       beat' = [on |-> TRUE, excluded |-> managed \cup ghosts \cup late,
                begun |-> {j \in Jobs : row[j].started},
                waiting |-> {Current(j) : j \in {i \in Jobs : short /\ row[i].status = "waiting"}}]
  /\ UNCHANGED <<row, lock, seen, user, stage, runs, pool, doomed>>

\* running since before ref_time, or waiting (for any time) before it.
Overdue_runningOnly(j) == row[j].status = "running" /\ j \in beat.begun
Overdue_anyStart(j) ==
  \/ row[j].status = "running"
  \/ row[j].status = "waiting" /\ Current(j) \in beat.waiting
Overdue(j) ==
  \/ row[j].status = "running" /\ j \in beat.begun
  \/ row[j].status = "waiting" /\ Current(j) \in beat.waiting

HeartbeatReap(j) ==
  /\ beat.on /\ Overdue(j) /\ Current(j) \notin beat.excluded
  /\ doomed' = doomed \cup {j}
  /\ UNCHANGED <<row, lock, seen, user, stage, runs, pool, beat>>

HeartbeatEnd ==
  /\ beat.on /\ beat' = NoBeat
  /\ UNCHANGED <<row, lock, seen, user, stage, runs, pool, doomed>>

-----------------------------------------------------------------------------
(* run() in a worker.                                                       *)

\* What a run() does besides writing the row: it goes on, or it leaves and the
\* pool forgets its message.
RunStep(m, s) ==
  /\ stage' = [stage EXCEPT ![m] = s]
  /\ managed' = IF s = "gone" THEN managed \ {m} ELSE managed
  /\ UNCHANGED <<lock, seen, user, ghosts, control, phase, toReap, deaths, doomed, beat>>

Leave(m, s) ==
  /\ RunStep(m, s)
  /\ saw' = [saw EXCEPT ![m] = None] /\ term' = [term EXCEPT ![m] = FALSE]
  /\ result' = [result EXCEPT ![m] = "error"]

\* A worker whose parent is gone does not take another message.
Take(m) ==
  /\ stage[m] = "pool" /\ m \in managed
  /\ RunStep(m, "run") /\ UNCHANGED <<row, runs>>

SetStatus(m, s) == row' = [row EXCEPT ![m[1]].status = s]

Load(m) ==
  LET r == row[m[1]] IN
  /\ stage[m] = "run"
  /\ IF r.flag /\ r.status # "canceled" THEN RunStep(m, "cancel") /\ UNCHANGED runs
     ELSE IF r.status \in Terminal THEN Leave(m, "gone")
     ELSE RunStep(m, "read") /\ UNCHANGED runs
  /\ UNCHANGED row

CancelBeforeRun(m) ==
  /\ stage[m] = "cancel"
  /\ SetStatus(m, "canceled") /\ Leave(m, "gone")

MarkRunning(m) ==
  /\ stage[m] = "read"
  /\ row' = [row EXCEPT ![m[1]].status = "running", ![m[1]].started = TRUE]
  /\ saw' = [saw EXCEPT ![m] = row'[m[1]]]
  /\ RunStep(m, "prep") /\ UNCHANGED <<term, result>>

\* The last look before the playbook: at the instance of MarkRunning, or at a
\* later one if the preparation has updated the row.
Check(m) ==
  /\ stage[m] = "prep"
  /\ \E instance \in {saw[m], row[m[1]]} :
       IF instance.flag \/ term[m] THEN SetStatus(m, "canceled") /\ RunStep(m, "stop")
       ELSE /\ UNCHANGED row
            /\ RunStep(m, IF instance.status # "running" THEN "stop" ELSE "exec")
  /\ saw' = [saw EXCEPT ![m] = None] /\ UNCHANGED <<term, result>>

Ended(m, s) == /\ result' = [result EXCEPT ![m] = s]
               /\ saw' = [saw EXCEPT ![m] = None]
               /\ RunStep(m, "ended") /\ UNCHANGED <<row, term>>

\* "not starting": the run ends with the status the row has.
Reread(m) == stage[m] = "stop" /\ Ended(m, row[m[1]].status)

Execute(m) == stage[m] = "exec" /\ \E s \in {"successful", "failed", "error"} : Ended(m, s)

\* The playbook was canceled, on SIGTERM or behind the worker's back; without a
\* cancel_flag that is a shutdown.
Interrupted(m) ==
  /\ stage[m] = "exec" /\ (term[m] \/ "sigterm" \in Faults)
  /\ Ended(m, IF row[m[1]].flag THEN "canceled" ELSE "failed")

Break(m) == "error" \in Faults /\ stage[m] = "prep" /\ Ended(m, "error")

\* A container group's quota is exceeded: back to pending, and run() returns.
ExceededQuota(m) ==
  /\ "quota" \in Faults /\ stage[m] = "exec"
  /\ SetStatus(m, "pending") /\ Leave(m, "gone")

SaveResult(m) ==
  /\ stage[m] = "ended"
  /\ SetStatus(m, result[m]) /\ Leave(m, "gone")

\* update_model gives up: run() raises with the row as it is.
DatabaseFails(m) ==
  /\ "error" \in Faults /\ stage[m] \in {"run", "cancel", "read", "ended"}
  /\ Leave(m, "gone") /\ UNCHANGED row

\* The worker process dies, or is sent SIGTERM by who stops the service.
Die(m) ==
  /\ "die" \in Faults /\ stage[m] \in InRun
  /\ Leave(m, "dead") /\ UNCHANGED row

\* With it, or while it runs nothing, what is in its queue.
Strand(m) ==
  /\ "die" \in Faults /\ stage[m] = "pool" /\ m \in managed
  /\ RunStep(m, "stranded") /\ UNCHANGED <<row, runs>>

ShutdownSignal(m) ==
  /\ "sigterm" \in Faults /\ stage[m] \in InRun
  /\ term' = [term EXCEPT ![m] = TRUE]
  /\ UNCHANGED <<row, lock, seen, user, stage, saw, result, pool, doomed, beat>>

-----------------------------------------------------------------------------
(* The dispatcher dies and starts again.                                    *)

\* Its queues and what the bus had for it are gone. Workers may survive it.
DispatcherDies ==
  /\ phase # "down" /\ deaths < MaxDeaths
  /\ deaths' = deaths + 1 /\ phase' = "down"
  /\ \E left \in IF "survive" \in Faults THEN SUBSET {m \in Messages : stage[m] \in InRun} ELSE {{}} :
       stage' = [m \in Messages |-> IF stage[m] \in Queued THEN "lost"
                                    ELSE IF stage[m] \in InRun /\ m \notin left THEN "dead" ELSE stage[m]]
  /\ managed' = {} /\ ghosts' = {} /\ control' = {} /\ toReap' = {}
  /\ doomed' \in SUBSET doomed
  /\ UNCHANGED <<row, lock, seen, user, runs, beat>>

\* It listens first; then it lists and reaps its running jobs, then the waiting.
Listen ==
  /\ phase = "down" /\ phase' = "boot"
  /\ UNCHANGED <<row, lock, seen, user, stage, runs, managed, ghosts, control, toReap, deaths, doomed, beat>>

StartupRunning ==
  /\ phase = "boot" /\ phase' = "reapRunning"
  /\ toReap' = {j \in Jobs : row[j].status = "running"}
  /\ UNCHANGED <<row, lock, seen, user, stage, runs, managed, ghosts, control, deaths, doomed, beat>>

StartupWaiting_none ==
  /\ phase = "reapRunning" /\ toReap = {} /\ doomed = {}
  /\ phase' = "reapWaiting"
  /\ UNCHANGED <<row, lock, seen, user, stage, runs, managed, ghosts, control, toReap, deaths, doomed, beat>>
StartupWaiting ==
  /\ phase = "reapRunning" /\ toReap = {} /\ doomed = {}
  /\ phase' = "reapWaiting"
  /\ toReap' = {j \in Jobs : row[j].status = "waiting"}
  /\ UNCHANGED <<row, lock, seen, user, stage, runs, managed, ghosts, control, deaths, doomed, beat>>

StartupReap(j) ==
  /\ j \in toReap
  /\ toReap' = toReap \ {j}
  /\ doomed' = IF Reapable(j) THEN doomed \cup {j} ELSE doomed
  /\ UNCHANGED <<row, lock, seen, user, stage, runs, managed, ghosts, control, phase, deaths, beat>>

StartupEnd ==
  /\ phase = "reapWaiting" /\ toReap = {} /\ doomed = {}
  /\ phase' = "up"
  /\ UNCHANGED <<row, lock, seen, user, stage, runs, managed, ghosts, control, toReap, deaths, doomed, beat>>

-----------------------------------------------------------------------------
Run(m) == Take(m) \/ Load(m) \/ CancelBeforeRun(m) \/ MarkRunning(m) \/ Check(m)
          \/ Reread(m) \/ SaveResult(m)

Canceling(u) == SaveFlag(u) \/ ReplyTimeout(u) \/ SaveCanceled(u) \/ FallbackCancel(u)

Startup == Listen \/ StartupRunning \/ StartupWaiting \/ StartupEnd \/ \E j \in Jobs : StartupReap(j)

Next ==
  \/ \E j \in Jobs : SignalStart(j) \/ ReapSave(j) \/ HeartbeatReap(j)
  \/ \E t \in Managers : ReadRows(t) \/ Commit(t) \/ Abort(t)
  \/ \E u \in Users : Canceling(u) \/ CancelInTransaction(u) \/ \E j \in Jobs : Open(u, j)
  \/ \E m \in Messages :
       \/ Deliver(m) \/ Drop(m) \/ ControlCancel(m) \/ Run(m)
       \/ Cleanup(m) \/ Requeue(m) \/ CleanupGhost(m) \/ Strand(m)
       \/ Execute(m) \/ Interrupted(m) \/ Break(m) \/ ExceededQuota(m)
       \/ DatabaseFails(m) \/ Die(m) \/ ShutdownSignal(m)
  \/ (\E short \in BOOLEAN : BindHeartbeat(short)) \/ HeartbeatEnd \/ DispatcherDies \/ Startup

Spec == Init /\ [][Next]_vars

\* What runs by itself keeps running: the dispatcher's loop, the workers, a
\* started dispatcher, a user's request, the periodic heartbeat; workers do not
\* die for ever, nor do lists stay long. A playbook may run for ever unless it
\* is told to stop. (Of two steps under one condition only one is ever possible.)
FairSpec ==
  /\ Spec
  /\ WF_vars(Startup)
  /\ \A u \in Users : WF_vars(Canceling(u))
  /\ \A j \in Jobs : WF_vars(ReapSave(j)) /\ SF_vars(HeartbeatReap(j))
  /\ WF_vars(HeartbeatEnd) /\ SF_vars(BindHeartbeat(TRUE))
  /\ \A m \in Messages :
       /\ SF_vars(Deliver(m) \/ Take(m)) /\ SF_vars(ControlCancel(m))
       /\ WF_vars(Cleanup(m) \/ Requeue(m))
       /\ WF_vars(Run(m)) /\ WF_vars(term[m] /\ Interrupted(m))

-----------------------------------------------------------------------------
(* Properties.                                                              *)

Row == [status : Terminal \cup CanCancel, flag : BOOLEAN, run : 0 .. MaxRuns, started : BOOLEAN]

TypeOK ==
  /\ row \in [Jobs -> Row]
  /\ lock \in Managers \cup {None}
  /\ seen \in [Managers -> [Jobs -> Row] \cup {None}]
  /\ user \in [Users -> [at : {"idle", "done"}, job : {None}, seen : {None}] \cup
                        [at : {"open", "asked", "unanswered", "canceled"},
                         job : Jobs, seen : Row]]
  /\ stage \in [Messages -> InRun \cup {"none", "bus", "pool", "gone", "lost", "stranded", "dead"}]
  /\ saw \in [Messages -> Row \cup {None}]
  /\ term \in [Messages -> BOOLEAN]
  /\ result \in [Messages -> Terminal \cup CanCancel]
  /\ managed \subseteq Messages /\ ghosts \subseteq Messages /\ control \subseteq Messages
  /\ phase \in {"down", "boot", "reapRunning", "reapWaiting", "up"}
  /\ toReap \subseteq Jobs /\ doomed \subseteq Jobs
  /\ beat \in [on : BOOLEAN, excluded : SUBSET Messages, begun : SUBSET Jobs,
              waiting : SUBSET (Jobs \X (0 .. MaxRuns))]
  /\ deaths \in 0 .. MaxDeaths

(* A job is never being handled twice: of its messages at most one is on its
   way or being run, whatever task managers overlap, abort or overwrite
   (task_manager.py 135-160, 471-525). *)
OneRun ==
  \A j \in Jobs : \A k, i \in 1 .. MaxRuns : Live(<<j, k>>) /\ Live(<<j, i>>) => k = i

(* A job that waits or runs is somebody's: its message or its run() is alive, a
   dead worker's that cleanup will find, or about to be reaped. The start of the
   dispatcher leaves no job behind whose message was lost (system.py 117-119). *)
Owned ==
  phase \in {"reapWaiting", "up"} =>
    \A j \in Jobs : Reapable(j) =>
      \/ Live(Current(j))
      \/ stage[Current(j)] = "dead" /\ Current(j) \in managed
      \/ j \in toReap \cup doomed

(* The heartbeat fails a running job only if its run() is gone: the lists it was
   bound with may be old when it reaps, and wrong (reaper.py 73-90). It says
   nothing of cleanup(), which reaps what stands first in a dead worker's list. *)
HeartbeatSparesLive ==
  [][\A j \in Jobs : HeartbeatReap(j) /\ row[j].status = "running" => ~Live(Current(j))]_vars

(* A cancel that is recorded stops the job: as long as cancel_flag stays set,
   the job ends and no run() of it goes on, although the playbook itself would
   never stop. Of the code it is true while what stands first in a worker's list
   is what it runs: no message has been dropped or refused by a full queue, and
   ends are read at once (unified_jobs.py 1468-1503, jobs.py 471, 502, receptor.py 474). *)
CancelEnds ==
  \A j \in Jobs : row[j].flag ~>
    \/ ~row[j].flag
    \/ row[j].status \in Terminal /\ \A k \in 1 .. MaxRuns : stage[<<j, k>>] \notin InRun

(* A job that waits or runs does not stay so with nobody at work on it, whatever
   raises or dies: it ends, is pending again, or its playbook runs. A message
   that was dropped, or refused by a full queue, stays in worker_tasks, and the
   heartbeat spares its job as long as the dispatcher lives (pool.py 88-90,
   reaper.py 53-90, system.py 116-122, 650-657). *)
NeverStuck ==
  \A j \in Jobs : Reapable(j) ~>
    \/ row[j].status \in Terminal \cup {"pending"}
    \/ row[j].run # 0 /\ stage[Current(j)] = "exec"

(* docs/04-task-engine.md 13-20: from a final status no other one follows. *)
NotRevived ==
  [][\A j \in Jobs : row[j].status \in Terminal => row'[j].status \in Terminal]_vars
=============================================================================
