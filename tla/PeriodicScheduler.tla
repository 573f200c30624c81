-------------------------- MODULE PeriodicScheduler --------------------------
(***************************************************************************)
(* The clockwork of the dispatcher (dispatch/periodic.py) and the turns of *)
(* its main loop that obey it (dispatch/worker/base.py). Times are seconds *)
(* since global_start, which is two seconds after the process starts.      *)
(* Targets are whole seconds, so whole seconds of time are enough.         *)
(***************************************************************************)
EXTENDS Integers, FiniteSets, FiniteSetsExt, SequencesExt

CONSTANTS
  Interval,     \* of each entry of CELERYBEAT_SCHEDULE, in order
  Undecorated,  \* entries whose function is not one of dispatch's @task
  MaxLag,       \* bound: seconds that the loop is late for what it waits for
  Horizon,      \* bound on time
  MaxStops      \* bound: times that the process is stopped from outside

Entries == DOMAIN Interval
MinInterval == Min(Range(Interval))

\* Scheduler.__init__ refuses more entries than the shortest interval has seconds.
ASSUME PeriodicAssumption ==
  /\ Interval \in Seq(Nat \ {0}) /\ Interval # <<>> /\ Len(Interval) <= MinInterval
  /\ Undecorated \subseteq Entries /\ MaxLag \in Nat /\ Horizon \in Nat /\ MaxStops \in Nat

VARIABLES
  clock,   \* relative_time
  index,   \* of each entry: periods that have passed
  wake,    \* when the select of the main loop times out
  alive,   \* the dispatcher's main process
  ran,     \* the period in which an entry ran last, 0 for none
  twice,   \* entries that ran twice in one period
  stops
periodicVars == <<clock, index, wake, alive, ran, twice, stops>>

Grace == 2
Offset(e) == ((e - 1) * MinInterval) \div Len(Interval)
Period(e, time) == IF time < Offset(e) THEN 0 ELSE (time - Offset(e)) \div Interval[e]
NextRun(e) == (index[e] + 1) * Interval[e] + Offset(e)

PeriodicInit ==
  /\ clock = 0 - Grace /\ wake = clock /\ alive = TRUE
  /\ index = [e \in Entries |-> 0] /\ ran = [e \in Entries |-> 0] /\ twice = {} /\ stops = 0

DueToRun(e) == NextRun(e) <= clock

\* mark_run: a complete interval that has passed is not caught up.
Marked_next(e) == index[e] + 1
Marked(e) == Period(e, clock)

\* time_until_next_run; its tenth of a second is less than one.
SelectTimeout_shortest(targets) == MinInterval
SelectTimeout(targets) == Min({20} \cup {Max({0, t - clock}) : t \in targets})

\* run_periodic_tasks, at the start, after a message and when select times out:
\* all that are due are marked, then sent off one by one, until resolve_callable
\* or get_async_body raises, which the main loop passes on to end the process.
Look ==
  LET due == {e \in Entries : DueToRun(e)}
      sent == {e \in due : \A u \in due \cap Undecorated : e < u}
      marks == [e \in Entries |-> IF e \in due THEN Marked(e) ELSE index[e]]
  IN /\ alive
     /\ index' = marks
     /\ ran' = [e \in Entries |-> IF e \in sent THEN Period(e, clock) ELSE ran[e]]
     /\ twice' = twice \cup {e \in sent : ran[e] = Period(e, clock)}
     /\ alive' = (due \cap Undecorated = {})
     /\ wake' = clock + SelectTimeout({(marks[e] + 1) * Interval[e] + Offset(e) : e \in Entries})
     /\ UNCHANGED <<clock, stops>>

\* The loop may be late, when the database is slow or a worker's queue is full.
Tick ==
  /\ alive /\ clock < Horizon /\ clock < wake + MaxLag
  /\ clock' = clock + 1
  /\ UNCHANGED <<index, wake, alive, ran, twice, stops>>

StopDispatcher ==
  /\ alive /\ stops < MaxStops
  /\ alive' = FALSE /\ stops' = stops + 1
  /\ UNCHANGED <<clock, index, wake, ran, twice>>

\* A supervisor starts the process again, which knows nothing of what ran.
RestartDispatcher ==
  /\ ~alive
  /\ clock' = 0 - Grace /\ wake' = clock' /\ alive' = TRUE
  /\ index' = [e \in Entries |-> 0] /\ ran' = index'
  /\ UNCHANGED <<twice, stops>>

PeriodicNext == Look \/ Tick \/ StopDispatcher \/ RestartDispatcher

PeriodicSpec == PeriodicInit /\ [][PeriodicNext]_periodicVars

-----------------------------------------------------------------------------
(* Properties.                                                              *)

PeriodicTypeOK ==
  /\ clock \in (0 - Grace) .. Horizon /\ index \in [Entries -> Nat]
  /\ wake \in Int /\ alive \in BOOLEAN /\ twice \subseteq Entries
  /\ ran \in [Entries -> Nat]

(* An entry runs once in a period, however often and however late the main loop
   looks; what it has missed it does not catch up on, and what it has marked it has
   run (periodic.py 16-23 and 46-51). *)
OncePerPeriod == twice = {} /\ \A e \in Entries : alive => ran[e] = index[e]

(* No entry waits longer past its target than the main loop is late
   (periodic.py 101-113, base.py 224 and 244). *)
Punctual == alive => \A e \in Entries : clock <= NextRun(e) + MaxLag

(* docs/22-multi-tenancy.md 193: what is scheduled runs on its ticks. *)
EveryEntryRuns == \A e \in Entries : <>(ran[e] # 0)
=============================================================================
