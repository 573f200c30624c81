------------------------------ MODULE Schedules ------------------------------
(***************************************************************************)
(* The scheduler of jobs that users plan (awx_periodic_scheduler in        *)
(* tasks/system.py, models/schedules.py). Every dispatcher runs a round    *)
(* every 30 seconds, under one advisory lock. A row holds next_run, which  *)
(* is computed when the row is saved; a round works with the rows as it    *)
(* has read them. A dispatcher that starts renews every row, without the   *)
(* lock. A rule stands for the times of its recurrences, and the nodes'    *)
(* clocks agree.                                                           *)
(***************************************************************************)
EXTENDS Naturals, FiniteSets, FiniteSetsExt, SequencesExt

CONSTANTS
  Plans,       \* schedules
  Rules,       \* the sets of times that a rule may stand for
  Imaginary,   \* times that a change of the clocks leaves out
  Hosts,       \* control nodes
  MaxTime,     \* bound on time
  MaxUpsets    \* bound: edits, rounds that break off, and dispatchers that start

ASSUME ScheduleAssumption ==
  /\ Rules # {} /\ Rules \subseteq SUBSET (Nat \ {0})
  /\ Imaginary \subseteq Nat \ {0} /\ MaxTime \in Nat /\ MaxUpsets \in Nat

VARIABLES
  time,
  plan,      \* the rows: rule, enabled, next_run; 0 is no next_run
  lastRun,   \* schedule_last_run
  round,     \* of each host: the round that it is at
  spawned,   \* the runs of each schedule that a round got to, in order
  ties,      \* times at which a round began
  boot,      \* of each host: the rows that its starting dispatcher has yet to renew
  passed,    \* runs that went by while one before them was waiting
  skipped,   \* runs that a starting dispatcher wrote off, or a broken round left undone
  edited, crashes, starts

planVars == <<time, plan, lastRun, round, boot, spawned, ties, passed, skipped, edited,
              crashes, starts>>

Upsets == Cardinality(edited) + crashes + starts

NoRows == [s \in {} |-> 0]
NoRound == [at |-> "off", last |-> 0, now |-> 0, rows |-> NoRows, who |-> {}]

\* update_computed_fields_no_save: an imaginary time gives way to the one after it;
\* when it is the last, there is none to convert, which raises.
After(rule, t) == IF \E u \in rule : u > t THEN Min({u \in rule : u > t}) ELSE 0
NextAfter(rule, t) ==
  IF After(rule, t) \in Imaginary THEN After(rule, After(rule, t)) ELSE After(rule, t)
Raises(rule, t) == After(rule, t) \in Imaginary /\ NextAfter(rule, t) = 0

ScheduleInit ==
  /\ time = 0 /\ lastRun = 0 /\ round = [h \in Hosts |-> NoRound]
  /\ plan \in [Plans -> {[rule |-> r, enabled |-> TRUE, next |-> NextAfter(r, 0)] :
                          r \in {x \in Rules : ~Raises(x, 0)}}]
  /\ boot = [h \in Hosts |-> NoRows] /\ spawned = [s \in Plans |-> <<>>] /\ ties = {0}
  /\ passed = [s \in Plans |-> {}] /\ skipped = [s \in Plans |-> {}]
  /\ edited = {} /\ crashes = 0 /\ starts = 0

-----------------------------------------------------------------------------
TimeGoesOn ==
  /\ time < MaxTime /\ time' = time + 1
  /\ UNCHANGED <<plan, lastRun, round, boot, spawned, ties, passed, skipped, edited, crashes,
                 starts>>

\* Schedule.save; the request fails with what raises.
EditSchedule(s) ==
  /\ s \notin edited /\ Upsets < MaxUpsets /\ edited' = edited \cup {s}
  /\ \E rule \in Rules, enabled \in BOOLEAN :
       /\ enabled => ~Raises(rule, time)
       /\ plan' = [plan EXCEPT ![s] =
                     [rule |-> rule, enabled |-> enabled,
                      next |-> IF enabled THEN NextAfter(rule, time) ELSE 0]]
  /\ UNCHANGED <<time, lastRun, round, boot, spawned, ties, passed, skipped, crashes, starts>>

-----------------------------------------------------------------------------
(* A round on host h.                                                       *)

Acquired_always(h) == TRUE
Acquired(h) == \A k \in Hosts : round[k].at = "off"

\* The rows of schedules whose next_run lies between; querysets are strict.
Enabled(from, to) ==
  {s \in Plans : plan[s].enabled /\ plan[s].next # 0 /\ from < plan[s].next /\ plan[s].next < to}
Read(S) == [s \in S |-> plan[s]]

\* What no round has launched in its time and will not be.
Overdue_none(last) == {}
Overdue(last) == Enabled(0, last)
Due_beforehand(last, now) == Enabled(last, last + 1)
Due(last, now) == Enabled(last, now)

BeginRound(h) ==
  /\ round[h].at = "off" /\ DOMAIN boot[h] = {} /\ Acquired(h)
  /\ round' = [round EXCEPT ![h] = [NoRound EXCEPT !.at = "save", !.last = lastRun, !.now = time]]
  /\ ties' = ties \cup {time}
  /\ UNCHANGED <<time, plan, lastRun, boot, spawned, passed, skipped, edited, crashes, starts>>

SaveLastRun(h) ==
  /\ round[h].at = "save"
  /\ lastRun' = round[h].now
  /\ round' = [round EXCEPT ![h].at = "overdue", ![h].rows = Read(Overdue(round[h].last))]
  /\ UNCHANGED <<time, plan, boot, spawned, ties, passed, skipped, edited, crashes, starts>>

\* update_computed_fields on a row as it was read: next_run is what comes after now.
Renew(s, row) ==
  /\ ~Raises(row.rule, time)
  /\ plan' = [plan EXCEPT ![s].next = NextAfter(row.rule, time)]
  /\ passed' = [passed EXCEPT ![s] = @ \cup {u \in row.rule : row.next < u /\ u <= time}]

Without(rows, s) == [x \in DOMAIN rows \ {s} |-> rows[x]]

RenewOverdue(h, s) ==
  /\ round[h].at = "overdue" /\ s \in DOMAIN round[h].rows
  /\ Renew(s, round[h].rows[s])
  /\ round' = [round EXCEPT ![h].rows = Without(@, s)]
  /\ UNCHANGED <<time, lastRun, boot, spawned, ties, skipped, edited, crashes, starts>>

ReadDue(h) ==
  /\ round[h].at = "overdue" /\ DOMAIN round[h].rows = {}
  /\ round' = [round EXCEPT ![h].at = "due",
                            ![h].rows = Read(Due(round[h].last, round[h].now))]
  /\ UNCHANGED <<time, plan, lastRun, boot, spawned, ties, passed, skipped, edited, crashes,
                 starts>>

RenewDue(h, s) ==
  /\ round[h].at = "due" /\ s \in DOMAIN round[h].rows
  /\ Renew(s, round[h].rows[s])
  /\ round' = [round EXCEPT ![h].at = "spawn", ![h].who = {s}]
  /\ UNCHANGED <<time, lastRun, boot, spawned, ties, skipped, edited, crashes, starts>>

\* Whether the job then starts is up to its template, and changes nothing here.
Spawn(h, s) ==
  /\ round[h].at = "spawn" /\ s \in round[h].who
  /\ spawned' = [spawned EXCEPT ![s] = Append(@, round[h].rows[s].next)]
  /\ round' = [round EXCEPT ![h].at = "due", ![h].who = {}, ![h].rows = Without(@, s)]
  /\ UNCHANGED <<time, plan, lastRun, boot, ties, passed, skipped, edited, crashes, starts>>

EndRound(h) ==
  /\ round[h].at = "due" /\ DOMAIN round[h].rows = {}
  /\ round' = [round EXCEPT ![h] = NoRound]
  /\ UNCHANGED <<time, plan, lastRun, boot, spawned, ties, passed, skipped, edited, crashes,
                 starts>>

\* A round ends before its time. Once schedule_last_run is saved, no other launches
\* what was this one's to launch.
Undone(h) ==
  CASE round[h].at = "overdue" -> Read(Due(round[h].last, round[h].now))
    [] round[h].at \in {"due", "spawn"} -> round[h].rows
    [] OTHER -> NoRows
LeaveOff(h) ==
  /\ round' = [round EXCEPT ![h] = NoRound]
  /\ skipped' = [s \in Plans |-> IF s \in DOMAIN Undone(h)
                                   THEN skipped[s] \cup {Undone(h)[s].next} ELSE skipped[s]]
  /\ UNCHANGED <<time, plan, lastRun, boot, spawned, ties, passed, edited, starts>>

\* The process dies or loses its database, and with it the lock.
BreakOff(h) ==
  /\ round[h].at # "off" /\ Upsets < MaxUpsets /\ crashes' = crashes + 1
  /\ LeaveOff(h)

\* Nothing catches what the renewal of a row raises.
RenewalRaises(h, s) ==
  /\ round[h].at \in {"overdue", "due"} /\ s \in DOMAIN round[h].rows
  /\ Raises(round[h].rows[s].rule, time)
  /\ LeaveOff(h) /\ UNCHANGED crashes

-----------------------------------------------------------------------------
(* dispatch_startup renews all schedules, without the lock of the rounds.   *)

StartDispatcher(h) ==
  /\ round[h].at = "off" /\ DOMAIN boot[h] = {}
  /\ Upsets < MaxUpsets /\ starts' = starts + 1
  /\ boot' = [boot EXCEPT ![h] = Read(Plans)]
  /\ UNCHANGED <<time, plan, lastRun, round, spawned, ties, passed, skipped, edited, crashes>>

\* A row is saved if that changes it; here what the renewal raises is caught.
RenewAtStart(h, s) ==
  /\ s \in DOMAIN boot[h]
  /\ LET row == boot[h][s]
         next == IF row.enabled THEN NextAfter(row.rule, time) ELSE 0
     IN  IF next = row.next \/ (row.enabled /\ Raises(row.rule, time))
           THEN UNCHANGED <<plan, skipped>>
           ELSE /\ plan' = [plan EXCEPT ![s].next = next]
                /\ skipped' = [skipped EXCEPT ![s] = @ \cup
                                 {u \in row.rule : plan[s].next <= u /\ u <= time}]
  /\ boot' = [boot EXCEPT ![h] = Without(@, s)]
  /\ UNCHANGED <<time, lastRun, round, spawned, ties, passed, edited, crashes, starts>>

-----------------------------------------------------------------------------
HostStep(h) ==
  \/ BeginRound(h) \/ SaveLastRun(h) \/ ReadDue(h) \/ EndRound(h)
  \/ \E s \in Plans : \/ RenewOverdue(h, s) \/ RenewDue(h, s) \/ Spawn(h, s)
                     \/ RenewalRaises(h, s) \/ RenewAtStart(h, s)

ScheduleNext ==
  \/ TimeGoesOn
  \/ \E s \in Plans : EditSchedule(s)
  \/ \E h \in Hosts : \/ BeginRound(h) \/ SaveLastRun(h) \/ ReadDue(h) \/ EndRound(h) \/ BreakOff(h)
                      \/ StartDispatcher(h)
                      \/ \E s \in Plans : \/ RenewOverdue(h, s) \/ RenewDue(h, s) \/ Spawn(h, s)
                                         \/ RenewalRaises(h, s) \/ RenewAtStart(h, s)

ScheduleSpec == ScheduleInit /\ [][ScheduleNext]_planVars

-----------------------------------------------------------------------------
(* Properties.                                                              *)

ScheduleTypeOK ==
  /\ time \in 0 .. MaxTime /\ lastRun \in 0 .. MaxTime
  /\ \A s \in Plans : /\ plan[s].rule \in Rules /\ plan[s].enabled \in BOOLEAN
                      /\ plan[s].next \in Nat
  /\ \A h \in Hosts : round[h].at \in {"off", "save", "overdue", "due", "spawn"}

(* The runs of a schedule are launched in order and none of them twice, though
   rounds on several nodes contend, break off, and work with rows that users have
   edited since (system.py 719-745). *)
LaunchedOnce ==
  \A s \in Plans : \A i, k \in DOMAIN spawned[s] : i < k => spawned[s][i] < spawned[s][k]

(* A run of a schedule that is not edited is left out only if it went by while one
   before it waited to be handled, or falls on the very moment at which a round began,
   since both comparisons with schedule_last_run are strict, or if a round that broke
   off had it to launch, or a starting dispatcher, which does not look at the rounds,
   moved next_run past it (system.py 94-99 and 727-745; schedules.py 42-49). *)
RunsKept ==
  (\A h \in Hosts : round[h].at = "off") =>
    \A s \in Plans \ edited :
      \A u \in plan[s].rule \ Imaginary :
        u < plan[s].next \/ plan[s].next = 0 =>
          u \in Range(spawned[s]) \cup passed[s] \cup skipped[s] \cup ties

(* A schedule whose run was lost with a round that broke off, or fell between two
   rounds, goes on with its later runs, unless the renewal of some schedule raises:
   then every round ends with it, until the imaginary time has gone by (system.py
   732-745; schedules.py 272-277). *)
Blocking(s) ==
  /\ plan[s].enabled /\ plan[s].next # 0 /\ plan[s].next < time
  /\ Raises(plan[s].rule, time)
NeverStalls ==
  []<>(\/ \A s \in Plans : plan[s].enabled => plan[s].next = 0 \/ plan[s].next >= time
       \/ \E s \in Plans : Blocking(s))
=============================================================================
