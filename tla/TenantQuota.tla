----------------------------- MODULE TenantQuota -----------------------------
(***************************************************************************)
(* The quota of one tenant (tenancy/quota.py, tenancy/usage.py). A launch  *)
(* passes the gate, which checks and increments the counters of the        *)
(* tenant's TenantUsage row under its lock. Nothing decrements them: the   *)
(* receiver of post_save in signals.py is connected for UnifiedJob itself, *)
(* and Django sends that signal for the class of the row, a subclass. The  *)
(* number of jobs goes down only when the row is recalculated, which       *)
(* happens without the lock.                                               *)
(***************************************************************************)
EXTENDS Naturals, FiniteSets

CONSTANTS
  TemplateJobs,   \* launched from a template: one transaction for the whole request
  AdHocJobs,      \* ad hoc commands: no transaction around the request
  Strays,         \* jobs of templates without an organization: the gate takes that of
                  \* their inventory (_get_org), a recalculation does not
  MaxSpawned,     \* bound: jobs of schedules, workflows and relaunches, which pass no gate
  MaxConcurrent, MaxDaily,  \* limits of the tenant; 0 is no limit
  MaxDay          \* bound: days that pass

TenantJobs == TemplateJobs \cup AdHocJobs

\* Jobs with an organization of their own, which a recalculation looks for. Ad hoc
\* commands have none.
OfTenant == TemplateJobs \ Strays

ASSUME QuotaAssumption ==
  /\ TemplateJobs \cap AdHocJobs = {} /\ Strays \subseteq TemplateJobs /\ MaxSpawned \in Nat
  /\ IsFiniteSet(TemplateJobs) /\ IsFiniteSet(AdHocJobs)
  /\ MaxConcurrent \in Nat /\ MaxDaily \in Nat /\ MaxDay \in Nat \ {0}

VARIABLES
  stage,    \* of each job; an admitted one has a row with the status new
  usage,    \* concurrent_jobs_count, launches_today_count and the day of its window
  today,
  recalc,   \* recalculate_tenant_usage: its copy of the row, how many jobs it counted;
            \* who was admitted when it read the row, and there when it counted
  admitted, \* the day of a job's admission, 0 if the gate did not admit it
  missed,   \* live jobs that a recalculation left out of the number of jobs
  lost      \* admissions that a recalculation wrote over

quotaVars == <<stage, usage, today, recalc, admitted, missed, lost>>

NoRecalc == [at |-> "off", copy |-> [jobs |-> 0, launches |-> 0, window |-> 0],
             jobs |-> 0, known |-> {}, there |-> {}]
Of(day) == {j \in TenantJobs : admitted[j] = day}
Admitted == {j \in TenantJobs : admitted[j] # 0}
Live(j) == stage[j] \in {"admitted", "pending"}

QuotaInit ==
  /\ stage = [j \in TenantJobs |-> "none"] /\ today = 1
  /\ usage = [jobs |-> 0, launches |-> 0, window |-> 1] /\ recalc = NoRecalc
  /\ admitted = [j \in TenantJobs |-> 0] /\ missed = {} /\ lost = {}

-----------------------------------------------------------------------------
\* check_quota_value
Below_inclusive(current, limit) == limit = 0 \/ current <= limit
Below(current, limit) == limit = 0 \/ current < limit

\* The daily window starts again on another day.
Rolled ==
  IF usage.window = today THEN usage ELSE [usage EXCEPT !.launches = 0, !.window = today]

Gate(j, outcome) ==
  /\ stage[j] = "none"
  /\ IF Below(Rolled.jobs, MaxConcurrent) /\ Below(Rolled.launches, MaxDaily)
       THEN /\ usage' = [Rolled EXCEPT !.jobs = @ + 1, !.launches = @ + 1]
            /\ stage' = [stage EXCEPT ![j] = outcome]
            /\ admitted' = [admitted EXCEPT ![j] = today]
       ELSE /\ usage' = Rolled
            /\ stage' = [stage EXCEPT ![j] = "over"]
            /\ UNCHANGED admitted
  /\ UNCHANGED <<today, recalc, missed, lost>>

\* The launch of a template: the policy or the scanner behind the gate may deny it,
\* and the counters keep what they were incremented by.
LaunchTemplate(j) ==
  j \in TemplateJobs /\ \E outcome \in {"pending", "over"} : Gate(j, outcome)

\* An ad hoc command commits after each of its steps.
AdmitAdHoc(j) == j \in AdHocJobs /\ Gate(j, "admitted")
StartAdHoc(j) ==
  /\ stage[j] = "admitted"
  /\ \E outcome \in {"pending", "over"} : stage' = [stage EXCEPT ![j] = outcome]
  /\ UNCHANGED <<usage, today, recalc, admitted, missed, lost>>

\* A pending, waiting or running job comes to its end.
EndJob(j) ==
  /\ stage[j] = "pending" /\ stage' = [stage EXCEPT ![j] = "over"]
  /\ UNCHANGED <<usage, today, recalc, admitted, missed, lost>>

NextDay ==
  /\ today < MaxDay /\ today' = today + 1
  /\ UNCHANGED <<stage, usage, recalc, admitted, missed, lost>>

-----------------------------------------------------------------------------
(* recalculate_tenant_usage: read the row, count the jobs, save the row.     *)

ReadUsage ==
  /\ recalc.at = "off"
  /\ recalc' = [NoRecalc EXCEPT !.at = "read", !.copy = usage, !.known = Admitted]
  /\ UNCHANGED <<stage, usage, today, admitted, missed, lost>>

Counted_beforehand(spawned) == recalc.copy.jobs + spawned
Counted(spawned) ==
  spawned + Cardinality({j \in OfTenant : stage[j] = "pending"})

CountJobs ==
  /\ recalc.at = "read"
  /\ \E spawned \in 0 .. MaxSpawned :
       recalc' = [recalc EXCEPT !.at = "counted", !.there = Admitted \cap OfTenant,
                                !.jobs = Counted(spawned)]
  /\ UNCHANGED <<stage, usage, today, admitted, missed, lost>>

\* What it did not look for, or came after it had counted, is left out of the number.
SaveUsage ==
  /\ recalc.at = "counted"
  /\ usage' = [recalc.copy EXCEPT !.jobs = recalc.jobs]
  /\ missed' = {j \in missed \cup (Admitted \ recalc.there) : Live(j)}
  /\ lost' = (lost \cup (Admitted \ recalc.known)) \cap Of(today)
  /\ recalc' = NoRecalc
  /\ UNCHANGED <<stage, today, admitted>>

-----------------------------------------------------------------------------
QuotaNext ==
  \/ \E j \in TenantJobs : \/ LaunchTemplate(j) \/ AdmitAdHoc(j) \/ StartAdHoc(j) \/ EndJob(j)
  \/ NextDay \/ ReadUsage \/ CountJobs \/ SaveUsage

QuotaSpec == QuotaInit /\ [][QuotaNext]_quotaVars

-----------------------------------------------------------------------------
(* Properties.                                                              *)

QuotaTypeOK ==
  /\ stage \in [TenantJobs -> {"none", "admitted", "pending", "over"}]
  /\ usage.jobs \in Nat /\ usage.launches \in Nat /\ usage.window \in 1 .. MaxDay
  /\ recalc.at \in {"off", "read", "counted"} /\ recalc.jobs \in Nat
  /\ admitted \in [TenantJobs -> 0 .. MaxDay] /\ lost \subseteq Admitted

\* Jobs that live at a time, but for those that a recalculation left out: ad hoc
\* commands and jobs without an organization of their own, launched before it or while
\* it ran, and other jobs launched after it had counted.
ConcurrentKept ==
  MaxConcurrent > 0 =>
    Cardinality({j \in Admitted \ missed : Live(j)}) <= MaxConcurrent

\* Launches of a day, but for those that a recalculation wrote over with the row it
\* had read before.
DailyKept ==
  MaxDaily > 0 => Cardinality(Of(today) \ lost) <= MaxDaily

(* What passes the gate keeps to the limits of the tenant, whatever ends, is denied
   behind the gate or comes from elsewhere, and however recalculations overlap with
   it: they overlook only what was launched while they ran, and what they do not look
   for, the jobs the gate takes for the tenant's by their inventory alone
   (tenancy/quota.py 34-42 and 70-118, tenancy/usage.py 29-41). *)
LimitsKept == ConcurrentKept /\ DailyKept
=============================================================================
