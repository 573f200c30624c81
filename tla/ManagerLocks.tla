---------------------------- MODULE ManagerLocks ----------------------------
(***************************************************************************)
(* Who calls the three managers of the scheduler, and when they look       *)
(* (scheduler/task_manager.py 135-165, utils/common.py 859-914). A manager *)
(* that finds its advisory lock taken gives up at once, so the request is  *)
(* dropped, also when the holder has read its rows before what the request *)
(* is about was committed.                                                 *)
(***************************************************************************)
EXTENDS Naturals, FiniteSets

CONSTANTS
  MaxRequests,  \* bound: messages in flight for one manager
  MaxLeft,      \* bound: times that a manager leaves something for another cycle
  MaxMishaps    \* bound: processes that die at the wrong moment

ASSUME ManagerAssumption == MaxRequests \in Nat \ {0} /\ MaxLeft \in Nat /\ MaxMishaps \in Nat

Managers == {"workflow", "dependency", "task"}

VARIABLES
  news,      \* managers for whom there is something that no cycle of theirs has seen
  requests,  \* messages for a manager
  holder,    \* the cycle that holds the lock of a manager: how far it is
  asks,      \* of each manager: needs_scheduling of the cycle, sent after the lock is freed
  flows,     \* a workflow is running
  left, mishaps

lockVars == <<news, requests, holder, asks, flows, left, mishaps>>

NobodyAsks == [m \in Managers |-> {}]

LockInit ==
  /\ news = {} /\ requests = [m \in Managers |-> 0] /\ asks = NobodyAsks
  /\ holder = [m \in Managers |-> "none"] /\ flows = FALSE /\ left = 0 /\ mishaps = 0

Requested(M) ==
  [m \in Managers |->
     IF m \in M /\ requests[m] < MaxRequests THEN requests[m] + 1 ELSE requests[m]]

\* A launch, or the end of a job: committed first, and then the message, which is
\* lost if the process dies in between.
SomethingHappens(m) ==
  /\ m = "workflow" => flows
  /\ news' = news \cup {m}
  /\ \/ requests' = Requested({m}) /\ UNCHANGED mishaps
     \/ mishaps < MaxMishaps /\ mishaps' = mishaps + 1 /\ UNCHANGED requests
  /\ UNCHANGED <<holder, asks, flows, left>>

\* CELERYBEAT_SCHEDULE has the task and the dependency manager, every 20 seconds.
PeriodicRequest(m) ==
  /\ m \in {"task", "dependency"} /\ requests[m] < MaxRequests
  /\ requests' = Requested({m})
  /\ UNCHANGED <<news, holder, asks, flows, left, mishaps>>

-----------------------------------------------------------------------------
(* A cycle.                                                                 *)

\* A running workflow makes every cycle of the task manager ask for the workflow manager.
AskedByRunning_none == {}
AskedByRunning == IF flows THEN {"workflow"} ELSE {}

\* advisory_lock(..., wait=False): with the lock, get_tasks; without, nothing.
Invoke(m) ==
  /\ requests[m] > 0 /\ requests' = [requests EXCEPT ![m] = @ - 1]
  /\ IF holder[m] = "none"
       THEN /\ holder' = [holder EXCEPT ![m] = IF m \in news THEN "busy" ELSE "done"]
            /\ news' = news \ {m}
            /\ asks' = [asks EXCEPT ![m] = IF m = "task" THEN AskedByRunning ELSE {}]
       ELSE UNCHANGED <<holder, news, asks>>
  /\ UNCHANGED <<flows, left, mishaps>>

\* What a manager's changes mean to the others, and whether a workflow runs then.
Consequences(m) ==
  CASE m = "dependency" -> {[for |-> {"task"}, flows |-> flows]}
    [] m = "task" -> {[for |-> {}, flows |-> flows], [for |-> {"workflow"}, flows |-> TRUE]}
    [] m = "workflow" -> {[for |-> {}, flows |-> FALSE]} \cup
         {[for |-> S, flows |-> flows] : S \in SUBSET {"dependency", "task", "workflow"}}

\* The transaction commits. START_TASK_LIMIT or a timeout leaves something for the
\* next cycle of the same manager, which it asks for.
CommitCycle(m) ==
  /\ holder[m] = "busy"
  /\ \E c \in Consequences(m) :
       LET more == (m \in c.for)
       IN /\ more => left < MaxLeft
          /\ left' = IF more THEN left + 1 ELSE left
          /\ flows' = c.flows
          /\ news' = (news \cup c.for) \ (IF c.flows THEN {} ELSE {"workflow"})
          /\ asks' = [asks EXCEPT ![m] = @ \cup c.for]
  /\ holder' = [holder EXCEPT ![m] = "done"]
  /\ UNCHANGED <<requests, mishaps>>

StopsEarly(m) ==
  /\ holder[m] = "busy" /\ left < MaxLeft
  /\ left' = left + 1 /\ news' = news \cup {m}
  /\ asks' = [asks EXCEPT ![m] = @ \cup {m}]
  /\ holder' = [holder EXCEPT ![m] = "done"]
  /\ UNCHANGED <<requests, flows, mishaps>>

\* The lock is freed, and then the messages are sent.
FreeLock(m) ==
  /\ holder[m] = "done"
  /\ holder' = [holder EXCEPT ![m] = "none"]
  /\ requests' = Requested(asks[m]) /\ asks' = [asks EXCEPT ![m] = {}]
  /\ UNCHANGED <<news, flows, left, mishaps>>

\* SIGUSR1 for a cycle that takes too long still sends what was asked for; a crash
\* does not. What was not committed is as it was.
Interrupted(m) ==
  /\ holder[m] # "none" /\ mishaps < MaxMishaps /\ mishaps' = mishaps + 1
  /\ news' = IF holder[m] = "busy" THEN news \cup {m} ELSE news
  /\ requests' \in {requests, Requested(asks[m])}
  /\ holder' = [holder EXCEPT ![m] = "none"] /\ asks' = [asks EXCEPT ![m] = {}]
  /\ UNCHANGED <<flows, left>>

-----------------------------------------------------------------------------
Cycle(m) == CommitCycle(m) \/ StopsEarly(m) \/ FreeLock(m)

LockNext ==
  \E m \in Managers :
    \/ SomethingHappens(m) \/ PeriodicRequest(m) \/ Invoke(m) \/ Interrupted(m)
    \/ CommitCycle(m) \/ StopsEarly(m) \/ FreeLock(m)

LockSpec == LockInit /\ [][LockNext]_lockVars

-----------------------------------------------------------------------------
(* Properties.                                                              *)

LockTypeOK ==
  /\ news \subseteq Managers /\ requests \in [Managers -> 0 .. MaxRequests]
  /\ holder \in [Managers -> {"none", "busy", "done"}]
  /\ asks \in [Managers -> SUBSET Managers] /\ flows \in BOOLEAN
  /\ left \in 0 .. MaxLeft /\ mishaps \in 0 .. MaxMishaps

(* Whatever happens is seen by the manager that has to act on it, though requests are
   dropped at a taken lock or lost. The workflow manager has no schedule of its own
   and relies on the task manager's (task_manager.py 135-163 and 533-538;
   celery_conf.py 30-31). *)
EveryChangeSeen == \A m \in Managers : m \in news ~> m \notin news
=============================================================================
