------------------------- MODULE Timeliness_proofs -------------------------
(***************************************************************************)
(* Safety of the parts where a time decides: a node that is seen in time   *)
(* loses no job (ClusterHealth), a periodic task runs once in a period and *)
(* is not forgotten (PeriodicScheduler), a setting that has changed is not *)
(* read for longer than its timeouts (SettingsCache), and the managers of  *)
(* the scheduler are called in time (ManagerLocks). All for any number of  *)
(* nodes, entries, processes and requests, and any times.                  *)
(***************************************************************************)
EXTENDS ClusterHealth, PeriodicScheduler, SettingsCache, ManagerLocks,
        WellFoundedInduction, NaturalsInduction, TLAPS

(* Nodes. *)
Steadfast == Nodes \ (Mortal \cup Laggards)

(* A steadfast node is always seen in time, so that nobody holds it lost, and no
   heartbeat is about to end its jobs. *)
SeenInTime == \A n \in Steadfast : up[n] = "works" /\ age[n] <= Tolerance
NeverLost == \A m \in Nodes, n \in Steadfast : n \notin beat[m].lost /\ n \notin beat[m].who

BeatType == [at : {"off", "read", "reap", "mark"}, lost : SUBSET Nodes,
             ready : SUBSET Nodes, startup : BOOLEAN, who : SUBSET Nodes]
JobType == [status : {"new", "over", "reaped"} \cup Unfinished, on : Nodes]

ClusterIInv == ClusterTypeOK /\ SeenInTime /\ NeverLost /\ SteadfastSpared

-----------------------------------------------------------------------------
LEMMA ClusterInitially == ClusterInit => ClusterIInv
<1>. SUFFICES ASSUME ClusterInit  PROVE ClusterIInv
  OBVIOUS
<1>. USE ClusterAssumption
<1>1. ClusterTypeOK
  BY DEF ClusterInit, ClusterTypeOK, NoBeat
<1>2. SeenInTime /\ NeverLost /\ SteadfastSpared
  BY DEF ClusterInit, SeenInTime, NeverLost, SteadfastSpared, Steadfast, NoBeat
<1>. QED  BY <1>1, <1>2 DEF ClusterIInv

LEMMA BeatChanged ==
  ASSUME NEW b \in BeatType, NEW L \in SUBSET Nodes, NEW W \in SUBSET Nodes
  PROVE  /\ [b EXCEPT !.at = "reap", !.lost = L] \in BeatType
         /\ [b EXCEPT !.at = "reap", !.who = W] \in BeatType
         /\ [b EXCEPT !.at = "mark", !.lost = L, !.who = W] \in BeatType
  BY DEF BeatType

(* Ending the jobs of a node that is not steadfast. *)
LEMMA ReapedSpares ==
  ASSUME ClusterIInv, NEW n \in Nodes \ Steadfast, NEW S, clusterJob' = Reaped(n, S)
  PROVE  SteadfastSpared' /\ clusterJob' \in [ClusterJobs -> JobType]
<1>1. clusterJob \in [ClusterJobs -> JobType] /\ SteadfastSpared
  BY DEF ClusterIInv, ClusterTypeOK, JobType
<1>2. ASSUME NEW j \in ClusterJobs
      PROVE  /\ clusterJob'[j] \in JobType /\ clusterJob'[j].on = clusterJob[j].on
             /\ clusterJob'[j].status = "reaped" => clusterJob[j].status = "reaped" \/ clusterJob[j].on = n
  BY <1>1 DEF Reaped, JobType
<1>3. SteadfastSpared'
  <2>. SUFFICES ASSUME NEW j \in ClusterJobs, clusterJob'[j].status = "reaped"
                PROVE  clusterJob'[j].on \in Mortal \cup Laggards
    BY DEF SteadfastSpared
  <2>1. clusterJob[j].on \in Nodes
    BY <1>1 DEF JobType
  <2>. QED  BY <1>1, <1>2, <2>1 DEF SteadfastSpared, Steadfast
<1>4. clusterJob' \in [ClusterJobs -> JobType]
  BY <1>2 DEF Reaped
<1>. QED  BY <1>3, <1>4

-----------------------------------------------------------------------------
(* The heartbeat.                                                           *)

LEMMA ReadInstancesStep ==
  ASSUME ClusterIInv, NEW n \in Nodes, ReadInstances(n)
  PROVE  ClusterIInv'
<1>. USE ClusterAssumption DEF ReadInstances, ClusterIInv
<1>1. ClusterTypeOK'
  <2>1. Lost(n) \in BOOLEAN /\ {m \in Nodes \ {n} : Lost(m)} \in SUBSET Nodes
                /\ {m \in Nodes : node[m].ready} \in SUBSET Nodes
    BY DEF Lost
  <2>. QED  BY <2>1 DEF ClusterTypeOK
<1>2. SeenInTime' /\ SteadfastSpared'
  BY DEF SeenInTime, SteadfastSpared
<1>3. NeverLost'
  BY DEF NeverLost, SeenInTime, Steadfast, Lost, ClusterTypeOK
<1>. QED  BY <1>1, <1>2, <1>3

LEMMA CheckHealthStep ==
  ASSUME ClusterIInv, NEW n \in Nodes, CheckHealth(n)
  PROVE  ClusterIInv'
<1>. USE ClusterAssumption DEF CheckHealth, ClusterIInv
<1>1. ClusterTypeOK'
  <2>1. StateSaved(n) \in BOOLEAN
    BY ZenonT(30) DEF StateSaved, ClusterTypeOK
  <2>2. beat' \in [Nodes -> BeatType]
    <3>1. beat \in [Nodes -> BeatType]
      BY DEF ClusterTypeOK, BeatType
    <3>2. PICK ok \in BOOLEAN : beat' = [beat EXCEPT ![n].at = "reap",
                                  ![n].lost = IF beat[n].startup /\ ok THEN {} ELSE @]
      OBVIOUS
    <3>. DEFINE L == IF beat[n].startup /\ ok THEN {} ELSE beat[n].lost
    <3>3. L \in SUBSET Nodes /\ beat[n] \in BeatType
      BY <3>1 DEF BeatType
    <3>4. beat' = [beat EXCEPT ![n] = [beat[n] EXCEPT !.at = "reap", !.lost = L]]
      BY <3>2
    <3>. HIDE DEF L
    <3>5. [beat[n] EXCEPT !.at = "reap", !.lost = L] \in BeatType
      BY <3>3, BeatChanged
    <3>. QED  BY <3>1, <3>4, <3>5
  <2>3. node' \in [Nodes -> [ready : BOOLEAN, capacity : BOOLEAN]]
    <3>1. PICK ok \in BOOLEAN :
            node' = [node EXCEPT ![n] = [ready |-> ok /\ StateSaved(n), capacity |-> ok]]
      OBVIOUS
    <3>2. (ok /\ StateSaved(n)) \in BOOLEAN
      OBVIOUS
    <3>. QED  BY <3>1, <3>2 DEF ClusterTypeOK
  <2>. QED  BY <2>2, <2>3 DEF ClusterTypeOK, BeatType
<1>2. SeenInTime' /\ SteadfastSpared'
  BY DEF SeenInTime, SteadfastSpared, Steadfast, ClusterTypeOK
<1>3. NeverLost'
  BY DEF NeverLost, Steadfast, ClusterTypeOK
<1>. QED  BY <1>1, <1>2, <1>3

LEMMA ReapLostStep ==
  ASSUME ClusterIInv, NEW n \in Nodes, NEW m \in Nodes, ReapLost(n, m)
  PROVE  ClusterIInv'
<1>. USE ClusterAssumption DEF ReapLost, ClusterIInv
<1>1. m \in Nodes \ Steadfast
  BY DEF NeverLost
<1>2. SteadfastSpared' /\ clusterJob' \in [ClusterJobs -> JobType]
  BY <1>1, ReapedSpares
<1>5. ClusterTypeOK'
  <2>1. beat \in [Nodes -> BeatType]
    BY DEF ClusterTypeOK, BeatType
  <2>2. [beat[n] EXCEPT !.at = "mark", !.lost = @ \ {m}, !.who = {m}] \in BeatType
    BY <2>1 DEF BeatType
  <2>3. beat' = [beat EXCEPT ![n] = [beat[n] EXCEPT !.at = "mark", !.lost = @ \ {m}, !.who = {m}]]
    OBVIOUS
  <2>4. beat' \in [Nodes -> BeatType]
    BY <2>1, <2>2, <2>3
  <2>. QED  BY <1>2, <2>4 DEF ClusterTypeOK, BeatType, JobType
<1>3. SeenInTime'
  BY DEF SeenInTime
<1>4. NeverLost'
  BY <1>1 DEF NeverLost, Steadfast, ClusterTypeOK
<1>. QED  BY <1>2, <1>3, <1>4, <1>5

LEMMA MarkOfflineStep ==
  ASSUME ClusterIInv, NEW n \in Nodes, NEW m \in Nodes, MarkOffline(n, m)
  PROVE  ClusterIInv'
<1>. USE ClusterAssumption DEF MarkOffline, ClusterIInv
<1>1. ClusterTypeOK'
  <2>1. node' \in [Nodes -> [ready : BOOLEAN, capacity : BOOLEAN]]
    BY DEF ClusterTypeOK
  <2>2. [beat[n] EXCEPT !.at = "reap", !.who = {}] \in BeatType
    <3>1. beat[n] \in BeatType
      BY DEF ClusterTypeOK, BeatType
    <3>. QED  BY ONLY <3>1 DEF BeatType
  <2>3. /\ beat \in [Nodes -> BeatType]
        /\ beat' = [beat EXCEPT ![n] = [beat[n] EXCEPT !.at = "reap", !.who = {}]]
    BY DEF ClusterTypeOK, BeatType
  <2>4. beat' \in [Nodes -> BeatType]
    BY <2>2, <2>3
  <2>. QED  BY <2>1, <2>4 DEF ClusterTypeOK, BeatType
<1>2. SeenInTime' /\ SteadfastSpared'
  BY DEF SeenInTime, SteadfastSpared
<1>3. NeverLost'
  BY DEF NeverLost, Steadfast, ClusterTypeOK
<1>. QED  BY <1>1, <1>2, <1>3

(* The reaping at startup is for a node that was down, which is not steadfast. *)
LEMMA EndHeartbeatStep ==
  ASSUME ClusterIInv, NEW n \in Nodes, EndHeartbeat(n)
  PROVE  ClusterIInv'
<1>. USE ClusterAssumption DEF EndHeartbeat, ClusterIInv
<1>1. CASE up[n] = "starting"
  <2>1. n \in Nodes \ Steadfast
    BY <1>1 DEF SeenInTime
  <2>. QED  BY <1>1, <2>1, ReapedSpares DEF JobType, StartupReaped, ClusterTypeOK, NoBeat, SeenInTime, NeverLost, Steadfast
<1>2. CASE up[n] # "starting"
  BY <1>2 DEF ClusterTypeOK, NoBeat, SeenInTime, NeverLost, Steadfast, SteadfastSpared
<1>. QED  BY <1>1, <1>2

-----------------------------------------------------------------------------
(* Nodes, time and jobs.                                                    *)

LEMMA CrashStep ==
  ASSUME ClusterIInv, NEW n \in Nodes, Crash(n)
  PROVE  ClusterIInv'
  BY ClusterAssumption DEF Crash, GoDown, ClusterIInv, ClusterTypeOK, NoBeat, SeenInTime, NeverLost, Steadfast, SteadfastSpared

LEMMA ShutDownStep ==
  ASSUME ClusterIInv, NEW n \in Nodes, ShutDown(n)
  PROVE  ClusterIInv'
<1>. USE ClusterAssumption DEF ShutDown, GoDown, ClusterIInv
<1>1. n \in Nodes \ Steadfast
  BY DEF Steadfast
<1>2. SteadfastSpared' /\ ClusterTypeOK'
  BY <1>1, ReapedSpares DEF JobType, ClusterTypeOK, NoBeat
<1>3. SeenInTime' /\ NeverLost'
  BY <1>1 DEF ClusterTypeOK, NoBeat, SeenInTime, NeverLost, Steadfast
<1>. QED  BY <1>2, <1>3

LEMMA StartNodeStep ==
  ASSUME ClusterIInv, NEW n \in Nodes, StartNode(n)
  PROVE  ClusterIInv'
  BY DEF StartNode, ClusterIInv, ClusterTypeOK, SeenInTime, NeverLost, Steadfast, SteadfastSpared

(* A steadfast node is up and no laggard, so that time waits for its heartbeat. *)
LEMMA TimePassesStep ==
  ASSUME ClusterIInv, TimePasses
  PROVE  ClusterIInv'
<1>. USE ClusterAssumption DEF TimePasses, ClusterIInv
<1>1. ClusterTypeOK'
  BY DEF ClusterTypeOK
<1>2. SeenInTime'
  BY DEF SeenInTime, Steadfast, ClusterTypeOK
<1>3. NeverLost' /\ SteadfastSpared'
  BY DEF NeverLost, SteadfastSpared
<1>. QED  BY <1>1, <1>2, <1>3

LEMMA ClusterJobStep ==
  ASSUME ClusterIInv, NEW j \in ClusterJobs, AdvanceJob(j) \/ \E n \in Nodes : PlaceJob(j, n)
  PROVE  ClusterIInv'
<1>1. ClusterTypeOK' /\ SteadfastSpared'
  <2>1. CASE AdvanceJob(j)
    <3>1. PICK t \in {"running", "over"} : clusterJob' = [clusterJob EXCEPT ![j].status = t]
      BY <2>1 DEF AdvanceJob
    <3>2. [clusterJob[j] EXCEPT !.status = t] \in JobType /\ clusterJob \in [ClusterJobs -> JobType]
      BY DEF JobType, Unfinished, ClusterIInv, ClusterTypeOK
    <3>3. clusterJob' \in [ClusterJobs -> JobType]
      BY <3>1, <3>2
    <3>4. ClusterTypeOK'
      BY <2>1, <3>3 DEF AdvanceJob, ClusterIInv, ClusterTypeOK, JobType
    <3>5. SteadfastSpared'
      BY <3>1 DEF ClusterIInv, SteadfastSpared, ClusterTypeOK
    <3>. QED  BY <3>4, <3>5
  <2>2. ASSUME NEW n \in Nodes, PlaceJob(j, n)  PROVE ClusterTypeOK' /\ SteadfastSpared'
    <3>1. [status |-> "waiting", on |-> n] \in JobType
      BY DEF JobType, Unfinished
    <3>2. clusterJob' \in [ClusterJobs -> JobType]
      BY <2>2, <3>1 DEF PlaceJob, ClusterIInv, ClusterTypeOK, JobType
    <3>3. ClusterTypeOK'
      BY <2>2, <3>2 DEF PlaceJob, ClusterIInv, ClusterTypeOK, JobType
    <3>4. SteadfastSpared'
      BY <2>2 DEF PlaceJob, ClusterIInv, SteadfastSpared, ClusterTypeOK
    <3>. QED  BY <3>3, <3>4
  <2>. QED  BY <2>1, <2>2
<1>2. SeenInTime' /\ NeverLost'
  BY DEF AdvanceJob, PlaceJob, ClusterIInv, SeenInTime, NeverLost
<1>. QED  BY <1>1, <1>2 DEF ClusterIInv

-----------------------------------------------------------------------------
LEMMA ClusterInvariance == ClusterIInv /\ [ClusterNext]_clusterVars => ClusterIInv'
<1>. SUFFICES ASSUME ClusterIInv, [ClusterNext]_clusterVars  PROVE ClusterIInv'
  OBVIOUS
<1>1. CASE UNCHANGED clusterVars
  BY <1>1 DEF clusterVars, ClusterIInv, ClusterTypeOK, SeenInTime, NeverLost, SteadfastSpared
<1>2. ASSUME NEW n \in Nodes, Heartbeat(n)  PROVE ClusterIInv'
  BY <1>2, ReadInstancesStep, CheckHealthStep, ReapLostStep, MarkOfflineStep, EndHeartbeatStep
     DEF Heartbeat
<1>3. ASSUME NEW n \in Nodes, Crash(n) \/ ShutDown(n) \/ StartNode(n)  PROVE ClusterIInv'
  BY <1>3, CrashStep, ShutDownStep, StartNodeStep
<1>4. CASE TimePasses
  BY <1>4, TimePassesStep
<1>5. ASSUME NEW j \in ClusterJobs, AdvanceJob(j) \/ \E n \in Nodes : PlaceJob(j, n)
      PROVE  ClusterIInv'
  BY <1>5, ClusterJobStep
<1>. QED  BY <1>1, <1>2, <1>3, <1>4, <1>5 DEF ClusterNext

LEMMA ClusterInvariant == ClusterSpec => []ClusterIInv
  BY ClusterInitially, ClusterInvariance, PTL DEF ClusterSpec

(* Every variable of the cluster keeps its type. *)
THEOREM ClusterTypeCorrect == ClusterSpec => []ClusterTypeOK
<1>1. ClusterIInv => ClusterTypeOK
  BY DEF ClusterIInv
<1>. QED  BY <1>1, ClusterInvariant, PTL

(* A node that stays up and is seen within the tolerance loses no job, whatever the
   heartbeats of the others have read and whenever they act on it (system.py 562-650,
   ha.py 290-298). *)
THEOREM SteadfastSparedAlways == ClusterSpec => []SteadfastSpared
<1>1. ClusterIInv => SteadfastSpared
  BY DEF ClusterIInv
<1>. QED  BY <1>1, ClusterInvariant, PTL

-----------------------------------------------------------------------------
(* Periodic tasks. *)

(* An entry that runs is marked as having run; the main loop wakes up before the
   next target, or has not been late for longer than it may be. *)
Marking == alive => \A e \in Entries : ran[e] = index[e]
Waking == alive => clock <= wake + MaxLag /\ \A e \in Entries : wake <= NextRun(e)

PeriodicInvariant == PeriodicTypeOK /\ twice = {} /\ Marking /\ Waking

LEMMA Quotient ==
  ASSUME NEW n \in Nat, NEW d \in Nat \ {0}
  PROVE  n \div d \in Nat /\ d * (n \div d) <= n /\ n < d * ((n \div d) + 1)
<1>1. n \div d \in Int /\ n % d \in 0 .. d - 1 /\ n = d * (n \div d) + (n % d)
  OBVIOUS
<1>2. n \div d >= 0
  BY <1>1
<1>. QED  BY <1>1, <1>2

LEMMA LeastNat ==
  ASSUME NEW S \in SUBSET Nat, S # {}
  PROVE  Min(S) \in S /\ \A y \in S : Min(S) <= y
<1>1. PICK m \in S : \A y \in S : ~(<<y, m>> \in OpToRel(<, Nat))
  BY NatLessThanWellFounded, WFMin
<1>2. OpToRel(<, Nat) = {ss \in Nat \X Nat : ss[1] < ss[2]}
  BY Zenon DEF OpToRel
<1>3. ASSUME NEW y \in S  PROVE m <= y
  <2>1. m \in Nat /\ y \in Nat /\ <<y, m>> \in Nat \X Nat
    OBVIOUS
  <2>2. <<y, m>> \notin {ss \in Nat \X Nat : ss[1] < ss[2]}
    BY <1>1, <1>2
  <2>3. ~(y < m)
    BY <2>1, <2>2
  <2>. QED  BY <2>1, <2>3
<1>. QED  BY <1>3 DEF Min

LEMMA MaxWithZero ==
  ASSUME NEW x \in Int
  PROVE  Max({0, x}) = IF x >= 0 THEN x ELSE 0
<1>. DEFINE m == IF x >= 0 THEN x ELSE 0
<1>1. m \in {0, x} /\ \A y \in {0, x} : m >= y
  OBVIOUS
<1>2. \A k \in {0, x} : (\A y \in {0, x} : k >= y) => k = m
  OBVIOUS
<1>. QED  BY <1>1, <1>2 DEF Max

(* Targets.                                                                 *)
LEMMA EntryTypes ==
  /\ Entries = 1 .. Len(Interval) /\ Len(Interval) \in Nat \ {0}
  /\ \A e \in Entries : Interval[e] \in Nat \ {0} /\ Offset(e) \in Nat
<1>1. Entries = 1 .. Len(Interval) /\ Len(Interval) \in Nat \ {0}
      /\ \A e \in Entries : Interval[e] \in Nat \ {0}
  BY PeriodicAssumption DEF Entries
<1>2. MinInterval \in Nat
  <2>1. Range(Interval) \in SUBSET Nat /\ Range(Interval) # {}
    BY <1>1 DEF Range, Entries
  <2>. QED  BY <2>1, LeastNat DEF MinInterval
<1>3. ASSUME NEW e \in Entries  PROVE Offset(e) \in Nat
  <2>1. (e - 1) * MinInterval \in Nat
    <3>1. e - 1 \in Nat
      BY <1>1
    <3>. QED  BY <3>1, <1>2
  <2>. QED  BY <2>1, <1>1, Quotient DEF Offset
<1>. QED  BY <1>1, <1>3

LEMMA Targets ==
  ASSUME PeriodicTypeOK, NEW e \in Entries
  PROVE  /\ NextRun(e) \in Nat /\ Period(e, clock) \in Nat /\ clock \in Int
         /\ DueToRun(e) => index[e] < Period(e, clock)
         /\ clock < (Period(e, clock) + 1) * Interval[e] + Offset(e)
<1>1. /\ clock \in Int /\ index[e] \in Nat /\ Interval[e] \in Nat \ {0} /\ Offset(e) \in Nat
  BY EntryTypes, PeriodicAssumption DEF PeriodicTypeOK, Grace
<1>. DEFINE i == index[e]
            d == Interval[e]
            o == Offset(e)
<1>2. (i + 1) * d \in Nat /\ (i + 1) * d > 0 /\ NextRun(e) = (i + 1) * d + o
  BY <1>1 DEF NextRun
<1>3. CASE clock < o
  <2>1. Period(e, clock) = 0
    BY <1>3 DEF Period
  <2>2. ~DueToRun(e)
    BY <1>1, <1>2, <1>3 DEF DueToRun
  <2>3. (0 + 1) * Interval[e] + Offset(e) = d + o
    BY <1>1
  <2>. QED  BY <1>1, <1>2, <1>3, <2>1, <2>2, <2>3
<1>4. CASE ~(clock < o)
  <2>. DEFINE n == clock - o
              q == n \div d
  <2>1. n \in Nat /\ Period(e, clock) = q
    BY <1>1, <1>4 DEF Period
  <2>2. q \in Nat /\ d * q <= n /\ n < d * (q + 1)
    BY <1>1, <2>1, Quotient
  <2>3. ASSUME DueToRun(e)  PROVE i < q
    <3>1. (i + 1) * d <= n
      BY <1>1, <1>2, <2>3, <2>1 DEF DueToRun
    <3>2. (i + 1) * d < d * (q + 1)
      BY <1>1, <1>2, <2>1, <2>2, <3>1
    <3>. HIDE DEF n, q
    <3>3. i + 1 < q + 1
      BY <1>1, <2>2, <3>2
    <3>. QED  BY <1>1, <2>2, <3>3
  <2>4. clock < (q + 1) * d + o
    <3>1. d * (q + 1) = (q + 1) * d /\ (q + 1) * d \in Nat
      BY <1>1, <2>2
    <3>. QED  BY <1>1, <2>1, <2>2, <3>1
  <2>. QED  BY <1>1, <1>2, <2>1, <2>2, <2>3, <2>4
<1>. QED  BY <1>3, <1>4

LEMMA Timeout ==
  ASSUME NEW targets, targets \subseteq Int, clock \in Int
  PROVE  /\ SelectTimeout(targets) \in Nat
         /\ \A t \in targets : t >= clock => clock + SelectTimeout(targets) <= t
<1>. DEFINE wait(t) == Max({0, t - clock})
            S == {20} \cup {wait(t) : t \in targets}
<1>1. \A t \in targets : wait(t) = IF t - clock >= 0 THEN t - clock ELSE 0
  BY MaxWithZero
<1>2. SelectTimeout(targets) = Min(S)
  BY DEF SelectTimeout
<1>. HIDE DEF wait
<1>3. S \in SUBSET Nat /\ S # {}
  BY <1>1
<1>4. Min(S) \in Nat /\ \A y \in S : Min(S) <= y
  BY <1>3, LeastNat
<1>5. \A t \in targets : wait(t) \in S
  OBVIOUS
<1>. HIDE DEF S
<1>. QED  BY <1>1, <1>2, <1>4, <1>5

LEMMA PeriodicInitially == PeriodicInit => PeriodicInvariant
<1>. SUFFICES ASSUME PeriodicInit  PROVE PeriodicInvariant
  OBVIOUS
<1>1. PeriodicTypeOK
  BY PeriodicAssumption DEF PeriodicInit, PeriodicTypeOK, Grace
<1>2. \A e \in Entries : NextRun(e) \in Nat
  BY <1>1, Targets
<1>. QED  BY <1>1, <1>2, PeriodicAssumption DEF PeriodicInit, PeriodicInvariant, Marking, Waking, Grace

(* A turn of the main loop: what is due has a period that is not marked; what it waits
   for comes after now. *)
LEMMA LookStep ==
  ASSUME PeriodicInvariant, Look
  PROVE  PeriodicInvariant'
<1>. DEFINE due == {e \in Entries : DueToRun(e)}
            sent == {e \in due : \A u \in due \cap Undecorated : e < u}
            marks == [e \in Entries |-> IF e \in due THEN Marked(e) ELSE index[e]]
            targets == {(marks[e] + 1) * Interval[e] + Offset(e) : e \in Entries}
<1>1. /\ alive /\ index' = marks /\ clock' = clock
      /\ ran' = [e \in Entries |-> IF e \in sent THEN Period(e, clock) ELSE ran[e]]
      /\ twice' = twice \cup {e \in sent : ran[e] = Period(e, clock)}
      /\ alive' = (due \cap Undecorated = {})
      /\ wake' = clock + SelectTimeout(targets)
  BY DEF Look
<1>2. /\ clock \in Int /\ index \in [Entries -> Nat] /\ ran \in [Entries -> Nat]
      /\ \A e \in Entries : Period(e, clock) \in Nat
  BY Targets DEF PeriodicInvariant, PeriodicTypeOK
<1>3. marks \in [Entries -> Nat]
  BY <1>2 DEF Marked
<1>4. ASSUME NEW e \in Entries
      PROVE  /\ (marks[e] + 1) * Interval[e] + Offset(e) \in Nat
             /\ clock < (marks[e] + 1) * Interval[e] + Offset(e)
  <2>1. Interval[e] \in Nat /\ Offset(e) \in Nat /\ marks[e] \in Nat
    BY <1>3, EntryTypes
  <2>2. (marks[e] + 1) * Interval[e] + Offset(e) \in Nat
    <3>. HIDE DEF marks
    <3>. QED  BY <2>1
  <2>3. CASE e \in due
    <3>1. marks[e] = Period(e, clock)
      BY <2>3 DEF Marked
    <3>. QED  BY <2>2, <3>1, Targets DEF PeriodicInvariant
  <2>4. CASE e \notin due
    <3>1. marks[e] = index[e] /\ ~DueToRun(e)
      BY <2>4
    <3>2. NextRun(e) \in Nat /\ clock < NextRun(e)
      BY <1>2, <3>1, Targets DEF PeriodicInvariant, DueToRun
    <3>. QED  BY <2>2, <3>1, <3>2 DEF NextRun
  <2>. QED  BY <2>2, <2>3, <2>4
<1>5. /\ SelectTimeout(targets) \in Nat
      /\ \A e \in Entries : wake' <= (marks[e] + 1) * Interval[e] + Offset(e)
  <2>1. targets \subseteq Int
    BY <1>4
  <2>2. \A e \in Entries : (marks[e] + 1) * Interval[e] + Offset(e) \in targets
    OBVIOUS
  <2>3. \A e \in Entries : (marks[e] + 1) * Interval[e] + Offset(e) >= clock
    BY <1>2, <1>4
  <2>. HIDE DEF targets, marks
  <2>4. /\ SelectTimeout(targets) \in Nat
        /\ \A t \in targets : t >= clock => clock + SelectTimeout(targets) <= t
    BY <1>2, <2>1, Timeout
  <2>. QED  BY <1>1, <2>2, <2>3, <2>4
<1>6. twice' = {}
  <2>1. ASSUME NEW e \in sent  PROVE ran[e] # Period(e, clock)
    <3>1. e \in Entries /\ DueToRun(e) /\ ran[e] = index[e]
      BY <1>1 DEF PeriodicInvariant, Marking
    <3>2. index[e] < Period(e, clock) /\ index[e] \in Nat
      BY <1>2, <3>1, Targets DEF PeriodicInvariant
    <3>. QED  BY <1>2, <3>1, <3>2
  <2>. QED  BY <1>1, <2>1 DEF PeriodicInvariant
<1>7. PeriodicTypeOK'
  <2>1. ran' \in [Entries -> Nat]
    BY <1>1, <1>2
  <2>2. alive' \in BOOLEAN /\ wake' \in Int
    BY <1>1, <1>2, <1>5
  <2>. QED  BY <1>1, <1>3, <1>6, <2>1, <2>2 DEF PeriodicInvariant, PeriodicTypeOK
<1>8. Marking'
  <2>. SUFFICES ASSUME alive', NEW e \in Entries  PROVE ran'[e] = index'[e]
    BY DEF Marking
  <2>1. sent = due
    BY <1>1
  <2>2. ran[e] = index[e]
    BY <1>1 DEF PeriodicInvariant, Marking
  <2>. QED  BY <1>1, <2>1, <2>2 DEF Marked
<1>9. Waking'
  <2>1. \A e \in Entries : NextRun(e)' = (marks[e] + 1) * Interval[e] + Offset(e)
    BY <1>1 DEF NextRun, Offset, MinInterval
  <2>2. clock' <= wake' + MaxLag
    BY <1>1, <1>2, <1>5, PeriodicAssumption
  <2>. HIDE DEF marks
  <2>. QED  BY <1>5, <2>1, <2>2 DEF Waking
<1>. QED  BY <1>6, <1>7, <1>8, <1>9 DEF PeriodicInvariant

LEMMA PeriodicInvariance == PeriodicInvariant /\ [PeriodicNext]_periodicVars => PeriodicInvariant'
<1>. SUFFICES ASSUME PeriodicInvariant, [PeriodicNext]_periodicVars  PROVE PeriodicInvariant'
  OBVIOUS
<1>1. CASE Tick
  <2>1. clock' = clock + 1 /\ clock' \in (0 - Grace) .. Horizon /\ clock' <= wake + MaxLag
    BY <1>1, PeriodicAssumption DEF Tick, PeriodicInvariant, PeriodicTypeOK, Grace
  <2>. QED  BY <1>1, <2>1 DEF Tick, PeriodicInvariant, PeriodicTypeOK, Marking, Waking, NextRun
<1>2. CASE StopDispatcher
  BY <1>2 DEF StopDispatcher, PeriodicInvariant, PeriodicTypeOK, Marking, Waking
<1>3. CASE RestartDispatcher
  <2>1. PeriodicTypeOK'
    BY <1>3, PeriodicAssumption
    DEF RestartDispatcher, PeriodicInvariant, PeriodicTypeOK, Grace
  <2>2. \A e \in Entries : NextRun(e)' \in Nat
    <3>1. ASSUME NEW e \in Entries  PROVE NextRun(e)' \in Nat
      <4>1. NextRun(e)' = 1 * Interval[e] + Offset(e)
        BY <1>3 DEF RestartDispatcher, NextRun, Offset, MinInterval
      <4>. QED  BY <4>1, EntryTypes
    <3>. QED  BY <3>1
  <2>. QED  BY <1>3, <2>1, <2>2, PeriodicAssumption
            DEF RestartDispatcher, PeriodicInvariant, Marking, Waking, Grace
<1>4. CASE UNCHANGED periodicVars
  BY <1>4 DEF periodicVars, PeriodicInvariant, PeriodicTypeOK, Marking, Waking, NextRun
<1>. QED  BY <1>1, <1>2, <1>3, <1>4, LookStep DEF PeriodicNext

LEMMA PeriodicAlways == PeriodicSpec => []PeriodicInvariant
  BY PeriodicInitially, PeriodicInvariance, PTL DEF PeriodicSpec

(* The clock, the marks and the bounds have their types whatever the main loop does. *)
THEOREM PeriodicTypeCorrect == PeriodicSpec => []PeriodicTypeOK
<1>1. PeriodicInvariant => PeriodicTypeOK
  BY DEF PeriodicInvariant
<1>. QED  BY <1>1, PeriodicAlways, PTL

(* No entry is sent off twice in one of its periods, however late the main loop
   looks and however the entries' targets fall together (dispatch/periodic.py). *)
THEOREM OncePerPeriodAlways == PeriodicSpec => []OncePerPeriod
<1>1. PeriodicInvariant => OncePerPeriod
  BY DEF PeriodicInvariant, OncePerPeriod, Marking
<1>. QED  BY <1>1, PeriodicAlways, PTL

(* While the main loop lives, no entry is overdue for longer than the loop is late
   for what its select waited for (dispatch/periodic.py, dispatch/worker/base.py). *)
THEOREM PunctualAlways == PeriodicSpec => []Punctual
<1>1. PeriodicInvariant => Punctual
  <2>. SUFFICES ASSUME PeriodicInvariant, alive, NEW e \in Entries  PROVE clock <= NextRun(e) + MaxLag
    BY DEF Punctual
  <2>1. NextRun(e) \in Nat /\ clock \in Int /\ wake \in Int /\ MaxLag \in Nat
    BY Targets, PeriodicAssumption DEF PeriodicInvariant, PeriodicTypeOK
  <2>. QED  BY <2>1 DEF PeriodicInvariant, Waking
<1>. QED  BY <1>1, PeriodicAlways, PTL

-----------------------------------------------------------------------------
(* Settings. *)

EntryType == [value : Nat, left : Nat, odd : BOOLEAN]

SettingTypes ==
  /\ stored \in 0 .. MaxChanges /\ changes \in 0 .. MaxChanges /\ since \in 0 .. Settled
  /\ change \in [by : SUBSET Readers, value : 0 .. MaxChanges]
  /\ shared \in [Sites -> EntryType] /\ \A n \in Sites : shared[n].left <= CacheTTL
  /\ memory \in [Readers -> EntryType] /\ \A p \in Readers : memory[p].left <= MemoryTTL
  /\ reading \in [Readers -> [at : {"off", "fetch", "put"}, value : 0 .. MaxChanges, held : 0 .. MaxHeld]]
  /\ clears \subseteq Sites /\ missing \subseteq Sites

(* How long a value may still be there that is not the committed one: what was read
   has been held since, and each place has it no longer than its timeout. *)
StaleReads ==
  \A p \in Readers :
    reading[p].at = "put" /\ reading[p].value # stored => since <= reading[p].held
StaleShared ==
  \A n \in Sites :
    shared[n].left > 0 /\ shared[n].value # stored => since + shared[n].left <= MaxHeld + CacheTTL
StaleMemory ==
  \A p \in Readers :
    memory[p].left > 0 /\ memory[p].value # stored =>
      since + memory[p].left <= MaxHeld + CacheTTL + MemoryTTL
Expiring == change.by = {} => StaleReads /\ StaleShared /\ StaleMemory

SettingInvariant == SettingTypes /\ Expiring /\ ClearedForGood

LEMMA SiteOf ==
  ASSUME NEW p \in Readers
  PROVE  Site[p] \in Sites
  BY DEF Sites

LEMMA Nothing ==
  None \in EntryType /\ None.left = 0 /\ Idle0.at = "off" /\ Idle0.value = 0 /\ Idle0.held = 0
  BY DEF None, EntryType, Idle0

LEMMA Ageing ==
  ASSUME NEW entry \in EntryType
  PROVE  /\ Aged(entry) \in EntryType /\ Aged(entry).left <= entry.left
         /\ Aged(entry).left > 0 => /\ Aged(entry).left + 1 = entry.left
                                    /\ Aged(entry).value = entry.value /\ Aged(entry).odd = entry.odd
<1>1. CASE entry.left > 1
  <2>1. entry.left - 1 \in Nat
    BY <1>1 DEF EntryType
  <2>. QED  BY <1>1, <2>1 DEF Aged, EntryType
<1>2. CASE ~(entry.left > 1)
  BY <1>2, Nothing DEF Aged, EntryType
<1>. QED  BY <1>1, <1>2

LEMMA SettingInitially == SettingInit => SettingInvariant
<1>. SUFFICES ASSUME SettingInit  PROVE SettingInvariant
  OBVIOUS
<1>1. SettingTypes
  BY SettingAssumption, Nothing DEF SettingInit, SettingTypes, NoChange, Idle0, Settled
<1>2. /\ \A n \in Sites : shared[n].left = 0
      /\ \A p \in Readers : memory[p].left = 0 /\ reading[p].at = "off"
  BY Nothing DEF SettingInit
<1>3. Expiring /\ ClearedForGood
  BY <1>2 DEF Expiring, StaleReads, StaleShared, StaleMemory, ClearedForGood
<1>. QED  BY <1>1, <1>3 DEF SettingInvariant

LEMMA TimeTypes ==
  ASSUME SettingTypes
  PROVE  /\ CacheTTL \in Nat \ {0} /\ MemoryTTL \in Nat \ {0} /\ MaxHeld \in Nat /\ MaxChanges \in Nat
         /\ since \in Nat /\ Settled \in Nat /\ Settled = MaxHeld + CacheTTL + MemoryTTL + 1
         /\ \A n \in Sites : shared[n].left \in Nat
         /\ \A p \in Readers : memory[p].left \in Nat /\ reading[p].held \in 0 .. MaxHeld
<1>1. /\ CacheTTL \in Nat \ {0} /\ MemoryTTL \in Nat \ {0} /\ MaxHeld \in Nat /\ MaxChanges \in Nat
      /\ Settled = MaxHeld + CacheTTL + MemoryTTL + 1
  BY SettingAssumption DEF Settled
<1>2. Settled \in Nat
  BY <1>1
<1>3. since \in Nat
  BY <1>2 DEF SettingTypes
<1>4. \A n \in Sites : shared[n].left \in Nat
  BY DEF SettingTypes, EntryType
<1>5. \A p \in Readers : memory[p].left \in Nat
  BY DEF SettingTypes, EntryType
<1>6. \A p \in Readers : reading[p].held \in 0 .. MaxHeld
  BY DEF SettingTypes
<1>. QED  BY <1>1, <1>2, <1>3, <1>4, <1>5, <1>6

(* A process takes over what the redis of its node holds. *)
LEMMA LookUpStep ==
  ASSUME SettingInvariant, NEW p \in Readers, LookUp(p)
  PROVE  SettingInvariant'
<1>1. CASE shared[Site[p]].left > 0
  <2>. DEFINE entry == [shared[Site[p]] EXCEPT !.left = MemoryTTL]
  <2>1. /\ entry \in EntryType /\ entry.left = MemoryTTL /\ entry.value = shared[Site[p]].value
    <3>1. shared[Site[p]] \in EntryType
      BY SiteOf DEF SettingInvariant, SettingTypes
    <3>2. MemoryTTL \in Nat
      BY SettingAssumption
    <3>. QED  BY <3>1, <3>2 DEF EntryType
  <2>2. /\ memory' = [memory EXCEPT ![p] = entry]
        /\ UNCHANGED <<stored, change, shared, reading, clears, missing, changes, since>>
    BY <1>1 DEF LookUp, Kept
  <2>. HIDE DEF entry
  <2>3. SettingTypes'
    BY <2>1, <2>2, TimeTypes DEF SettingInvariant, SettingTypes
  <2>4. change.by = {} /\ entry.value # stored => since + MemoryTTL <= MaxHeld + CacheTTL + MemoryTTL
    BY <1>1, <2>1, SiteOf, TimeTypes DEF SettingInvariant, Expiring, StaleShared
  <2>5. Expiring'
    BY <2>1, <2>2, <2>4 DEF SettingInvariant, SettingTypes, Expiring, StaleReads, StaleShared, StaleMemory
  <2>. QED  BY <2>2, <2>3, <2>5 DEF SettingInvariant, ClearedForGood
<1>2. CASE ~(shared[Site[p]].left > 0)
  <2>1. /\ reading' = [reading EXCEPT ![p].at = "fetch"]
        /\ UNCHANGED <<stored, change, shared, memory, clears, missing, changes, since>>
    BY <1>2 DEF LookUp
  <2>. QED  BY <2>1 DEF SettingInvariant, SettingTypes, Expiring, StaleReads, StaleShared, StaleMemory,
                        ClearedForGood
<1>. QED  BY <1>1, <1>2

LEMMA BeginStep ==
  ASSUME SettingInvariant, NEW p \in Readers, BeginRequest(p) \/ Preload(p)
  PROVE  SettingInvariant'
<1>1. CASE BeginRequest(p)
  <2>1. SettingTypes'
    BY <1>1, Nothing, TimeTypes DEF BeginRequest, SettingInvariant, SettingTypes
  <2>2. Expiring'
    <3>1. StaleMemory => StaleMemory'
      BY <1>1, Nothing DEF BeginRequest, SettingInvariant, SettingTypes, StaleMemory
    <3>. QED  BY <1>1, <3>1 DEF BeginRequest, SettingInvariant, Expiring, StaleReads, StaleShared
  <2>. QED  BY <1>1, <2>1, <2>2 DEF BeginRequest, SettingInvariant, ClearedForGood
<1>2. CASE Preload(p)
  BY <1>2
  DEF Preload, SettingInvariant, SettingTypes, Expiring, StaleReads, StaleShared, StaleMemory,
      ClearedForGood
<1>. QED  BY <1>1, <1>2

LEMMA FetchStep ==
  ASSUME SettingInvariant, NEW p \in Readers, Fetch(p)
  PROVE  SettingInvariant'
<1>1. Seen(p) \in 0 .. MaxChanges /\ (change.by = {} => Seen(p) = stored)
  BY DEF Seen, SettingInvariant, SettingTypes
<1>. DEFINE r == [at |-> "put", value |-> Seen(p), held |-> 0]
<1>2. r \in [at : {"off", "fetch", "put"}, value : 0 .. MaxChanges, held : 0 .. MaxHeld]
      /\ r.at = "put" /\ r.value = Seen(p)
  BY <1>1, SettingAssumption
<1>3. /\ reading' = [reading EXCEPT ![p] = r]
      /\ UNCHANGED <<stored, change, shared, memory, clears, missing, changes, since>>
  BY DEF Fetch
<1>. HIDE DEF r
<1>4. SettingTypes'
  BY <1>2, <1>3 DEF SettingInvariant, SettingTypes
<1>5. Expiring'
  BY <1>1, <1>2, <1>3 DEF SettingInvariant, SettingTypes, Expiring, StaleReads, StaleShared, StaleMemory
<1>. QED  BY <1>3, <1>4, <1>5 DEF SettingInvariant, ClearedForGood

LEMMA PutStep ==
  ASSUME SettingInvariant, NEW p \in Readers, Put(p)
  PROVE  SettingInvariant'
<1>. DEFINE e == [value |-> reading[p].value, left |-> CacheTTL, odd |-> reading[p].value # stored]
            m == [e EXCEPT !.left = MemoryTTL]
<1>1. /\ e \in EntryType /\ e.left = CacheTTL /\ e.value = reading[p].value
      /\ e.odd <=> e.value # stored
      /\ m \in EntryType /\ m.left = MemoryTTL /\ m.value = reading[p].value
  <2>1. reading[p].value \in Nat /\ CacheTTL \in Nat /\ MemoryTTL \in Nat
    BY SettingAssumption DEF SettingInvariant, SettingTypes
  <2>2. (reading[p].value # stored) \in BOOLEAN
    OBVIOUS
  <2>. QED  BY <2>1, <2>2 DEF EntryType
<1>2. /\ shared' = [shared EXCEPT ![Site[p]] = e] /\ memory' = [memory EXCEPT ![p] = m]
      /\ reading' = [reading EXCEPT ![p] = Idle0] /\ reading[p].at = "put"
      /\ UNCHANGED <<stored, change, clears, missing, changes, since>>
  BY DEF Put
<1>. HIDE DEF e, m
<1>3. SettingTypes'
  <2>1. Idle0 \in [at : {"off", "fetch", "put"}, value : 0 .. MaxChanges, held : 0 .. MaxHeld]
    BY SettingAssumption DEF Idle0
  <2>2. /\ shared' \in [Sites -> EntryType] /\ \A n \in Sites : shared'[n].left <= CacheTTL
    BY <1>1, <1>2, SiteOf, TimeTypes DEF SettingInvariant, SettingTypes
  <2>3. /\ memory' \in [Readers -> EntryType] /\ \A q \in Readers : memory'[q].left <= MemoryTTL
    BY <1>1, <1>2, TimeTypes DEF SettingInvariant, SettingTypes
  <2>. QED  BY <1>2, <2>1, <2>2, <2>3 DEF SettingInvariant, SettingTypes
<1>4. change.by = {} /\ e.value # stored => since + CacheTTL <= MaxHeld + CacheTTL
  BY <1>1, <1>2, TimeTypes DEF SettingInvariant, Expiring, StaleReads
<1>5. change.by = {} /\ m.value # stored => since + MemoryTTL <= MaxHeld + CacheTTL + MemoryTTL
  BY <1>1, <1>2, TimeTypes DEF SettingInvariant, Expiring, StaleReads
<1>6. Expiring'
  <2>. SUFFICES ASSUME change.by = {}  PROVE StaleReads' /\ StaleShared' /\ StaleMemory'
    BY <1>2 DEF Expiring
  <2>1. StaleReads'
    BY <1>2, Nothing DEF SettingInvariant, SettingTypes, Expiring, StaleReads
  <2>2. StaleShared'
    BY <1>1, <1>2, <1>4 DEF SettingInvariant, SettingTypes, Expiring, StaleShared
  <2>3. StaleMemory'
    BY <1>1, <1>2, <1>5 DEF SettingInvariant, SettingTypes, Expiring, StaleMemory
  <2>. QED  BY <2>1, <2>2, <2>3
<1>7. ClearedForGood'
  BY <1>1, <1>2 DEF SettingInvariant, SettingTypes, ClearedForGood
<1>. QED  BY <1>3, <1>6, <1>7 DEF SettingInvariant

(* Changes. *)
LEMMA WriteStep ==
  ASSUME SettingInvariant, NEW p \in Readers, Write(p)
  PROVE  SettingInvariant'
<1>1. change'.by # {} /\ change' \in [by : SUBSET Readers, value : 0 .. MaxChanges]
      /\ changes' \in 0 .. MaxChanges
  BY SettingAssumption DEF Write, SettingInvariant, SettingTypes
<1>2. SettingTypes'
  <2>1. /\ shared' \in [Sites -> EntryType] /\ \A n \in Sites : shared'[n].left <= CacheTTL
    BY Nothing, SiteOf, TimeTypes DEF Write, SettingInvariant, SettingTypes
  <2>2. /\ memory' \in [Readers -> EntryType] /\ \A q \in Readers : memory'[q].left <= MemoryTTL
    BY Nothing, TimeTypes DEF Write, SettingInvariant, SettingTypes
  <2>3. reading' \in [Readers -> [at : {"off", "fetch", "put"}, value : 0 .. MaxChanges, held : 0 .. MaxHeld]]
    BY DEF Write, SettingInvariant, SettingTypes
  <2>. QED  BY <1>1, <2>1, <2>2, <2>3 DEF Write, SettingInvariant, SettingTypes
<1>3. ClearedForGood'
  BY Nothing DEF Write, SettingInvariant, SettingTypes, ClearedForGood
<1>. QED  BY <1>1, <1>2, <1>3 DEF SettingInvariant, Expiring

LEMMA EndChangeStep ==
  ASSUME SettingInvariant, NEW p \in Readers, Commit(p) \/ RollBack(p)
  PROVE  SettingInvariant'
<1>1. SettingTypes' /\ since' = 0
  BY Nothing, SettingAssumption
  DEF Commit, RollBack, SettingInvariant, SettingTypes, NoChange, Idle0, Settled
<1>2. Expiring'
  <2>1. \A q \in Readers : reading'[q].held \in Nat /\ memory'[q].left <= MemoryTTL /\ memory'[q].left \in Nat
    BY <1>1 DEF SettingTypes, EntryType
  <2>2. \A n \in Sites : shared'[n].left <= CacheTTL /\ shared'[n].left \in Nat
    BY <1>1 DEF SettingTypes, EntryType
  <2>. QED  BY <1>1, <2>1, <2>2, SettingAssumption DEF Expiring, StaleReads, StaleShared, StaleMemory
<1>3. ClearedForGood'
  BY DEF Commit, RollBack, SettingInvariant, ClearedForGood
<1>. QED  BY <1>1, <1>2, <1>3 DEF SettingInvariant

LEMMA ClearStep ==
  ASSUME SettingInvariant, NEW n \in Sites, Clear(n) \/ MissClear(n)
  PROVE  SettingInvariant'
<1>1. CASE Clear(n)
  BY <1>1, Nothing, SettingAssumption
  DEF Clear, Emptied, SettingInvariant, SettingTypes, Expiring, StaleReads, StaleShared, StaleMemory,
      ClearedForGood
<1>2. CASE MissClear(n)
  BY <1>2
  DEF MissClear, SettingInvariant, SettingTypes, Expiring, StaleReads, StaleShared, StaleMemory,
      ClearedForGood
<1>. QED  BY <1>1, <1>2

LEMMA TimeStep ==
  ASSUME SettingInvariant, TimeGoesBy
  PROVE  SettingInvariant'
<1>1. since' \in 0 .. Settled /\ since' <= since + 1
  BY TimeTypes DEF TimeGoesBy, SettingInvariant, SettingTypes
<1>2. ASSUME NEW p \in Readers
      PROVE  /\ reading'[p] \in [at : {"off", "fetch", "put"}, value : 0 .. MaxChanges, held : 0 .. MaxHeld]
             /\ reading'[p].at = reading[p].at /\ reading'[p].value = reading[p].value
             /\ reading[p].at = "put" => reading'[p].held = reading[p].held + 1
  <2>1. reading[p] \in [at : {"off", "fetch", "put"}, value : 0 .. MaxChanges, held : 0 .. MaxHeld]
    BY DEF SettingInvariant, SettingTypes
  <2>2. CASE reading[p].at = "put"
    <3>1. reading[p].held + 1 \in 0 .. MaxHeld
      BY <2>1, <2>2, SettingAssumption DEF TimeGoesBy
    <3>2. reading'[p] = [reading[p] EXCEPT !.held = @ + 1]
      BY <2>2 DEF TimeGoesBy
    <3>. QED  BY <2>1, <2>2, <3>1, <3>2
  <2>3. CASE reading[p].at # "put"
    BY <2>1, <2>3 DEF TimeGoesBy
  <2>. QED  BY <2>2, <2>3
<1>3. /\ \A n \in Sites : shared[n] \in EntryType /\ shared'[n] = Aged(shared[n])
      /\ \A p \in Readers : memory[p] \in EntryType /\ memory'[p] = Aged(memory[p])
  BY DEF TimeGoesBy, SettingInvariant, SettingTypes
<1>4. SettingTypes'
  <2>1. shared' \in [Sites -> EntryType] /\ \A n \in Sites : shared'[n].left <= CacheTTL
    <3>1. ASSUME NEW n \in Sites  PROVE shared'[n] \in EntryType /\ shared'[n].left <= CacheTTL
      <4>1. shared'[n] \in EntryType /\ shared'[n].left <= shared[n].left /\ shared[n].left <= CacheTTL
        BY <1>3, Ageing DEF SettingInvariant, SettingTypes
      <4>. QED  BY <4>1, <1>3, SettingAssumption DEF EntryType
    <3>. QED  BY <3>1 DEF TimeGoesBy
  <2>2. memory' \in [Readers -> EntryType] /\ \A p \in Readers : memory'[p].left <= MemoryTTL
    <3>1. ASSUME NEW p \in Readers  PROVE memory'[p] \in EntryType /\ memory'[p].left <= MemoryTTL
      <4>1. memory'[p] \in EntryType /\ memory'[p].left <= memory[p].left /\ memory[p].left <= MemoryTTL
        BY <1>3, Ageing DEF SettingInvariant, SettingTypes
      <4>. QED  BY <4>1, <1>3, SettingAssumption DEF EntryType
    <3>. QED  BY <3>1 DEF TimeGoesBy
  <2>3. reading' = [p \in Readers |-> reading'[p]]
    BY DEF TimeGoesBy
  <2>4. reading' \in [Readers -> [at : {"off", "fetch", "put"}, value : 0 .. MaxChanges, held : 0 .. MaxHeld]]
    BY <1>2, <2>3
  <2>. QED  BY <1>1, <2>1, <2>2, <2>4 DEF TimeGoesBy, SettingInvariant, SettingTypes
<1>5. Expiring'
  <2>. SUFFICES ASSUME change.by = {}  PROVE StaleReads' /\ StaleShared' /\ StaleMemory'
    BY DEF TimeGoesBy, Expiring
  <2>1. StaleReads /\ StaleShared /\ StaleMemory /\ stored' = stored
    BY DEF SettingInvariant, Expiring, TimeGoesBy
  <2>2. StaleReads'
    BY <1>1, <1>2, <2>1, TimeTypes DEF SettingInvariant, StaleReads
  <2>3. StaleShared'
    <3>. SUFFICES ASSUME NEW n \in Sites, shared'[n].left > 0, shared'[n].value # stored
                  PROVE  since' + shared'[n].left <= MaxHeld + CacheTTL
      BY <2>1 DEF StaleShared
    <3>1. shared'[n].left + 1 = shared[n].left /\ shared'[n].value = shared[n].value
          /\ shared'[n].left \in Nat
      BY <1>3, Ageing DEF EntryType
    <3>2. since + shared[n].left <= MaxHeld + CacheTTL
      BY <2>1, <3>1 DEF StaleShared
    <3>. QED  BY <1>1, <3>1, <3>2, TimeTypes DEF SettingInvariant
  <2>4. StaleMemory'
    <3>. SUFFICES ASSUME NEW p \in Readers, memory'[p].left > 0, memory'[p].value # stored
                  PROVE  since' + memory'[p].left <= MaxHeld + CacheTTL + MemoryTTL
      BY <2>1 DEF StaleMemory
    <3>1. memory'[p].left + 1 = memory[p].left /\ memory'[p].value = memory[p].value
          /\ memory'[p].left \in Nat
      BY <1>3, Ageing DEF EntryType
    <3>2. since + memory[p].left <= MaxHeld + CacheTTL + MemoryTTL
      BY <2>1, <3>1 DEF StaleMemory
    <3>. QED  BY <1>1, <3>1, <3>2, TimeTypes DEF SettingInvariant
  <2>. QED  BY <2>2, <2>3, <2>4
<1>6. ClearedForGood'
  <2>. SUFFICES ASSUME NEW n \in Sites \ (clears \cup missing), shared'[n].left > 0, ~shared'[n].odd
                PROVE  shared'[n].value = stored
    BY DEF TimeGoesBy, ClearedForGood
  <2>1. shared[n].left > 0 /\ shared'[n].value = shared[n].value /\ shared'[n].odd = shared[n].odd
    BY <1>3, Ageing DEF EntryType
  <2>. QED  BY <2>1 DEF SettingInvariant, ClearedForGood
<1>. QED  BY <1>4, <1>5, <1>6 DEF SettingInvariant

LEMMA SettingInvariance == SettingInvariant /\ [SettingNext]_settingVars => SettingInvariant'
<1>. SUFFICES ASSUME SettingInvariant, [SettingNext]_settingVars  PROVE SettingInvariant'
  OBVIOUS
<1>1. CASE UNCHANGED settingVars
  BY <1>1 DEF settingVars, SettingInvariant, SettingTypes, Expiring, StaleReads, StaleShared,
              StaleMemory, ClearedForGood
<1>2. ASSUME NEW p \in Readers,
             LookUp(p) \/ BeginRequest(p) \/ Preload(p) \/ Fetch(p) \/ Put(p)
      PROVE  SettingInvariant'
  BY <1>2, LookUpStep, BeginStep, FetchStep, PutStep
<1>3. ASSUME NEW p \in Readers, Write(p) \/ Commit(p) \/ RollBack(p)
      PROVE  SettingInvariant'
  BY <1>3, WriteStep, EndChangeStep
<1>4. ASSUME NEW n \in Sites, Clear(n) \/ MissClear(n)
      PROVE  SettingInvariant'
  BY <1>4, ClearStep
<1>. QED  BY <1>1, <1>2, <1>3, <1>4, TimeStep DEF SettingNext

LEMMA SettingAlways == SettingSpec => []SettingInvariant
  BY SettingInitially, SettingInvariance, PTL DEF SettingSpec

(* The setting's memories, their remaining times and the transactions have their types. *)
THEOREM SettingTypeCorrect == SettingSpec => []SettingTypeOK
<1>1. SettingInvariant => SettingTypeOK
  BY SettingAssumption DEF SettingInvariant, SettingTypes, SettingTypeOK, EntryType
<1>. QED  BY <1>1, SettingAlways, PTL

(* No value but the committed one outlives the two timeouts, and the redis that
   clear_setting_cache has emptied gets none but an outdated one (conf/settings.py,
   conf/signals.py), for any processes, nodes, timeouts and number of changes. *)
THEOREM SettingsFreshAlways == SettingSpec => []SettingsFresh
<1>1. SettingInvariant => SettingsFresh
  <2>1. SettingInvariant => StaleForAWhile
    BY TimeTypes DEF SettingInvariant, Expiring, StaleShared, StaleMemory, StaleForAWhile
  <2>. QED  BY <2>1 DEF SettingInvariant, SettingsFresh
<1>. QED  BY <1>1, SettingAlways, PTL

-----------------------------------------------------------------------------
(* The managers of the scheduler. *)

(* The workflow manager, which nobody calls periodically, has something to see only
   while a workflow runs, so that each cycle of the task manager calls it. *)
Heard == "workflow" \in news \/ holder["workflow"] = "busy" => flows

LockInvariant == LockTypeOK /\ Heard

LEMMA RequestedType ==
  ASSUME LockTypeOK, NEW M
  PROVE  Requested(M) \in [Managers -> 0 .. MaxRequests]
  BY ManagerAssumption DEF LockTypeOK, Requested

LEMMA LockInvariance == LockInvariant /\ [LockNext]_lockVars => LockInvariant'
<1>. SUFFICES ASSUME LockInvariant, [LockNext]_lockVars  PROVE LockInvariant'
  OBVIOUS
<1>. USE ManagerAssumption DEF LockInvariant, LockTypeOK, Heard
<1>0. "workflow" \in Managers /\ Managers = {"workflow", "dependency", "task"}
  BY DEF Managers
<1>1. CASE UNCHANGED lockVars
  BY <1>1 DEF lockVars
<1>2. ASSUME NEW m \in Managers, SomethingHappens(m)  PROVE LockInvariant'
  BY <1>0, <1>2, RequestedType DEF SomethingHappens
<1>3. ASSUME NEW m \in Managers, PeriodicRequest(m)  PROVE LockInvariant'
  BY <1>3, RequestedType DEF PeriodicRequest
<1>4. ASSUME NEW m \in Managers, Invoke(m)  PROVE LockInvariant'
  <2>1. requests' \in [Managers -> 0 .. MaxRequests]
    BY <1>4 DEF Invoke
  <2>2. AskedByRunning \in SUBSET Managers
    BY <1>0 DEF AskedByRunning
  <2>3. CASE holder[m] = "none"
    <3>1. /\ holder' = [holder EXCEPT ![m] = IF m \in news THEN "busy" ELSE "done"]
          /\ news' = news \ {m}
          /\ asks' = [asks EXCEPT ![m] = IF m = "task" THEN AskedByRunning ELSE {}]
          /\ UNCHANGED <<flows, left, mishaps>>
      BY <1>4, <2>3 DEF Invoke
    <3>2. asks' \in [Managers -> SUBSET Managers]
      BY <2>2, <3>1
    <3>3. LockTypeOK'
      BY <2>1, <3>1, <3>2
    <3>4. Heard'
      BY <1>0, <3>1
    <3>. QED  BY <3>3, <3>4
  <2>4. CASE holder[m] # "none"
    BY <1>4, <2>1, <2>4 DEF Invoke
  <2>. QED  BY <2>3, <2>4
<1>5. ASSUME NEW m \in Managers, Interrupted(m)  PROVE LockInvariant'
  BY <1>0, <1>5, RequestedType DEF Interrupted
<1>6. ASSUME NEW m \in Managers, CommitCycle(m)  PROVE LockInvariant'
  <2>1. PICK c \in Consequences(m) :
          /\ (m \in c.for) => left < MaxLeft
          /\ left' = IF m \in c.for THEN left + 1 ELSE left
          /\ flows' = c.flows
          /\ news' = (news \cup c.for) \ (IF c.flows THEN {} ELSE {"workflow"})
          /\ asks' = [asks EXCEPT ![m] = @ \cup c.for]
    BY <1>6 DEF CommitCycle
  <2>2. holder[m] = "busy" /\ holder' = [holder EXCEPT ![m] = "done"] /\ UNCHANGED <<requests, mishaps>>
    BY <1>6 DEF CommitCycle
  <2>3. c.for \in SUBSET Managers /\ c.flows \in BOOLEAN /\ (flows => c.flows \/ m = "workflow")
    <3>1. CASE m = "dependency"
      BY <1>0, <3>1 DEF Consequences
    <3>2. CASE m = "task"
      <4>1. c = [for |-> {}, flows |-> flows] \/ c = [for |-> {"workflow"}, flows |-> TRUE]
        BY <3>2 DEF Consequences
      <4>2. CASE c = [for |-> {}, flows |-> flows]
        BY <4>2
      <4>3. CASE c = [for |-> {"workflow"}, flows |-> TRUE]
        BY <1>0, <4>3
      <4>. QED  BY <4>1, <4>2, <4>3
    <3>3. CASE m = "workflow"
      <4>1. \/ c = [for |-> {}, flows |-> FALSE]
            \/ \E S \in SUBSET {"dependency", "task", "workflow"} : c = [for |-> S, flows |-> flows]
        BY <3>3 DEF Consequences
      <4>2. CASE c = [for |-> {}, flows |-> FALSE]
        BY <3>3, <4>2
      <4>3. ASSUME NEW S \in SUBSET {"dependency", "task", "workflow"}, c = [for |-> S, flows |-> flows]
            PROVE  c.for \in SUBSET Managers /\ c.flows \in BOOLEAN /\ (flows => c.flows \/ m = "workflow")
        BY <1>0, <4>3
      <4>. QED  BY <4>1, <4>2, <4>3
    <3>. QED  BY <1>0, <3>1, <3>2, <3>3
  <2>4. LockTypeOK'
    BY <2>1, <2>2, <2>3
  <2>5. Heard'
    BY <1>0, <2>1, <2>2, <2>3
  <2>. QED  BY <2>4, <2>5
<1>7. ASSUME NEW m \in Managers, StopsEarly(m)  PROVE LockInvariant'
  BY <1>7 DEF StopsEarly
<1>8. ASSUME NEW m \in Managers, FreeLock(m)  PROVE LockInvariant'
  BY <1>0, <1>8, RequestedType DEF FreeLock
<1>. QED  BY <1>1, <1>2, <1>3, <1>4, <1>5, <1>6, <1>7, <1>8 DEF LockNext

LEMMA LockAlways == LockSpec => []LockInvariant
<1>1. LockInit => LockInvariant
  <2>. SUFFICES ASSUME LockInit  PROVE LockInvariant
    OBVIOUS
  <2>1. LockTypeOK
    <3>1. /\ 0 \in 0 .. MaxRequests /\ 0 \in 0 .. MaxLeft /\ 0 \in 0 .. MaxMishaps
      BY ManagerAssumption
    <3>2. /\ requests \in [Managers -> 0 .. MaxRequests] /\ asks \in [Managers -> SUBSET Managers]
          /\ holder \in [Managers -> {"none", "busy", "done"}]
      BY <3>1, Zenon DEF LockInit, NobodyAsks
    <3>. QED  BY <3>1, <3>2 DEF LockInit, LockTypeOK
  <2>2. Heard
    <3>1. holder["workflow"] = "none" /\ news = {}
      BY DEF LockInit, Managers
    <3>. QED  BY <3>1 DEF Heard
  <2>. QED  BY <2>1, <2>2 DEF LockInvariant
<1>. QED  BY <1>1, LockInvariance, PTL DEF LockSpec

(* The requests, the locks and what a cycle asks for have their types, and no manager
   has more messages in flight than it can have. *)
THEOREM LockTypeCorrect == LockSpec => []LockTypeOK
<1>1. LockInvariant => LockTypeOK
  BY DEF LockInvariant
<1>. QED  BY <1>1, LockAlways, PTL

(* What the workflow manager has not seen is there only while a workflow runs, which is
   when the task manager calls it, although messages are lost, locks are taken and
   cycles stop early or die (task_manager.py 533-538). *)
THEOREM WorkflowHeard == LockSpec => []Heard
<1>1. LockInvariant => Heard
  BY DEF LockInvariant
<1>. QED  BY <1>1, LockAlways, PTL
=============================================================================
