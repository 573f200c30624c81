--------------------------- MODULE Limits_proofs ---------------------------
(***************************************************************************)
(* Safety of the parts that hold back work: the limits of a tenant         *)
(* (TenantQuota), and the capacity of instances and the limits of instance *)
(* groups (Capacity), for any number of launches and tasks, any instances, *)
(* groups and limits.                                                      *)
(***************************************************************************)
EXTENDS TenantQuota, Capacity, FiniteSetTheorems, WellFoundedInduction,
        NaturalsInduction, TLAPS

(* Tenants. *)

UsageType == [jobs : Nat, launches : Nat, window : 1 .. MaxDay]
RecalcType == [at : {"off", "read", "counted"},
               copy : [jobs : Nat, launches : Nat, window : 0 .. MaxDay], jobs : Nat,
               known : SUBSET TenantJobs, there : SUBSET TenantJobs]

QuotaTypes ==
  /\ stage \in [TenantJobs -> {"none", "admitted", "pending", "over"}]
  /\ usage \in UsageType /\ today \in 1 .. MaxDay /\ recalc \in RecalcType
  /\ recalc.at # "off" => recalc.copy \in UsageType
  /\ admitted \in [TenantJobs -> 0 .. today] /\ lost \subseteq Admitted
  /\ \A j \in Admitted : stage[j] # "none"
  /\ \A j \in TemplateJobs : stage[j] # "admitted"
  /\ recalc.known \subseteq Admitted /\ recalc.there \subseteq Admitted

(* Jobs whose number the row holds, and those whose number it will hold. *)
Tracked == {j \in Admitted \ missed : Live(j)}
StillThere == {j \in recalc.there : Live(j)}

QuotaJobs ==
  /\ Cardinality(Tracked) <= usage.jobs
  /\ recalc.at = "counted" => Cardinality(StillThere) <= recalc.jobs

(* A row whose window is another day counts for nothing. *)
LaunchesOf(u) == IF u.window = today THEN u.launches ELSE 0

QuotaLaunches ==
  /\ Cardinality(Of(today) \ lost) <= LaunchesOf(usage)
  /\ recalc.at # "off" => Cardinality((Of(today) \cap recalc.known) \ lost) <= LaunchesOf(recalc.copy)

QuotaIInv == QuotaTypes /\ QuotaJobs /\ QuotaLaunches /\ LimitsKept

-----------------------------------------------------------------------------
LEMMA FiniteJobs ==
  ASSUME NEW S \in SUBSET TenantJobs
  PROVE  /\ IsFiniteSet(S) /\ Cardinality(S) \in Nat
         /\ \A R \in SUBSET S : Cardinality(R) <= Cardinality(S)
         /\ \A j : IsFiniteSet(S \cup {j}) /\ Cardinality(S \cup {j}) <= Cardinality(S) + 1
<1>1. IsFiniteSet(TenantJobs)
  BY QuotaAssumption, FS_Union DEF TenantJobs
<1>2. IsFiniteSet(S)
  BY <1>1, FS_Subset
<1>3. Cardinality(S) \in Nat
  BY <1>2, FS_CardinalityType
<1>4. \A R \in SUBSET S : Cardinality(R) <= Cardinality(S)
  BY <1>2, FS_Subset
<1>5. \A j : IsFiniteSet(S \cup {j}) /\ Cardinality(S \cup {j}) <= Cardinality(S) + 1
  <2>. SUFFICES ASSUME NEW j
                PROVE  IsFiniteSet(S \cup {j}) /\ Cardinality(S \cup {j}) <= Cardinality(S) + 1
    OBVIOUS
  <2>1. /\ IsFiniteSet(S \cup {j})
        /\ Cardinality(S \cup {j}) = IF j \in S THEN Cardinality(S) ELSE Cardinality(S) + 1
    BY <1>2, FS_AddElement
  <2>. QED  BY <1>3, <2>1
<1>. QED  BY <1>2, <1>3, <1>4, <1>5

LEMMA SetsOfJobs ==
  /\ Tracked \in SUBSET TenantJobs /\ Admitted \in SUBSET TenantJobs
  /\ \A day : Of(day) \in SUBSET TenantJobs
  BY DEF Tracked, Admitted, Of

LEMMA RolledType ==
  ASSUME QuotaTypes
  PROVE  /\ Rolled \in UsageType /\ Rolled.jobs = usage.jobs
         /\ Rolled.window = today /\ Rolled.launches = LaunchesOf(usage)
  BY DEF QuotaTypes, Rolled, UsageType, LaunchesOf

LEMMA UsageChanged ==
  ASSUME NEW u \in UsageType, NEW c \in Nat, NEW d \in Nat
  PROVE  [u EXCEPT !.jobs = c, !.launches = d] \in UsageType
  BY DEF UsageType

LEMMA QuotaIncremented ==
  ASSUME NEW u \in UsageType
  PROVE  /\ [u EXCEPT !.jobs = @ + 1, !.launches = @ + 1] \in UsageType
         /\ [u EXCEPT !.jobs = @ + 1, !.launches = @ + 1].jobs = u.jobs + 1
         /\ [u EXCEPT !.jobs = @ + 1, !.launches = @ + 1].launches = u.launches + 1
         /\ [u EXCEPT !.jobs = @ + 1, !.launches = @ + 1].window = u.window
<1>1. u.jobs + 1 \in Nat /\ u.launches + 1 \in Nat
  BY DEF UsageType
<1>2. [u EXCEPT !.jobs = u.jobs + 1, !.launches = u.launches + 1] \in UsageType
  BY <1>1, UsageChanged
<1>3. /\ [u EXCEPT !.jobs = @ + 1, !.launches = @ + 1].jobs = u.jobs + 1
      /\ [u EXCEPT !.jobs = @ + 1, !.launches = @ + 1].launches = u.launches + 1
      /\ [u EXCEPT !.jobs = @ + 1, !.launches = @ + 1].window = u.window
  BY DEF UsageType
<1>. QED  BY <1>2, <1>3

LEMMA QuotaInitially == QuotaInit => QuotaIInv
<1>. SUFFICES ASSUME QuotaInit  PROVE QuotaIInv
  OBVIOUS
<1>0. 1 \in 1 .. MaxDay /\ 0 \in 0 .. MaxDay /\ Admitted = {}
  BY QuotaAssumption DEF QuotaInit, Admitted
<1>1. QuotaTypes
  <2>1. recalc \in RecalcType /\ recalc.at = "off" /\ recalc.known = {} /\ recalc.there = {}
    BY <1>0 DEF QuotaInit, NoRecalc, RecalcType
  <2>2. usage \in UsageType /\ admitted \in [TenantJobs -> 0 .. today] /\ today \in 1 .. MaxDay
    BY <1>0 DEF QuotaInit, UsageType
  <2>3. stage \in [TenantJobs -> {"none", "admitted", "pending", "over"}]
        /\ \A j \in TemplateJobs : stage[j] # "admitted"
    BY DEF QuotaInit, TenantJobs
  <2>. QED  BY <1>0, <2>1, <2>2, <2>3 DEF QuotaInit, QuotaTypes
<1>2. Tracked = {} /\ Of(today) = {}
  BY DEF QuotaInit, Tracked, Admitted, Of
<1>3. Cardinality({}) = 0
  BY FS_EmptySet
<1>4. recalc.at = "off" /\ usage.jobs = 0 /\ LaunchesOf(usage) = 0
  BY DEF QuotaInit, NoRecalc, LaunchesOf
<1>5. Of(today) \ lost = {}
  BY <1>2
<1>6. QuotaJobs /\ QuotaLaunches
  BY <1>2, <1>3, <1>4, <1>5 DEF QuotaJobs, QuotaLaunches
<1>7. LimitsKept
  BY <1>2, <1>3, <1>5, QuotaAssumption DEF LimitsKept, ConcurrentKept, DailyKept, Tracked
<1>. QED  BY <1>1, <1>6, <1>7 DEF QuotaIInv

-----------------------------------------------------------------------------
(* The gate. It checks the row that it increments.                          *)

LEMMA DenyStep ==
  ASSUME QuotaIInv, NEW j \in TenantJobs, stage[j] = "none", stage' = [stage EXCEPT ![j] = "over"],
         usage' = Rolled, UNCHANGED <<admitted, today, recalc, missed, lost>>
  PROVE  QuotaIInv'
<1>1. j \notin Admitted
  BY DEF QuotaIInv, QuotaTypes
<1>2. QuotaTypes'
  BY RolledType DEF QuotaIInv, QuotaTypes, Admitted
<1>3. /\ Admitted' = Admitted /\ Of(today)' = Of(today) /\ LaunchesOf(usage)' = LaunchesOf(usage)
      /\ usage'.jobs = usage.jobs /\ LaunchesOf(recalc.copy)' = LaunchesOf(recalc.copy)
  BY RolledType DEF QuotaIInv, Admitted, Of, LaunchesOf
<1>4. \A i \in Admitted : Live(i)' <=> Live(i)
  BY <1>1 DEF QuotaIInv, QuotaTypes, Live
<1>5. Tracked' = Tracked /\ StillThere' = StillThere
  BY <1>3, <1>4 DEF QuotaIInv, QuotaTypes, Tracked, StillThere
<1>6. QuotaJobs' /\ QuotaLaunches'
  BY <1>3, <1>5 DEF QuotaIInv, QuotaJobs, QuotaLaunches
<1>7. LimitsKept'
  BY <1>3, <1>5 DEF QuotaIInv, LimitsKept, ConcurrentKept, DailyKept, Tracked
<1>. QED  BY <1>2, <1>6, <1>7 DEF QuotaIInv

LEMMA AdmitStep ==
  ASSUME QuotaIInv, NEW j \in TenantJobs, stage[j] = "none",
         NEW outcome \in {"admitted", "pending", "over"}, j \in TemplateJobs => outcome # "admitted",
         stage' = [stage EXCEPT ![j] = outcome],
         Below(Rolled.jobs, MaxConcurrent), Below(Rolled.launches, MaxDaily),
         usage' = [Rolled EXCEPT !.jobs = @ + 1, !.launches = @ + 1],
         admitted' = [admitted EXCEPT ![j] = today], UNCHANGED <<today, recalc, missed, lost>>
  PROVE  QuotaIInv'
<1>1. j \notin Admitted /\ today \in Nat \ {0} /\ j \notin recalc.known /\ j \notin recalc.there
  BY QuotaAssumption DEF QuotaIInv, QuotaTypes
<1>2. Admitted' = Admitted \cup {j} /\ Of(today)' = Of(today) \cup {j}
  BY <1>1 DEF QuotaIInv, QuotaTypes, Admitted, Of
<1>3. /\ usage' \in UsageType /\ usage'.jobs = usage.jobs + 1 /\ usage.jobs \in Nat
      /\ LaunchesOf(usage)' = LaunchesOf(usage) + 1 /\ LaunchesOf(usage) \in Nat
      /\ LaunchesOf(recalc.copy)' = LaunchesOf(recalc.copy)
  <2>1. usage \in UsageType /\ usage.jobs \in Nat /\ LaunchesOf(usage) \in Nat
    BY DEF QuotaIInv, QuotaTypes, UsageType, LaunchesOf
  <2>2. Rolled \in UsageType /\ Rolled.jobs = usage.jobs /\ Rolled.window = today
        /\ Rolled.launches = LaunchesOf(usage)
    BY RolledType DEF QuotaIInv
  <2>3. usage' \in UsageType /\ usage'.jobs = usage.jobs + 1
        /\ usage'.launches = LaunchesOf(usage) + 1 /\ usage'.window = today
    BY <2>2, QuotaIncremented
  <2>4. LaunchesOf(recalc.copy)' = LaunchesOf(recalc.copy)
    BY DEF LaunchesOf
  <2>5. LaunchesOf(usage)' = LaunchesOf(usage) + 1
    BY <2>3 DEF LaunchesOf
  <2>. QED  BY <2>1, <2>3, <2>4, <2>5
<1>4. QuotaTypes'
  <2>1. admitted' \in [TenantJobs -> 0 .. today]
    BY <1>1 DEF QuotaIInv, QuotaTypes
  <2>2. \A i \in Admitted' : stage'[i] # "none"
    BY <1>2 DEF QuotaIInv, QuotaTypes, Admitted
  <2>3. \A i \in TemplateJobs : stage'[i] # "admitted"
    BY DEF QuotaIInv, QuotaTypes, TenantJobs
  <2>. QED  BY <1>2, <1>3, <2>1, <2>2, <2>3 DEF QuotaIInv, QuotaTypes
<1>5. \A i \in Admitted : Live(i)' <=> Live(i)
  BY <1>1 DEF QuotaIInv, QuotaTypes, Live
<1>6. Tracked' \in SUBSET (Tracked \cup {j}) /\ StillThere' = StillThere
  BY <1>1, <1>2, <1>5 DEF QuotaIInv, QuotaTypes, Tracked, StillThere
<1>7. /\ Cardinality(Tracked') <= Cardinality(Tracked) + 1
      /\ Cardinality(Tracked') \in Nat /\ Cardinality(Tracked) \in Nat
  <2>1. Tracked \cup {j} \in SUBSET TenantJobs /\ Tracked' \in SUBSET TenantJobs
    BY <1>6, SetsOfJobs
  <2>2. Cardinality(Tracked') <= Cardinality(Tracked \cup {j})
    BY <1>6, <2>1, FiniteJobs
  <2>3. Cardinality(Tracked \cup {j}) <= Cardinality(Tracked) + 1
    BY SetsOfJobs, FiniteJobs
  <2>4. /\ Cardinality(Tracked') \in Nat /\ Cardinality(Tracked) \in Nat
        /\ Cardinality(Tracked \cup {j}) \in Nat
    BY <2>1, SetsOfJobs, FiniteJobs
  <2>. QED  BY <2>2, <2>3, <2>4
<1>8. QuotaJobs'
  BY <1>3, <1>6, <1>7 DEF QuotaIInv, QuotaJobs
<1>. DEFINE D == Of(today) \ lost
            D2 == Of(today)' \ lost
<1>9. /\ Cardinality(D2) <= Cardinality(D) + 1 /\ Cardinality(D2) \in Nat /\ Cardinality(D) \in Nat
      /\ (Of(today)' \cap recalc.known) = (Of(today) \cap recalc.known)
  <2>1. D2 \in SUBSET (D \cup {j}) /\ D \in SUBSET TenantJobs /\ D \cup {j} \in SUBSET TenantJobs
        /\ D2 \in SUBSET TenantJobs
    BY <1>2, SetsOfJobs
  <2>. HIDE DEF D, D2
  <2>2. Cardinality(D2) <= Cardinality(D \cup {j})
    BY <2>1, FiniteJobs
  <2>3. Cardinality(D \cup {j}) <= Cardinality(D) + 1
    BY <2>1, FiniteJobs
  <2>4. Cardinality(D2) \in Nat /\ Cardinality(D) \in Nat /\ Cardinality(D \cup {j}) \in Nat
    BY <2>1, FiniteJobs
  <2>. QED  BY <1>1, <1>2, <2>2, <2>3, <2>4
<1>10. QuotaLaunches'
  BY <1>3, <1>9 DEF QuotaIInv, QuotaLaunches
<1>11. LimitsKept'
  <2>1. /\ MaxConcurrent > 0 => usage.jobs < MaxConcurrent
        /\ MaxDaily > 0 => LaunchesOf(usage) < MaxDaily
    BY RolledType, QuotaAssumption DEF Below, QuotaIInv
  <2>2. ConcurrentKept'
    <3>1. MaxConcurrent > 0 => Cardinality(Tracked') <= MaxConcurrent
      BY <1>3, <1>7, <2>1, QuotaAssumption DEF QuotaIInv, QuotaJobs
    <3>. QED  BY <3>1 DEF ConcurrentKept, Tracked
  <2>3. DailyKept'
    <3>1. MaxDaily > 0 => Cardinality(D2) <= MaxDaily
      BY <1>3, <1>9, <2>1, QuotaAssumption DEF QuotaIInv, QuotaLaunches
    <3>. QED  BY <3>1 DEF DailyKept
  <2>. QED  BY <2>2, <2>3 DEF LimitsKept
<1>. QED  BY <1>4, <1>8, <1>10, <1>11 DEF QuotaIInv

LEMMA GateStep ==
  ASSUME QuotaIInv, NEW j \in TenantJobs, LaunchTemplate(j) \/ AdmitAdHoc(j)
  PROVE  QuotaIInv'
<1>1. PICK outcome \in {"admitted", "pending", "over"} :
        Gate(j, outcome) /\ (j \in TemplateJobs => outcome # "admitted")
  BY QuotaAssumption DEF LaunchTemplate, AdmitAdHoc
<1>2. CASE Below(Rolled.jobs, MaxConcurrent) /\ Below(Rolled.launches, MaxDaily)
  BY <1>1, <1>2, AdmitStep DEF Gate
<1>3. CASE ~(Below(Rolled.jobs, MaxConcurrent) /\ Below(Rolled.launches, MaxDaily))
  BY <1>1, <1>3, DenyStep DEF Gate
<1>. QED  BY <1>2, <1>3

-----------------------------------------------------------------------------
(* QuotaJobs go on and end, and days pass.                                       *)

LEMMA JobStep ==
  ASSUME QuotaIInv, NEW j \in TenantJobs, StartAdHoc(j) \/ EndJob(j)
  PROVE  QuotaIInv'
<1>1. PICK t \in {"pending", "over"} : stage' = [stage EXCEPT ![j] = t]
  BY DEF StartAdHoc, EndJob
<1>2. UNCHANGED <<usage, today, recalc, admitted, missed, lost>> /\ Live(j)
  BY DEF StartAdHoc, EndJob, Live
<1>3. QuotaTypes'
  BY <1>1, <1>2 DEF QuotaIInv, QuotaTypes, Admitted
<1>4. \A i \in TenantJobs : Live(i)' => Live(i)
  BY <1>1, <1>2 DEF QuotaIInv, QuotaTypes, Live
<1>5. /\ Tracked' \in SUBSET Tracked /\ StillThere' \in SUBSET StillThere
      /\ Tracked \in SUBSET TenantJobs /\ StillThere \in SUBSET TenantJobs
  BY <1>2, <1>4, SetsOfJobs DEF QuotaIInv, QuotaTypes, Tracked, StillThere, Admitted
<1>6. /\ Cardinality(Tracked') <= Cardinality(Tracked) /\ Cardinality(StillThere') <= Cardinality(StillThere)
      /\ Cardinality(Tracked') \in Nat /\ Cardinality(StillThere') \in Nat
      /\ Cardinality(Tracked) \in Nat /\ Cardinality(StillThere) \in Nat
  <2>1. Tracked' \in SUBSET TenantJobs /\ StillThere' \in SUBSET TenantJobs
    BY <1>5
  <2>. QED  BY <1>5, <2>1, FiniteJobs
<1>7. QuotaJobs'
  BY <1>2, <1>6 DEF QuotaIInv, QuotaTypes, UsageType, RecalcType, QuotaJobs
<1>8. QuotaLaunches'
  BY <1>2 DEF QuotaIInv, QuotaLaunches, Of, LaunchesOf
<1>9. LimitsKept'
  BY <1>2, <1>6, QuotaAssumption DEF QuotaIInv, LimitsKept, ConcurrentKept, DailyKept, Tracked, Of
<1>. QED  BY <1>3, <1>7, <1>8, <1>9 DEF QuotaIInv

LEMMA DayStep ==
  ASSUME QuotaIInv, NextDay
  PROVE  QuotaIInv'
<1>1. today \in Nat /\ today' = today + 1 /\ today' \in 1 .. MaxDay /\ 0 .. today \subseteq 0 .. today'
      /\ UNCHANGED <<stage, usage, recalc, admitted, missed, lost>>
  BY QuotaAssumption DEF NextDay, QuotaIInv, QuotaTypes
<1>2. QuotaTypes'
  BY <1>1 DEF QuotaIInv, QuotaTypes, Admitted
<1>3. Of(today)' = {}
  BY <1>1 DEF QuotaIInv, QuotaTypes, Of
<1>4. Cardinality({}) = 0 /\ LaunchesOf(usage)' \in Nat /\ (recalc.at # "off" => LaunchesOf(recalc.copy)' \in Nat)
  BY <1>1, FS_EmptySet DEF QuotaIInv, QuotaTypes, UsageType, LaunchesOf
<1>5. Of(today)' \ lost = {} /\ (Of(today)' \cap recalc.known) \ lost = {}
  BY <1>3
<1>6. QuotaLaunches'
  BY <1>1, <1>4, <1>5 DEF QuotaLaunches
<1>7. Tracked' = Tracked /\ StillThere' = StillThere
  BY <1>1 DEF Tracked, StillThere, Admitted, Live
<1>8. QuotaJobs'
  BY <1>1, <1>7 DEF QuotaIInv, QuotaJobs
<1>9. LimitsKept'
  <2>1. ConcurrentKept'
    BY <1>1, <1>7 DEF QuotaIInv, LimitsKept, ConcurrentKept, Tracked
  <2>2. Cardinality(Of(today)' \ lost') = 0
    BY <1>1, <1>4, <1>5
  <2>3. DailyKept'
    BY <2>2, QuotaAssumption DEF DailyKept
  <2>. QED  BY <2>1, <2>3 DEF LimitsKept
<1>. QED  BY <1>2, <1>6, <1>8, <1>9 DEF QuotaIInv

-----------------------------------------------------------------------------
(* The recalculation. It is wrong only about what it misses and writes over. *)

LEMMA ReadStep ==
  ASSUME QuotaIInv, ReadUsage
  PROVE  QuotaIInv'
<1>1. /\ recalc' \in RecalcType /\ recalc'.at = "read" /\ recalc'.copy = usage
      /\ recalc'.known = Admitted /\ recalc'.there = {}
  <2>1. usage \in [jobs : Nat, launches : Nat, window : 0 .. MaxDay]
    BY QuotaAssumption DEF QuotaIInv, QuotaTypes, UsageType
  <2>2. recalc' = [at |-> "read", copy |-> usage, jobs |-> 0, known |-> Admitted, there |-> {}]
    BY DEF ReadUsage, NoRecalc
  <2>. QED  BY <2>1, <2>2, SetsOfJobs DEF RecalcType
<1>2. UNCHANGED <<stage, usage, today, admitted, missed, lost>>
  BY DEF ReadUsage
<1>3. QuotaTypes'
  BY <1>1, <1>2 DEF QuotaIInv, QuotaTypes, Admitted
<1>4. Tracked' = Tracked /\ Of(today)' = Of(today) /\ Of(today) \cap Admitted = Of(today)
  BY <1>2, QuotaAssumption DEF Tracked, Admitted, Live, Of, QuotaIInv, QuotaTypes
<1>5. QuotaJobs'
  BY <1>1, <1>2, <1>4 DEF QuotaIInv, QuotaJobs
<1>6. QuotaLaunches'
  BY <1>1, <1>2, <1>4 DEF QuotaIInv, QuotaLaunches, LaunchesOf
<1>7. LimitsKept'
  BY <1>2, <1>4 DEF QuotaIInv, LimitsKept, ConcurrentKept, DailyKept, Tracked
<1>. QED  BY <1>3, <1>5, <1>6, <1>7 DEF QuotaIInv

LEMMA CountStep ==
  ASSUME QuotaIInv, CountJobs
  PROVE  QuotaIInv'
<1>1. PICK spawned \in 0 .. MaxSpawned :
        recalc' = [recalc EXCEPT !.at = "counted", !.there = Admitted \cap OfTenant,
                                 !.jobs = Counted(spawned)]
  BY DEF CountJobs
<1>. DEFINE P == {j \in OfTenant : stage[j] = "pending"}
<1>2. P \in SUBSET TenantJobs /\ Cardinality(P) \in Nat
  BY FiniteJobs DEF OfTenant, TenantJobs
<1>3. Counted(spawned) \in Nat /\ Cardinality(P) <= Counted(spawned)
  BY <1>2, QuotaAssumption DEF Counted
<1>4. /\ recalc' \in RecalcType /\ recalc'.at = "counted" /\ recalc'.copy = recalc.copy
      /\ recalc'.known = recalc.known /\ recalc'.there = Admitted \cap OfTenant
      /\ recalc'.jobs = Counted(spawned) /\ recalc.at = "read"
  <2>1. Admitted \cap OfTenant \in SUBSET TenantJobs
    BY SetsOfJobs
  <2>. QED  BY <1>1, <1>3, <2>1 DEF CountJobs, RecalcType, QuotaIInv, QuotaTypes
<1>5. UNCHANGED <<stage, usage, today, admitted, missed, lost>>
  BY DEF CountJobs
<1>6. QuotaTypes'
  BY <1>4, <1>5 DEF QuotaIInv, QuotaTypes, Admitted
<1>7. Tracked' = Tracked /\ Of(today)' = Of(today) /\ Live(1)' = Live(1)
  BY <1>5 DEF Tracked, Admitted, Live, Of
<1>8. StillThere' \in SUBSET P
  BY <1>4, <1>5 DEF StillThere, Live, Admitted, QuotaIInv, QuotaTypes, TenantJobs, OfTenant
<1>9. Cardinality(StillThere') <= recalc'.jobs
  <2>. HIDE DEF P
  <2>1. Cardinality(StillThere') <= Cardinality(P)
    BY <1>2, <1>8, FiniteJobs
  <2>2. Cardinality(StillThere') \in Nat
    BY <1>2, <1>8, FiniteJobs
  <2>. QED  BY <1>2, <1>3, <1>4, <2>1, <2>2
<1>10. QuotaJobs'
  BY <1>5, <1>7, <1>9 DEF QuotaIInv, QuotaJobs
<1>11. QuotaLaunches'
  BY <1>4, <1>5, <1>7 DEF QuotaIInv, QuotaLaunches, LaunchesOf
<1>12. LimitsKept'
  BY <1>5, <1>7 DEF QuotaIInv, LimitsKept, ConcurrentKept, DailyKept, Tracked
<1>. QED  BY <1>6, <1>10, <1>11, <1>12 DEF QuotaIInv

LEMMA SaveStep ==
  ASSUME QuotaIInv, SaveUsage
  PROVE  QuotaIInv'
<1>1. /\ recalc.at = "counted" /\ recalc' = NoRecalc /\ UNCHANGED <<stage, today, admitted>>
      /\ usage' = [recalc.copy EXCEPT !.jobs = recalc.jobs]
      /\ missed' = {j \in missed \cup (Admitted \ recalc.there) : Live(j)}
      /\ lost' = (lost \cup (Admitted \ recalc.known)) \cap Of(today)
  BY DEF SaveUsage
<1>2. /\ usage' \in UsageType /\ usage'.jobs = recalc.jobs /\ usage'.window = recalc.copy.window
      /\ usage'.launches = recalc.copy.launches /\ recalc.jobs \in Nat
  BY <1>1 DEF QuotaIInv, QuotaTypes, UsageType, RecalcType
<1>3. recalc' \in RecalcType /\ recalc'.at = "off" /\ recalc'.known = {} /\ recalc'.there = {}
  BY <1>1, QuotaAssumption DEF NoRecalc, RecalcType
<1>4. today # 0 /\ Of(today) \subseteq Admitted
  BY QuotaAssumption DEF QuotaIInv, QuotaTypes, Of, Admitted
<1>5. QuotaTypes'
  BY <1>1, <1>2, <1>3, <1>4 DEF QuotaIInv, QuotaTypes, Admitted
<1>6. /\ Tracked' \in SUBSET StillThere /\ Tracked' \in SUBSET Tracked
      /\ Tracked \in SUBSET TenantJobs /\ StillThere \in SUBSET TenantJobs
  BY <1>1, SetsOfJobs DEF Tracked, StillThere, Admitted, Live, QuotaIInv, QuotaTypes
<1>7. /\ Cardinality(Tracked') <= Cardinality(StillThere) /\ Cardinality(Tracked') <= Cardinality(Tracked)
      /\ Cardinality(Tracked') \in Nat /\ Cardinality(StillThere) \in Nat /\ Cardinality(Tracked) \in Nat
  <2>1. Tracked' \in SUBSET TenantJobs
    BY <1>6
  <2>. QED  BY <1>6, <2>1, FiniteJobs
<1>8. QuotaJobs'
  BY <1>1, <1>2, <1>3, <1>7 DEF QuotaIInv, QuotaJobs
<1>9. /\ Of(today)' \ lost' = (Of(today) \cap recalc.known) \ lost
      /\ (Of(today) \cap recalc.known) \ lost \in SUBSET (Of(today) \ lost)
      /\ Of(today) \ lost \in SUBSET TenantJobs
  BY <1>1, <1>4, SetsOfJobs DEF Of
<1>10. QuotaLaunches'
  BY <1>1, <1>2, <1>3, <1>9 DEF QuotaIInv, QuotaLaunches, LaunchesOf
<1>11. LimitsKept'
  <2>1. ConcurrentKept'
    BY <1>7, QuotaAssumption DEF QuotaIInv, LimitsKept, ConcurrentKept, Tracked
  <2>2. DailyKept'
    <3>. DEFINE R == (Of(today) \cap recalc.known) \ lost
                D == Of(today) \ lost
    <3>1. /\ Cardinality(R) <= Cardinality(D) /\ Cardinality(R) \in Nat /\ Cardinality(D) \in Nat
      <4>1. R \in SUBSET D /\ D \in SUBSET TenantJobs /\ R \in SUBSET TenantJobs
        BY <1>9
      <4>. HIDE DEF R, D
      <4>. QED  BY <4>1, FiniteJobs
    <3>. QED  BY <1>9, <3>1, QuotaAssumption DEF QuotaIInv, LimitsKept, DailyKept
  <2>. QED  BY <2>1, <2>2 DEF LimitsKept
<1>. QED  BY <1>5, <1>8, <1>10, <1>11 DEF QuotaIInv

-----------------------------------------------------------------------------
LEMMA QuotaInvariance == QuotaIInv /\ [QuotaNext]_quotaVars => QuotaIInv'
<1>. SUFFICES ASSUME QuotaIInv, [QuotaNext]_quotaVars  PROVE QuotaIInv'
  OBVIOUS
<1>1. CASE UNCHANGED quotaVars
  BY <1>1 DEF quotaVars, QuotaIInv, QuotaTypes, QuotaJobs, QuotaLaunches, LimitsKept, ConcurrentKept, DailyKept,
              Tracked, StillThere, Admitted, Of, Live, LaunchesOf
<1>2. ASSUME NEW j \in TenantJobs, LaunchTemplate(j) \/ AdmitAdHoc(j) \/ StartAdHoc(j) \/ EndJob(j)
      PROVE  QuotaIInv'
  BY <1>2, GateStep, JobStep
<1>3. CASE NextDay \/ ReadUsage \/ CountJobs \/ SaveUsage
  BY <1>3, DayStep, ReadStep, CountStep, SaveStep
<1>. QED  BY <1>1, <1>2, <1>3 DEF QuotaNext

LEMMA QuotaInvariant == QuotaSpec => []QuotaIInv
  BY QuotaInitially, QuotaInvariance, PTL DEF QuotaSpec

(* Every variable of the quota keeps its type. *)
THEOREM QuotaTypeCorrect == QuotaSpec => []QuotaTypeOK
<1>1. QuotaIInv => QuotaTypeOK
  <2>. SUFFICES ASSUME QuotaIInv  PROVE QuotaTypeOK
    OBVIOUS
  <2>1. 0 .. today \subseteq 0 .. MaxDay
    BY QuotaAssumption DEF QuotaIInv, QuotaTypes
  <2>. QED  BY <2>1 DEF QuotaIInv, QuotaTypes, UsageType, RecalcType, QuotaTypeOK
<1>. QED  BY <1>1, QuotaInvariant, PTL

(* Of what passes the gate no more lives at a time, and no more is launched on a day,
   than the limits say, but for what a recalculation overlooks (jobs without an
   organization of their own, and what is launched while it runs) or writes over
   (tenancy/quota.py 34-42 and 70-118, tenancy/usage.py 10-41). *)
THEOREM LimitsKeptAlways == QuotaSpec => []LimitsKept
<1>1. QuotaIInv => LimitsKept
  BY DEF QuotaIInv
<1>. QED  BY <1>1, QuotaInvariant, PTL

-----------------------------------------------------------------------------
(* Numbers and sums. *)

(* The least of a set of numbers. *)
LEMMA LeastNat ==
  ASSUME NEW S \in SUBSET Nat, S # {}
  PROVE  Min(S) \in S /\ \A y \in S : Min(S) <= y
<1>1. PICK m \in S : \A y \in S : ~(<<y, m>> \in OpToRel(<, Nat))
  BY NatLessThanWellFounded, WFMin
<1>2. OpToRel(<, Nat) = {ss \in Nat \X Nat : ss[1] < ss[2]}
  BY Zenon DEF OpToRel
<1>3. ASSUME NEW y \in S  PROVE m <= y
  <2>1. m \in Nat /\ y \in Nat /\ <<y, m>> \in Nat \X Nat
    OBVIOUS
  <2>2. <<y, m>> \notin {ss \in Nat \X Nat : ss[1] < ss[2]}
    BY <1>1, <1>2
  <2>3. ~(y < m)
    BY <2>1, <2>2
  <2>. QED  BY <2>1, <2>3
<1>. QED  BY <1>3 DEF Min

(* Induction, the predicate being a set. *)
LEMMA AllNumbers ==
  ASSUME NEW S, 0 \in S, \A n \in Nat : n \in S => n + 1 \in S
  PROVE  Nat \subseteq S
<1>. SUFFICES ASSUME Nat \ S # {}  PROVE FALSE
  OBVIOUS
<1>. DEFINE m == Min(Nat \ S)
<1>1. m \in Nat \ S /\ \A y \in Nat \ S : m <= y
  BY LeastNat
<1>. HIDE DEF m
<1>2. m # 0 /\ m - 1 \in Nat
  BY <1>1
<1>3. m - 1 \in S
  BY <1>1, <1>2
<1>. QED  BY <1>1, <1>2, <1>3

(* Sums over a finite set: SumFunctionOnSet takes out one chosen element after the
   other; the lemmas say that the order does not matter. *)
SomeOf(s) == CHOOSE x \in s : TRUE
Sums(f, w, S) ==
  f = [s \in SUBSET S |-> IF s = {} THEN 0 ELSE w[SomeOf(s)] + f[s \ {SomeOf(s)}]]

LEMMA SomeOfIn ==
  ASSUME NEW s, s # {}
  PROVE  SomeOf(s) \in s
  BY DEF SomeOf

LEMMA SumDef ==
  ASSUME NEW w, NEW S
  PROVE  SumFunctionOnSet(w, S) = (CHOOSE f : Sums(f, w, S))[S]
  BY DEF SumFunctionOnSet, FoldFunctionOnSet, MapThenFoldSet, Sums, SomeOf

LEMMA Smaller ==
  ASSUME NEW S, IsFiniteSet(S), NEW s \in SUBSET S, NEW x \in s
  PROVE  /\ IsFiniteSet(s) /\ IsFiniteSet(s \ {x}) /\ s \ {x} \in SUBSET S
         /\ Cardinality(s) \in Nat \ {0} /\ Cardinality(s \ {x}) \in Nat
         /\ Cardinality(s) = Cardinality(s \ {x}) + 1
<1>1. IsFiniteSet(s) /\ IsFiniteSet(s \ {x})
  BY FS_Subset, FS_RemoveElement
<1>2. Cardinality(s) \in Nat /\ Cardinality(s \ {x}) \in Nat
  BY <1>1, FS_CardinalityType
<1>3. Cardinality(s \ {x}) = Cardinality(s) - 1
  BY <1>1, FS_RemoveElement
<1>. QED  BY <1>1, <1>2, <1>3

LEMMA SumsExist ==
  ASSUME NEW S, IsFiniteSet(S), NEW w
  PROVE  \E f : Sums(f, w, S)
<1>. DEFINE Next1(f, s) == IF s = {} THEN 0 ELSE w[SomeOf(s)] + f[s \ {SomeOf(s)}]
            Upto(f, n) == /\ f = [s \in SUBSET S |-> f[s]]
                          /\ \A s \in SUBSET S : Cardinality(s) <= n => f[s] = Next1(f, s)
            Reached == {n \in Nat : \E f : Upto(f, n)}
<1>1. \A s \in SUBSET S : IsFiniteSet(s) /\ Cardinality(s) \in Nat /\ Cardinality(s) <= Cardinality(S)
  BY FS_Subset, FS_CardinalityType
<1>2. 0 \in Reached
  <2>. DEFINE f == [s \in SUBSET S |-> 0]
  <2>1. ASSUME NEW s \in SUBSET S, Cardinality(s) <= 0  PROVE s = {}
    BY <1>1, <2>1, FS_EmptySet
  <2>2. Upto(f, 0)
    BY <2>1
  <2>. QED  BY <2>2
<1>3. ASSUME NEW n \in Nat, n \in Reached  PROVE n + 1 \in Reached
  <2>1. PICK f : Upto(f, n)
    BY <1>3
  <2>. DEFINE g == [s \in SUBSET S |-> IF Cardinality(s) <= n THEN f[s] ELSE Next1(f, s)]
  <2>2. ASSUME NEW s \in SUBSET S, Cardinality(s) <= n + 1  PROVE g[s] = Next1(g, s)
    <3>1. CASE s = {}
      BY <2>1, <3>1
    <3>2. CASE s # {}
      <4>. DEFINE c == SomeOf(s)
      <4>1. c \in s /\ s \ {c} \in SUBSET S /\ Cardinality(s \ {c}) <= n
        BY <1>1, <2>2, <3>2, SomeOfIn, Smaller
      <4>2. g[s \ {c}] = f[s \ {c}]
        BY <4>1
      <4>3. g[s] = Next1(f, s)
        BY <2>1
      <4>. QED  BY <4>2, <4>3
    <3>. QED  BY <3>1, <3>2
  <2>3. Upto(g, n + 1)
    BY <2>2
  <2>. HIDE DEF g, Upto
  <2>. QED  BY <2>3
<1>4. Cardinality(S) \in Reached
  <2>. HIDE DEF Reached
  <2>1. Nat \subseteq Reached
    BY <1>2, <1>3, AllNumbers
  <2>. QED  BY <1>1, <2>1
<1>5. PICK f : Upto(f, Cardinality(S))
  BY <1>4
<1>6. \A s \in SUBSET S : f[s] = Next1(f, s)
  BY <1>1, <1>5
<1>. QED  BY <1>5, <1>6 DEF Sums

LEMMA SumsAgree ==
  ASSUME NEW S, IsFiniteSet(S), NEW T \in SUBSET S, NEW w, NEW f, NEW g, Sums(f, w, S), Sums(g, w, T)
  PROVE  \A s \in SUBSET T : f[s] = g[s]
<1>. DEFINE Agreed == {n \in Nat : \A s \in SUBSET T : Cardinality(s) = n => f[s] = g[s]}
<1>1. \A s \in SUBSET T : /\ f[s] = IF s = {} THEN 0 ELSE w[SomeOf(s)] + f[s \ {SomeOf(s)}]
                          /\ g[s] = IF s = {} THEN 0 ELSE w[SomeOf(s)] + g[s \ {SomeOf(s)}]
  BY DEF Sums
<1>2. \A s \in SUBSET T : IsFiniteSet(s) /\ Cardinality(s) \in Nat
  BY FS_Subset, FS_CardinalityType
<1>3. 0 \in Agreed
  <2>1. ASSUME NEW s \in SUBSET T, Cardinality(s) = 0  PROVE s = {}
    BY <1>2, <2>1, FS_EmptySet
  <2>. QED  BY <1>1, <2>1
<1>4. ASSUME NEW n \in Nat, n \in Agreed  PROVE n + 1 \in Agreed
  <2>1. ASSUME NEW s \in SUBSET T, Cardinality(s) = n + 1  PROVE f[s] = g[s]
    <3>1. s # {}
      BY <2>1, FS_EmptySet
    <3>2. SomeOf(s) \in s /\ s \ {SomeOf(s)} \in SUBSET T /\ Cardinality(s \ {SomeOf(s)}) = n
      BY <2>1, <3>1, SomeOfIn, Smaller, FS_Subset
    <3>3. f[s \ {SomeOf(s)}] = g[s \ {SomeOf(s)}]
      BY <1>4, <3>2
    <3>. QED  BY <1>1, <3>1, <3>3
  <2>. QED  BY <2>1
<1>. HIDE DEF Agreed
<1>5. Nat \subseteq Agreed
  BY <1>3, <1>4, AllNumbers
<1>6. ASSUME NEW s \in SUBSET T  PROVE f[s] = g[s]
  <2>1. Cardinality(s) \in Agreed
    BY <1>2, <1>5
  <2>. QED  BY <2>1 DEF Agreed
<1>. QED  BY <1>6

LEMMA SumStep ==
  ASSUME NEW S, IsFiniteSet(S), NEW w
  PROVE  SumFunctionOnSet(w, S) =
           IF S = {} THEN 0 ELSE w[SomeOf(S)] + SumFunctionOnSet(w, S \ {SomeOf(S)})
<1>. DEFINE T == S \ {SomeOf(S)}
            f == CHOOSE h : Sums(h, w, S)
            g == CHOOSE h : Sums(h, w, T)
<1>1. IsFiniteSet(T) /\ T \in SUBSET S /\ S \in SUBSET S /\ T \in SUBSET T
  BY FS_Subset
<1>. HIDE DEF T
<1>2. Sums(f, w, S) /\ Sums(g, w, T)
  BY <1>1, SumsExist
<1>3. SumFunctionOnSet(w, S) = f[S] /\ SumFunctionOnSet(w, T) = g[T]
  BY SumDef
<1>. HIDE DEF f, g
<1>4. f[T] = g[T]
  BY <1>1, <1>2, SumsAgree
<1>5. f[S] = IF S = {} THEN 0 ELSE w[SomeOf(S)] + f[T]
  BY <1>1, <1>2 DEF Sums, T
<1>. QED  BY <1>3, <1>4, <1>5 DEF T

LEMMA SumType ==
  ASSUME NEW D, IsFiniteSet(D), NEW w \in [D -> Nat], NEW S \in SUBSET D
  PROVE  SumFunctionOnSet(w, S) \in Nat
<1>. DEFINE sum(s) == SumFunctionOnSet(w, s)
            Right == {n \in Nat : \A s \in SUBSET D : Cardinality(s) = n => sum(s) \in Nat}
<1>1. \A s \in SUBSET D : IsFiniteSet(s) /\ Cardinality(s) \in Nat
  BY FS_Subset, FS_CardinalityType
<1>2. \A s \in SUBSET D : sum(s) = IF s = {} THEN 0 ELSE w[SomeOf(s)] + sum(s \ {SomeOf(s)})
  BY <1>1, SumStep
<1>. HIDE DEF sum
<1>3. 0 \in Right
  <2>1. ASSUME NEW s \in SUBSET D, Cardinality(s) = 0  PROVE s = {}
    BY <1>1, <2>1, FS_EmptySet
  <2>2. ASSUME NEW s \in SUBSET D, Cardinality(s) = 0  PROVE sum(s) \in Nat
    <3>1. s = {}
      BY <2>1, <2>2
    <3>2. sum(s) = 0
      BY <1>2, <3>1
    <3>. QED  BY <3>2
  <2>. QED  BY <2>2
<1>4. ASSUME NEW n \in Nat, n \in Right  PROVE n + 1 \in Right
  <2>1. ASSUME NEW s \in SUBSET D, Cardinality(s) = n + 1  PROVE sum(s) \in Nat
    <3>. DEFINE c == SomeOf(s)
    <3>1. s # {} /\ c \in s
      BY <2>1, SomeOfIn, FS_EmptySet
    <3>2. sum(s) = w[c] + sum(s \ {c})
      BY <1>2, <3>1
    <3>. HIDE DEF c
    <3>3. Cardinality(s) = Cardinality(s \ {c}) + 1 /\ Cardinality(s \ {c}) \in Nat
      BY <3>1, Smaller
    <3>4. s \ {c} \in SUBSET D /\ Cardinality(s \ {c}) = n /\ w[c] \in Nat
      BY <2>1, <3>1, <3>3
    <3>5. sum(s \ {c}) \in Nat
      BY <1>4, <3>4
    <3>. QED  BY <3>2, <3>4, <3>5
  <2>. QED  BY <2>1
<1>. HIDE DEF Right
<1>5. Nat \subseteq Right
  BY <1>3, <1>4, AllNumbers
<1>6. sum(S) \in Nat
  <2>1. Cardinality(S) \in Right
    BY <1>1, <1>5
  <2>. QED  BY <2>1 DEF Right
<1>. QED  BY <1>6 DEF sum

LEMMA SumFacts ==
  ASSUME NEW D, IsFiniteSet(D), NEW w \in [D -> Nat], NEW S \in SUBSET D
  PROVE  /\ SumFunctionOnSet(w, {}) = 0
         /\ SumFunctionOnSet(w, S) \in Nat
         /\ \A x \in S : SumFunctionOnSet(w, S) = w[x] + SumFunctionOnSet(w, S \ {x})
<1>. DEFINE sum(s) == SumFunctionOnSet(w, s)
            Right == {n \in Nat : \A s \in SUBSET D : Cardinality(s) = n =>
                        \A x \in s : sum(s) = w[x] + sum(s \ {x})}
<1>0. \A s \in SUBSET D : sum(s) \in Nat
  BY SumType
<1>1. \A s \in SUBSET D : IsFiniteSet(s) /\ Cardinality(s) \in Nat
  BY FS_Subset, FS_CardinalityType
<1>2. \A s \in SUBSET D : sum(s) = IF s = {} THEN 0 ELSE w[SomeOf(s)] + sum(s \ {SomeOf(s)})
  BY <1>1, SumStep
<1>. HIDE DEF sum
<1>3. 0 \in Right
  <2>1. ASSUME NEW s \in SUBSET D, Cardinality(s) = 0  PROVE s = {}
    BY <1>1, <2>1, FS_EmptySet
  <2>. QED  BY <1>2, <2>1
<1>4. ASSUME NEW n \in Nat, n \in Right  PROVE n + 1 \in Right
  <2>1. ASSUME NEW s \in SUBSET D, Cardinality(s) = n + 1
        PROVE  \A x \in s : sum(s) = w[x] + sum(s \ {x})
    <3>. DEFINE c == SomeOf(s)
    <3>1. s # {} /\ c \in s
      BY <2>1, SomeOfIn, FS_EmptySet
    <3>. HIDE DEF c
    <3>2. ASSUME NEW x \in s
          PROVE  /\ s \ {x} \in SUBSET D /\ Cardinality(s \ {x}) = n /\ w[x] \in Nat
                 /\ \A y \in s \ {x} : sum(s \ {x}) = w[y] + sum((s \ {x}) \ {y})
      <4>1. s \ {x} \in SUBSET D /\ Cardinality(s \ {x}) = n /\ w[x] \in Nat
        BY <1>1, <2>1, Smaller
      <4>. QED  BY <1>4, <4>1
    <3>3. sum(s) = w[c] + sum(s \ {c})
      BY <1>2, <3>1 DEF c
    <3>4. ASSUME NEW x \in s, x # c  PROVE sum(s) = w[x] + sum(s \ {x})
      <4>1. sum(s \ {c}) = w[x] + sum((s \ {c}) \ {x})
        BY <3>1, <3>2, <3>4
      <4>2. sum(s \ {x}) = w[c] + sum((s \ {x}) \ {c})
        BY <3>1, <3>2, <3>4
      <4>3. (s \ {c}) \ {x} = (s \ {x}) \ {c}
        OBVIOUS
      <4>4. sum((s \ {c}) \ {x}) \in Nat
        BY <1>0
      <4>. QED  BY <3>1, <3>2, <3>3, <4>1, <4>2, <4>3, <4>4
    <3>. QED  BY <3>1, <3>2, <3>3, <3>4
  <2>. QED  BY <2>1
<1>. HIDE DEF Right
<1>5. Nat \subseteq Right
  BY <1>3, <1>4, AllNumbers
<1>6. \A x \in S : sum(S) = w[x] + sum(S \ {x})
  <2>1. Cardinality(S) \in Right
    BY <1>1, <1>5
  <2>. QED  BY <2>1 DEF Right
<1>7. sum({}) = 0
  BY <1>2
<1>. QED  BY <1>0, <1>6, <1>7 DEF sum

LEMMA SumOfBoth ==
  ASSUME NEW D, IsFiniteSet(D), NEW w \in [D -> Nat],
         NEW S \in SUBSET D, NEW T \in SUBSET D, S \cap T = {}
  PROVE  SumFunctionOnSet(w, S \cup T) = SumFunctionOnSet(w, S) + SumFunctionOnSet(w, T)
<1>. DEFINE sum(s) == SumFunctionOnSet(w, s)
            Right == {n \in Nat : \A s \in SUBSET (D \ T) : Cardinality(s) = n =>
                        sum(s \cup T) = sum(s) + sum(T)}
<1>0. sum({}) = 0 /\ \A s \in SUBSET D : sum(s) \in Nat
  BY SumFacts, SumType
<1>1. \A s \in SUBSET D : IsFiniteSet(s) /\ Cardinality(s) \in Nat
  BY FS_Subset, FS_CardinalityType
<1>2. ASSUME NEW s \in SUBSET D, NEW x \in s  PROVE sum(s) = w[x] + sum(s \ {x})
  BY SumFacts
<1>. HIDE DEF sum
<1>3. 0 \in Right
  <2>1. ASSUME NEW s \in SUBSET D, Cardinality(s) = 0  PROVE s = {}
    BY <1>1, <2>1, FS_EmptySet
  <2>2. ASSUME NEW s \in SUBSET (D \ T), Cardinality(s) = 0  PROVE sum(s \cup T) = sum(s) + sum(T)
    <3>1. s = {} /\ s \cup T = T
      BY <2>1, <2>2
    <3>2. sum(s) = 0 /\ sum(T) \in Nat
      BY <1>0, <3>1
    <3>. QED  BY <3>1, <3>2
  <2>. QED  BY <2>2
<1>4. ASSUME NEW n \in Nat, n \in Right  PROVE n + 1 \in Right
  <2>1. ASSUME NEW s \in SUBSET (D \ T), Cardinality(s) = n + 1
        PROVE  sum(s \cup T) = sum(s) + sum(T)
    <3>1. PICK x : x \in s
      BY <2>1, FS_EmptySet
    <3>2. s \ {x} \in SUBSET (D \ T) /\ Cardinality(s \ {x}) = n
      <4>1. s \in SUBSET D /\ x \in s
        BY <3>1
      <4>2. Cardinality(s) = Cardinality(s \ {x}) + 1 /\ Cardinality(s \ {x}) \in Nat
        BY <4>1, Smaller
      <4>. QED  BY <2>1, <4>2
    <3>3. sum((s \ {x}) \cup T) = sum(s \ {x}) + sum(T)
      BY <1>4, <3>2
    <3>4. (s \cup T) \ {x} = (s \ {x}) \cup T /\ x \in s \cup T /\ s \cup T \in SUBSET D
      BY <3>1
    <3>5. sum(s \cup T) = w[x] + sum((s \cup T) \ {x})
      BY <1>2, <3>4
    <3>6. sum(s) = w[x] + sum(s \ {x}) /\ w[x] \in Nat /\ sum(s \ {x}) \in Nat /\ sum(T) \in Nat
      <4>1. s \in SUBSET D /\ x \in s /\ x \in D /\ s \ {x} \in SUBSET D /\ T \in SUBSET D
        BY <3>1
      <4>2. sum(s \ {x}) \in Nat /\ sum(T) \in Nat /\ sum(s) = w[x] + sum(s \ {x})
        BY <1>0, <1>2, <4>1
      <4>. QED  BY <4>1, <4>2
    <3>7. sum((s \cup T) \ {x}) = sum((s \ {x}) \cup T)
      BY <3>4, Zenon
    <3>. QED  BY <3>3, <3>5, <3>6, <3>7
  <2>. QED  BY <2>1
<1>. HIDE DEF Right
<1>5. Nat \subseteq Right
  BY <1>3, <1>4, AllNumbers
<1>6. sum(S \cup T) = sum(S) + sum(T)
  <2>1. Cardinality(S) \in Right /\ S \in SUBSET (D \ T)
    BY <1>1, <1>5
  <2>. QED  BY <2>1 DEF Right
<1>. QED  BY <1>6 DEF sum

LEMMA SumOfPart ==
  ASSUME NEW D, IsFiniteSet(D), NEW w \in [D -> Nat], NEW T \in SUBSET D, NEW S \in SUBSET T
  PROVE  SumFunctionOnSet(w, S) <= SumFunctionOnSet(w, T)
<1>1. T = S \cup (T \ S) /\ S \cap (T \ S) = {} /\ S \in SUBSET D /\ T \ S \in SUBSET D
  OBVIOUS
<1>2. SumFunctionOnSet(w, T) = SumFunctionOnSet(w, S) + SumFunctionOnSet(w, T \ S)
  BY <1>1, SumOfBoth
<1>3. SumFunctionOnSet(w, S) \in Nat /\ SumFunctionOnSet(w, T \ S) \in Nat
  BY <1>1, SumFacts
<1>. QED  BY <1>2, <1>3

-----------------------------------------------------------------------------
(* Where tasks are, and what instances carry. *)

PlaceType == [control : Instances \cup {Nowhere}, node : Instances \cup {Nowhere},
              group : DOMAIN Groups \cup {Nowhere}]

(* At most its capacity, but for a single job that found the instance idle of jobs. *)
Carried(active, at, i) ==
  \/ Load(active, at, i) <= CapacityOf[i]
  \/ \E t \in active : /\ RunsOn(active, at, i) = {t}
                       /\ Load(active \ {t}, at, i) <= CapacityOf[i]
AllCarried(active, at) == \A i \in Instances : Carried(active, at, i)

WellPlaced(S, at) ==
  \A t \in S :
    /\ at[t].group \in DOMAIN Groups
    /\ at[t].group \notin ContainerGroups \cup {ControlPlane} =>
         at[t].node \in Groups[at[t].group] /\ Executes(at[t].node)
SeenBy(S, at, up) == \A t \in S : at[t].node \in Instances => at[t].node \in up
WithinLimits(S, at) ==
  \A g \in DOMAIN Groups \ {ControlPlane} :
    /\ MaxJobs[g] > 0 => Cardinality(OfGroup(S, at, g)) <= MaxJobs[g]
    /\ MaxForks[g] > 0 => SumFunctionOnSet(Impact, OfGroup(S, at, g)) <= MaxForks[g]

(* What a cycle has read only gets less, since it alone starts tasks; the tasks that
   it goes through are still pending. *)
CycleKept ==
  cycle.on =>
    /\ cycle.pending \subseteq WithStatus({"pending"})
    /\ ActiveTasks \subseteq cycle.active /\ cycle.active \subseteq WithStatus({"active", "done"})
    /\ AllCarried(cycle.active, place)
    /\ SeenBy(ActiveTasks \ overlooked, place, cycle.ready)

CapacityInvariant ==
  /\ CapacityTypeOK /\ AllCarried(ActiveTasks, place) /\ WellPlaced(ActiveTasks, place)
  /\ WithinLimits(ActiveTasks \ overlooked, place) /\ CycleKept

-----------------------------------------------------------------------------
LEMMA TaskTypes ==
  /\ NTasks \in Nat /\ IsFiniteSet(Tasks) /\ Tasks \subseteq Nat
  /\ Impact \in [Tasks -> Nat] /\ \A t \in Tasks : Impact[t] \in Nat \ {0}
  /\ ControlImpact \in Nat \ {0} /\ IsFiniteSet(Instances)
  /\ \A i \in Instances : CapacityOf[i] \in Nat /\ NodeType[i] \in {"control", "hybrid", "execution"}
  /\ Nowhere \notin Instances /\ Nowhere \notin DOMAIN Groups
  /\ \A g \in DOMAIN Groups : Groups[g] \subseteq Instances /\ MaxJobs[g] \in Nat /\ MaxForks[g] \in Nat
<1>1. IsFiniteSet(Tasks)
  <2>1. 1 \in Int /\ NTasks \in Int
    BY CapacityAssumption
  <2>2. IsFiniteSet(1 .. NTasks)
    BY <2>1, FS_Interval
  <2>. QED  BY <2>2 DEF Tasks
<1>2. Tasks \subseteq Nat /\ NTasks \in Nat
  BY CapacityAssumption DEF Tasks
<1>3. Impact \in [Tasks -> Nat] /\ \A t \in Tasks : Impact[t] \in Nat \ {0}
  <2>1. Impact \in [Tasks -> Nat \ {0}]
    BY CapacityAssumption
  <2>. QED  BY <2>1
<1>4. \A g \in DOMAIN Groups : Groups[g] \subseteq Instances /\ MaxJobs[g] \in Nat /\ MaxForks[g] \in Nat
  BY CapacityAssumption
<1>5. \A i \in Instances : CapacityOf[i] \in Nat /\ NodeType[i] \in {"control", "hybrid", "execution"}
  BY CapacityAssumption
<1>. QED  BY <1>1, <1>2, <1>3, <1>4, <1>5, CapacityAssumption

LEMMA SetsOfTasks ==
  ASSUME NEW S \in SUBSET Tasks
  PROVE  /\ IsFiniteSet(S) /\ Cardinality(S) \in Nat /\ SumFunctionOnSet(Impact, S) \in Nat
         /\ \A T \in SUBSET S : /\ Cardinality(T) <= Cardinality(S)
                                /\ SumFunctionOnSet(Impact, T) <= SumFunctionOnSet(Impact, S)
<1>1. IsFiniteSet(S) /\ Cardinality(S) \in Nat
  BY TaskTypes, FS_Subset, FS_CardinalityType
<1>2. SumFunctionOnSet(Impact, S) \in Nat
  BY TaskTypes, SumType
<1>3. ASSUME NEW T \in SUBSET S
      PROVE  /\ Cardinality(T) <= Cardinality(S)
             /\ SumFunctionOnSet(Impact, T) <= SumFunctionOnSet(Impact, S)
  BY <1>1, TaskTypes, FS_Subset, SumOfPart
<1>. QED  BY <1>1, <1>2, <1>3

LEMMA TaskTakenOut ==
  ASSUME NEW S \in SUBSET Tasks, NEW t \in S
  PROVE  SumFunctionOnSet(Impact, S) = Impact[t] + SumFunctionOnSet(Impact, S \ {t})
<1>1. IsFiniteSet(Tasks) /\ Impact \in [Tasks -> Nat]
  BY TaskTypes
<1>2. \A x \in S : SumFunctionOnSet(Impact, S) = Impact[x] + SumFunctionOnSet(Impact, S \ {x})
  BY <1>1, SumFacts
<1>. QED  BY <1>2

LEMMA TaskAdded ==
  ASSUME NEW S \in SUBSET Tasks, NEW t \in Tasks \ S
  PROVE  /\ Cardinality(S \cup {t}) = Cardinality(S) + 1
         /\ SumFunctionOnSet(Impact, S \cup {t}) = SumFunctionOnSet(Impact, S) + Impact[t]
<1>1. Cardinality(S \cup {t}) = Cardinality(S) + 1
  <2>1. IsFiniteSet(S) /\ t \notin S
    BY SetsOfTasks
  <2>. QED  BY <2>1, FS_AddElement
<1>. DEFINE T == S \cup {t}
<1>2. T \in SUBSET Tasks /\ t \in T /\ T \ {t} = S
  OBVIOUS
<1>. HIDE DEF T
<1>3. SumFunctionOnSet(Impact, T) = Impact[t] + SumFunctionOnSet(Impact, T \ {t})
  BY <1>2, TaskTakenOut
<1>4. T \ {t} = S /\ Impact[t] \in Nat /\ SumFunctionOnSet(Impact, S) \in Nat
  BY <1>2, TaskTypes, SetsOfTasks
<1>5. SumFunctionOnSet(Impact, T \ {t}) = SumFunctionOnSet(Impact, S)
  BY <1>2, Zenon
<1>6. SumFunctionOnSet(Impact, T) = SumFunctionOnSet(Impact, S) + Impact[t]
  BY <1>3, <1>4, <1>5
<1>. QED  BY <1>1, <1>6 DEF T

(* Loads. *)
ControlledBy(active, at, i) == {t \in active : at[t].control = i /\ Controls(i)}

LEMMA LoadType ==
  ASSUME NEW active \in SUBSET Tasks, NEW at, NEW i \in Instances
  PROVE  /\ RunsOn(active, at, i) \in SUBSET active /\ ControlledBy(active, at, i) \in SUBSET active
         /\ SumFunctionOnSet(Impact, RunsOn(active, at, i)) \in Nat
         /\ Cardinality(ControlledBy(active, at, i)) \in Nat
         /\ Load(active, at, i) = SumFunctionOnSet(Impact, RunsOn(active, at, i))
                                    + ControlImpact * Cardinality(ControlledBy(active, at, i))
         /\ Load(active, at, i) \in Nat
         /\ SumFunctionOnSet(Impact, RunsOn(active, at, i)) <= Load(active, at, i)
<1>1. RunsOn(active, at, i) \in SUBSET active /\ ControlledBy(active, at, i) \in SUBSET active
  BY DEF RunsOn, ControlledBy
<1>2. /\ SumFunctionOnSet(Impact, RunsOn(active, at, i)) \in Nat
      /\ Cardinality(ControlledBy(active, at, i)) \in Nat
  BY <1>1, SetsOfTasks
<1>3. Load(active, at, i) = SumFunctionOnSet(Impact, RunsOn(active, at, i))
                              + ControlImpact * Cardinality(ControlledBy(active, at, i))
  BY DEF Load, ControlledBy
<1>. DEFINE x == SumFunctionOnSet(Impact, RunsOn(active, at, i))
            y == Cardinality(ControlledBy(active, at, i))
<1>4. x \in Nat /\ y \in Nat /\ ControlImpact \in Nat
  BY <1>2, TaskTypes
<1>. HIDE DEF x, y
<1>5. ControlImpact * y \in Nat
  BY <1>4
<1>6. x + ControlImpact * y \in Nat /\ x <= x + ControlImpact * y
  BY <1>4, <1>5
<1>. QED  BY <1>1, <1>2, <1>3, <1>6 DEF x, y

(* A part of the tasks loads an instance no more than all of them. *)
LEMMA LoadOfPart ==
  ASSUME NEW T \in SUBSET Tasks, NEW S \in SUBSET T, NEW at, NEW at2,
         \A t \in S : at2[t] = at[t], NEW i \in Instances
  PROVE  /\ RunsOn(S, at2, i) = RunsOn(T, at, i) \cap S
         /\ Load(S, at2, i) <= Load(T, at, i)
<1>1. /\ RunsOn(S, at2, i) = RunsOn(T, at, i) \cap S
      /\ ControlledBy(S, at2, i) \in SUBSET ControlledBy(T, at, i)
  BY DEF RunsOn, ControlledBy
<1>. DEFINE x == SumFunctionOnSet(Impact, RunsOn(S, at2, i))
            y == Cardinality(ControlledBy(S, at2, i))
            u == SumFunctionOnSet(Impact, RunsOn(T, at, i))
            v == Cardinality(ControlledBy(T, at, i))
<1>2. /\ x \in Nat /\ y \in Nat /\ u \in Nat /\ v \in Nat /\ ControlImpact \in Nat
      /\ Load(S, at2, i) = x + ControlImpact * y /\ Load(T, at, i) = u + ControlImpact * v
  BY LoadType, TaskTypes
<1>3. /\ RunsOn(T, at, i) \in SUBSET Tasks /\ ControlledBy(T, at, i) \in SUBSET Tasks
      /\ RunsOn(S, at2, i) \in SUBSET RunsOn(T, at, i)
  BY <1>1, LoadType
<1>4. x <= u /\ y <= v
  BY <1>1, <1>3, SetsOfTasks
<1>. HIDE DEF x, y, u, v
<1>5. ControlImpact * y <= ControlImpact * v /\ ControlImpact * y \in Nat /\ ControlImpact * v \in Nat
  BY <1>2, <1>4
<1>. QED  BY <1>1, <1>2, <1>4, <1>5

LEMMA CarriedPart ==
  ASSUME NEW T \in SUBSET Tasks, NEW S \in SUBSET T, NEW at, NEW at2,
         \A t \in S : at2[t] = at[t], AllCarried(T, at)
  PROVE  AllCarried(S, at2)
<1>. SUFFICES ASSUME NEW i \in Instances  PROVE Carried(S, at2, i)
  BY DEF AllCarried
<1>0. CapacityOf[i] \in Nat /\ Load(S, at2, i) \in Nat /\ Load(T, at, i) \in Nat
  BY TaskTypes, LoadType
<1>1. CASE Load(T, at, i) <= CapacityOf[i]
  <2>1. Load(S, at2, i) <= Load(T, at, i)
    BY LoadOfPart
  <2>2. Load(S, at2, i) <= CapacityOf[i]
    BY <1>0, <1>1, <2>1
  <2>. QED  BY <2>2 DEF Carried
<1>2. CASE ~(Load(T, at, i) <= CapacityOf[i])
  <2>1. PICK u \in T : RunsOn(T, at, i) = {u} /\ Load(T \ {u}, at, i) <= CapacityOf[i]
    BY <1>2 DEF AllCarried, Carried
  <2>2. Load(T \ {u}, at, i) \in Nat /\ T \ {u} \in SUBSET Tasks
    BY LoadType
  <2>3. CASE u \in S
    <3>1. RunsOn(S, at2, i) = {u}
      BY <2>1, <2>3, LoadOfPart
    <3>2. S \ {u} \in SUBSET (T \ {u}) /\ \A t \in S \ {u} : at2[t] = at[t]
      OBVIOUS
    <3>3. Load(S \ {u}, at2, i) <= Load(T \ {u}, at, i) /\ Load(S \ {u}, at2, i) \in Nat
      BY <2>2, <3>2, LoadOfPart, LoadType
    <3>4. Load(S \ {u}, at2, i) <= CapacityOf[i]
      BY <1>0, <2>1, <2>2, <3>3
    <3>. QED  BY <2>3, <3>1, <3>4 DEF Carried
  <2>4. CASE u \notin S
    <3>1. S \in SUBSET (T \ {u})
      BY <2>4
    <3>2. Load(S, at2, i) <= Load(T \ {u}, at, i)
      BY <2>2, <3>1, LoadOfPart
    <3>. QED  BY <1>0, <2>1, <2>2, <3>2 DEF Carried
  <2>. QED  BY <2>3, <2>4
<1>. QED  BY <1>1, <1>2

-----------------------------------------------------------------------------
(* What the choice of an instance guarantees. *)

(* What is left of an instance, and the largest of several. *)
LEMMA MaxWithZero ==
  ASSUME NEW x \in Int
  PROVE  Max({0, x}) = IF x >= 0 THEN x ELSE 0
<1>. DEFINE m == IF x >= 0 THEN x ELSE 0
<1>1. m \in {0, x} /\ \A y \in {0, x} : m >= y
  OBVIOUS
<1>2. \A k \in {0, x} : (\A y \in {0, x} : k >= y) => k = m
  OBVIOUS
<1>. QED  BY <1>1, <1>2 DEF Max

LEMMA RemainingIs ==
  ASSUME NEW active \in SUBSET Tasks, NEW at, NEW i \in Instances
  PROVE  /\ Remaining(active, at, i) \in Nat
         /\ Remaining(active, at, i) > 0 => Remaining(active, at, i) = CapacityOf[i] - Load(active, at, i)
<1>1. CapacityOf[i] - Load(active, at, i) \in Int
  BY TaskTypes, LoadType
<1>. DEFINE x == CapacityOf[i] - Load(active, at, i)
<1>2. Max({0, x}) = IF x >= 0 THEN x ELSE 0
  BY <1>1, MaxWithZero
<1>3. Remaining(active, at, i) = Max({0, x})
  BY DEF Remaining
<1>. HIDE DEF x
<1>4. x \in Int
  BY <1>1 DEF x
<1>5. Remaining(active, at, i) \in Nat /\ (Remaining(active, at, i) > 0 => Remaining(active, at, i) = x)
  BY <1>2, <1>3, <1>4
<1>. QED  BY <1>5 DEF x

LEMMA LargestExists ==
  ASSUME NEW S, IsFiniteSet(S), S # {}, NEW f \in [S -> Int]
  PROVE  \E i \in S : \A k \in S : f[k] <= f[i]
<1>. DEFINE Right == {n \in Nat : \A s \in SUBSET S : Cardinality(s) = n + 1 =>
                                    \E i \in s : \A k \in s : f[k] <= f[i]}
<1>1. \A s \in SUBSET S : IsFiniteSet(s) /\ Cardinality(s) \in Nat
  BY FS_Subset, FS_CardinalityType
<1>2. ASSUME NEW s \in SUBSET S, NEW n \in Nat, Cardinality(s) = n + 1
      PROVE  \E x \in s : Cardinality(s \ {x}) = n
  <2>1. PICK x : x \in s
    BY <1>2, FS_EmptySet
  <2>2. Cardinality(s) = Cardinality(s \ {x}) + 1 /\ Cardinality(s \ {x}) \in Nat
    BY <2>1, Smaller
  <2>. QED  BY <1>2, <2>1, <2>2
<1>3. 0 \in Right
  <2>1. ASSUME NEW s \in SUBSET S, Cardinality(s) = 1  PROVE \E i \in s : \A k \in s : f[k] <= f[i]
    <3>1. PICK x \in s : s = {x}
      BY <1>1, <2>1, FS_Singleton
    <3>. QED  BY <3>1
  <2>. QED  BY <2>1
<1>4. ASSUME NEW n \in Nat, n \in Right  PROVE n + 1 \in Right
  <2>1. ASSUME NEW s \in SUBSET S, Cardinality(s) = (n + 1) + 1
        PROVE  \E i \in s : \A k \in s : f[k] <= f[i]
    <3>1. PICK x \in s : Cardinality(s \ {x}) = n + 1
      BY <1>2, <2>1
    <3>2. PICK m \in s \ {x} : \A k \in s \ {x} : f[k] <= f[m]
      BY <1>4, <3>1
    <3>3. \A k \in s : f[k] \in Int
      OBVIOUS
    <3>4. CASE f[x] <= f[m]
      BY <3>2, <3>4
    <3>5. CASE ~(f[x] <= f[m])
      <4>1. \A k \in s : f[k] <= f[x]
        BY <3>2, <3>3, <3>5
      <4>. QED  BY <4>1
    <3>. QED  BY <3>4, <3>5
  <2>. QED  BY <2>1
<1>. HIDE DEF Right
<1>5. Nat \subseteq Right
  BY <1>3, <1>4, AllNumbers
<1>6. Cardinality(S) - 1 \in Nat /\ Cardinality(S) \in Nat
  BY <1>1, FS_EmptySet
<1>7. Cardinality(S) - 1 \in Right /\ Cardinality(S) = (Cardinality(S) - 1) + 1
  BY <1>5, <1>6
<1>. QED  BY <1>7 DEF Right

(* fit_task_to_most_remaining_capacity_instance returns an instance with room. *)
LEMMA Fitting ==
  ASSUME NEW active \in SUBSET Tasks, NEW at, NEW g \in DOMAIN Groups, NEW type,
         NEW up \in SUBSET Instances, NEW impact \in Nat \ {0}, NEW withControl \in BOOLEAN,
         NEW i, i = Fit(active, at, g, type, up, impact, withControl), i # Nowhere
  PROVE  /\ i \in Groups[g] \cap up /\ i \in Instances /\ NodeType[i] \in {type, "hybrid"}
         /\ Load(active, at, i) + impact + (IF withControl /\ NodeType[i] = "hybrid" THEN ControlImpact ELSE 0)
              <= CapacityOf[i]
<1>. DEFINE more(k) == IF withControl /\ NodeType[k] = "hybrid" THEN ControlImpact ELSE 0
            left(k) == Remaining(active, at, k) - impact - more(k)
            S == {k \in Usable(g, type, up) : left(k) >= 0}
            f == [k \in S |-> left(k)]
<1>1. S \in SUBSET Instances /\ IsFiniteSet(S)
  <2>1. S \in SUBSET Instances
    BY DEF Usable
  <2>. QED  BY <2>1, TaskTypes, FS_Subset
<1>2. \A k \in Instances : Remaining(active, at, k) \in Nat /\ more(k) \in Nat
  BY RemainingIs, TaskTypes
<1>3. f \in [S -> Int]
  BY <1>1, <1>2
<1>4. i = IF S = {} THEN Nowhere ELSE CHOOSE k \in S : \A l \in S : left(l) <= left(k)
  BY DEF Fit, Largest
<1>5. S # {}
  BY <1>4
<1>6. \E k \in S : \A l \in S : left(l) <= left(k)
  <2>1. \E k \in S : \A l \in S : f[l] <= f[k]
    <3>. HIDE DEF S, f
    <3>. QED  BY <1>1, <1>3, <1>5, LargestExists
  <2>. QED  BY <2>1
<1>7. i \in S
  <2>. HIDE DEF S, left
  <2>. QED  BY <1>4, <1>5, <1>6
<1>8. i \in Instances /\ Remaining(active, at, i) - impact - more(i) >= 0
  BY <1>1, <1>7
<1>9. /\ Remaining(active, at, i) \in Nat /\ more(i) \in Nat
      /\ Load(active, at, i) \in Nat /\ CapacityOf[i] \in Nat
      /\ Remaining(active, at, i) > 0 => Remaining(active, at, i) = CapacityOf[i] - Load(active, at, i)
  BY <1>2, <1>8, RemainingIs, LoadType, TaskTypes
<1>10. Load(active, at, i) + impact + more(i) <= CapacityOf[i]
  <2>. HIDE DEF more
  <2>. QED  BY <1>8, <1>9
<1>. QED  BY <1>7, <1>8, <1>10 DEF Usable

(* find_largest_idle_instance returns an instance without jobs: whoever runs there
   has a positive impact, and leaves less than the capacity. *)
LEMMA IdleOne ==
  ASSUME NEW active \in SUBSET Tasks, NEW at, NEW g \in DOMAIN Groups, NEW type,
         NEW up \in SUBSET Instances, NEW i, i = LargestIdle(active, at, g, type, up), i # Nowhere
  PROVE  /\ i \in Groups[g] \cap up /\ i \in Instances /\ NodeType[i] \in {type, "hybrid"}
         /\ RunsOn(active, at, i) = {}
<1>. DEFINE S == {k \in Usable(g, type, up) : CapacityOf[k] > 0 /\ Idle(active, at, k)}
            f == [k \in S |-> CapacityOf[k]]
<1>1. S \in SUBSET Instances /\ IsFiniteSet(S)
  <2>1. S \in SUBSET Instances
    BY DEF Usable
  <2>. QED  BY <2>1, TaskTypes, FS_Subset
<1>2. f \in [S -> Int]
  BY <1>1, TaskTypes
<1>3. i = IF S = {} THEN Nowhere ELSE CHOOSE k \in S : \A l \in S : CapacityOf[l] <= CapacityOf[k]
  BY DEF LargestIdle, Largest
<1>4. S # {}
  BY <1>3
<1>5. \E k \in S : \A l \in S : CapacityOf[l] <= CapacityOf[k]
  <2>1. \E k \in S : \A l \in S : f[l] <= f[k]
    <3>. HIDE DEF S, f
    <3>. QED  BY <1>1, <1>2, <1>4, LargestExists
  <2>. QED  BY <2>1
<1>6. i \in S
  <2>. HIDE DEF S
  <2>. QED  BY <1>3, <1>4, <1>5
<1>7. i \in Instances /\ CapacityOf[i] > 0 /\ Idle(active, at, i)
  BY <1>1, <1>6
<1>8. ASSUME NEW t \in RunsOn(active, at, i)  PROVE FALSE
  <2>1. Remaining(active, at, i) = CapacityOf[i]
    BY <1>7, <1>8 DEF Idle
  <2>2. Load(active, at, i) = 0
    <3>1. CapacityOf[i] \in Nat /\ Load(active, at, i) \in Nat
      BY <1>7, LoadType, TaskTypes
    <3>2. CapacityOf[i] = CapacityOf[i] - Load(active, at, i)
      BY <1>7, <2>1, RemainingIs
    <3>. QED  BY <3>1, <3>2
  <2>3. RunsOn(active, at, i) \in SUBSET Tasks /\ SumFunctionOnSet(Impact, RunsOn(active, at, i)) <= 0
    BY <1>7, <2>2, LoadType
  <2>. DEFINE R == RunsOn(active, at, i)
  <2>. HIDE DEF R
  <2>4. R \in SUBSET Tasks /\ t \in R /\ SumFunctionOnSet(Impact, R) <= 0
    BY <1>8, <2>3 DEF R
  <2>5. SumFunctionOnSet(Impact, R) = Impact[t] + SumFunctionOnSet(Impact, R \ {t})
    BY <2>4, TaskTakenOut
  <2>6. Impact[t] \in Nat \ {0} /\ SumFunctionOnSet(Impact, R \ {t}) \in Nat
    BY <2>4, TaskTypes, SetsOfTasks
  <2>. QED  BY <2>4, <2>5, <2>6
<1>. QED  BY <1>6, <1>7, <1>8 DEF Usable

(* What a task at a place adds to the load of an instance. *)
Extra(p, t, i) ==
  (IF p.node = i /\ Executes(i) THEN Impact[t] ELSE 0)
    + (IF p.control = i /\ Controls(i) THEN ControlImpact ELSE 0)

(* What the task manager has made sure of when it places a task. *)
Fits(p, t, active, at) ==
  \A i \in Instances :
    \/ Extra(p, t, i) = 0
    \/ Load(active, at, i) + Extra(p, t, i) <= CapacityOf[i]
    \/ p.node = i /\ Executes(i) /\ RunsOn(active, at, i) = {}
GoodPlace(p, t, active, at, up) ==
  /\ p \in PlaceType /\ p.group \in DOMAIN Groups
  /\ p.group \notin ContainerGroups \cup {ControlPlane} =>
       p.node \in Groups[p.group] /\ Executes(p.node)
  /\ p.node \in Instances => p.node \in up
  /\ p.group # ControlPlane => HasRemainingCapacity(active, at, p.group, up, 1, Impact[t])
  /\ Fits(p, t, active, at)

With(at2, at, t, p) == at2 = [at EXCEPT ![t] = p]

(* One more task. *)
LEMMA LoadAdded ==
  ASSUME NEW active \in SUBSET Tasks, NEW t \in Tasks, t \notin active, NEW at \in [Tasks -> PlaceType],
         NEW p \in PlaceType, NEW i \in Instances, NEW at2, With(at2, at, t, p)
  PROVE  /\ RunsOn(active \cup {t}, at2, i) =
              IF p.node = i /\ Executes(i) THEN RunsOn(active, at, i) \cup {t} ELSE RunsOn(active, at, i)
         /\ Load(active \cup {t}, at2, i) = Load(active, at, i) + Extra(p, t, i)
         /\ Extra(p, t, i) \in Nat
         /\ p.node = i /\ Executes(i) => Extra(p, t, i) > 0
<1>. DEFINE runs == p.node = i /\ Executes(i)
            controls == p.control = i /\ Controls(i)
            R == RunsOn(active, at, i)
            C == ControlledBy(active, at, i)
            R2 == RunsOn(active \cup {t}, at2, i)
            C2 == ControlledBy(active \cup {t}, at2, i)
<1>1. at2[t] = p /\ \A u \in active : at2[u] = at[u]
  BY DEF With
<1>2. R2 = IF runs THEN R \cup {t} ELSE R
  BY <1>1 DEF RunsOn
<1>3. C2 = IF controls THEN C \cup {t} ELSE C
  BY <1>1 DEF ControlledBy
<1>4. /\ R \in SUBSET Tasks /\ C \in SUBSET Tasks /\ t \notin R /\ t \notin C
      /\ SumFunctionOnSet(Impact, R) \in Nat /\ Cardinality(C) \in Nat
      /\ Load(active, at, i) = SumFunctionOnSet(Impact, R) + ControlImpact * Cardinality(C)
      /\ Load(active, at, i) \in Nat
  <2>1. /\ R \in SUBSET active /\ C \in SUBSET active
        /\ SumFunctionOnSet(Impact, R) \in Nat /\ Cardinality(C) \in Nat
        /\ Load(active, at, i) = SumFunctionOnSet(Impact, R) + ControlImpact * Cardinality(C)
        /\ Load(active, at, i) \in Nat
    BY LoadType
  <2>. HIDE DEF R, C
  <2>. QED  BY <2>1
<1>5. Load(active \cup {t}, at2, i) = SumFunctionOnSet(Impact, R2) + ControlImpact * Cardinality(C2)
  BY DEF Load, ControlledBy
<1>. HIDE DEF R, C, R2, C2
<1>6. Impact[t] \in Nat \ {0} /\ ControlImpact \in Nat \ {0}
  BY TaskTypes
<1>7. SumFunctionOnSet(Impact, R2) = SumFunctionOnSet(Impact, R) + (IF runs THEN Impact[t] ELSE 0)
  <2>1. SumFunctionOnSet(Impact, R \cup {t}) = SumFunctionOnSet(Impact, R) + Impact[t]
    BY <1>4, TaskAdded
  <2>. QED  BY <1>2, <1>4, <2>1
<1>8. Cardinality(C2) = Cardinality(C) + (IF controls THEN 1 ELSE 0)
  <2>1. Cardinality(C \cup {t}) = Cardinality(C) + 1
    BY <1>4, TaskAdded
  <2>. QED  BY <1>3, <1>4, <2>1
<1>9. ControlImpact * Cardinality(C2) =
        ControlImpact * Cardinality(C) + (IF controls THEN ControlImpact ELSE 0)
  <2>1. ControlImpact * (Cardinality(C) + 1) = ControlImpact * Cardinality(C) + ControlImpact
    BY <1>4, <1>6
  <2>2. ControlImpact * Cardinality(C) \in Nat
    BY <1>4, <1>6
  <2>. QED  BY <1>4, <1>6, <1>8, <2>1, <2>2
<1>10. Extra(p, t, i) = (IF runs THEN Impact[t] ELSE 0) + (IF controls THEN ControlImpact ELSE 0)
  BY DEF Extra
<1>11. Extra(p, t, i) \in Nat /\ (runs => Extra(p, t, i) > 0)
  BY <1>6, <1>10
<1>12. ControlImpact * Cardinality(C) \in Nat
  BY <1>4, <1>6
<1>. HIDE DEF runs, controls
<1>13. Load(active \cup {t}, at2, i) = Load(active, at, i) + Extra(p, t, i)
  BY <1>4, <1>5, <1>6, <1>7, <1>9, <1>10, <1>12
<1>. QED  BY <1>2, <1>11, <1>13 DEF R, R2, runs

LEMMA CarriedMore ==
  ASSUME NEW active \in SUBSET Tasks, NEW t \in Tasks, t \notin active, NEW at \in [Tasks -> PlaceType],
         NEW p \in PlaceType, NEW at2, With(at2, at, t, p),
         AllCarried(active, at), Fits(p, t, active, at)
  PROVE  AllCarried(active \cup {t}, at2)
<1>. SUFFICES ASSUME NEW i \in Instances  PROVE Carried(active \cup {t}, at2, i)
  BY DEF AllCarried
<1>0. /\ CapacityOf[i] \in Nat /\ Load(active, at, i) \in Nat
      /\ Load(active \cup {t}, at2, i) = Load(active, at, i) + Extra(p, t, i)
      /\ Extra(p, t, i) \in Nat
      /\ RunsOn(active \cup {t}, at2, i) =
           IF p.node = i /\ Executes(i) THEN RunsOn(active, at, i) \cup {t} ELSE RunsOn(active, at, i)
      /\ p.node = i /\ Executes(i) => Extra(p, t, i) > 0
  <2>1. CapacityOf[i] \in Nat /\ Load(active, at, i) \in Nat
    BY TaskTypes, LoadType
  <2>2. /\ RunsOn(active \cup {t}, at2, i) =
             IF p.node = i /\ Executes(i) THEN RunsOn(active, at, i) \cup {t} ELSE RunsOn(active, at, i)
        /\ Load(active \cup {t}, at2, i) = Load(active, at, i) + Extra(p, t, i)
        /\ Extra(p, t, i) \in Nat
        /\ p.node = i /\ Executes(i) => Extra(p, t, i) > 0
    BY LoadAdded, Zenon
  <2>. QED  BY <2>1, <2>2
<1>1. CASE Load(active, at, i) + Extra(p, t, i) <= CapacityOf[i]
  BY <1>0, <1>1 DEF Carried
<1>2. CASE p.node = i /\ Executes(i) /\ RunsOn(active, at, i) = {}
  <2>1. RunsOn(active \cup {t}, at2, i) = {t}
    BY <1>0, <1>2
  <2>2. Load(active, at, i) <= CapacityOf[i]
    BY <1>2 DEF AllCarried, Carried
  <2>3. Load((active \cup {t}) \ {t}, at2, i) <= Load(active, at, i)
    <3>1. (active \cup {t}) \ {t} \in SUBSET active /\ \A u \in (active \cup {t}) \ {t} : at2[u] = at[u]
      BY DEF With
    <3>. QED  BY <3>1, LoadOfPart
  <2>4. Load((active \cup {t}) \ {t}, at2, i) \in Nat
    <3>1. (active \cup {t}) \ {t} \in SUBSET Tasks
      OBVIOUS
    <3>. QED  BY <3>1, LoadType
  <2>5. Load((active \cup {t}) \ {t}, at2, i) <= CapacityOf[i]
    BY <1>0, <2>2, <2>3, <2>4
  <2>. QED  BY <2>1, <2>5 DEF Carried
<1>3. CASE Extra(p, t, i) = 0 /\ ~(Load(active, at, i) <= CapacityOf[i])
  <2>1. PICK u \in active : RunsOn(active, at, i) = {u} /\ Load(active \ {u}, at, i) <= CapacityOf[i]
    BY <1>3 DEF AllCarried, Carried
  <2>2. RunsOn(active \cup {t}, at2, i) = {u}
    BY <1>0, <1>3, <2>1
  <2>3. (active \cup {t}) \ {u} = (active \ {u}) \cup {t} /\ active \ {u} \in SUBSET Tasks
        /\ t \in Tasks \ (active \ {u})
    OBVIOUS
  <2>4. Load((active \ {u}) \cup {t}, at2, i) = Load(active \ {u}, at, i) + Extra(p, t, i)
    <3>. DEFINE rest == active \ {u}
    <3>1. rest \in SUBSET Tasks /\ t \notin rest
      OBVIOUS
    <3>. HIDE DEF rest
    <3>2. ASSUME NEW S \in SUBSET Tasks, t \notin S
          PROVE  Load(S \cup {t}, at2, i) = Load(S, at, i) + Extra(p, t, i)
      <4>1. /\ RunsOn(S \cup {t}, at2, i) =
                 IF p.node = i /\ Executes(i) THEN RunsOn(S, at, i) \cup {t} ELSE RunsOn(S, at, i)
            /\ Load(S \cup {t}, at2, i) = Load(S, at, i) + Extra(p, t, i)
            /\ Extra(p, t, i) \in Nat
            /\ p.node = i /\ Executes(i) => Extra(p, t, i) > 0
        BY <3>2, LoadAdded, Zenon
      <4>. QED  BY <4>1
    <3>3. Load(rest \cup {t}, at2, i) = Load(rest, at, i) + Extra(p, t, i)
      BY <3>1, <3>2
    <3>. QED  BY <3>3 DEF rest
  <2>5. Load(active \ {u}, at, i) \in Nat
    BY <2>3, LoadType
  <2>6. Load((active \ {u}) \cup {t}, at2, i) <= CapacityOf[i]
    BY <1>0, <1>3, <2>1, <2>4, <2>5
  <2>7. Load((active \cup {t}) \ {u}, at2, i) <= CapacityOf[i]
    BY <2>3, <2>6, Zenon
  <2>. QED  BY <2>1, <2>2, <2>7 DEF Carried
<1>. QED  BY <1>0, <1>1, <1>2, <1>3 DEF Fits

LEMMA Kinds ==
  ASSUME NEW i \in Instances
  PROVE  /\ NodeType[i] = "execution" => Executes(i) /\ ~Controls(i)
         /\ NodeType[i] = "control" => Controls(i) /\ ~Executes(i)
         /\ NodeType[i] = "hybrid" => Executes(i) /\ Controls(i)
  BY DEF Executes, Controls

(* The instance that a control task runs on has room for it, controlling included. *)
LEMMA ControlPlaced ==
  ASSUME NEW active \in SUBSET Tasks, NEW at, NEW up \in SUBSET Instances, NEW t \in ControlTasks,
         NEW c, c = ControllerFor(t, active, at, up), c # Nowhere,
         NEW p, p = [control |-> c, node |-> c, group |-> ControlPlane]
  PROVE  GoodPlace(p, t, active, at, up)
<1>1. t \in Tasks /\ ControlPlane \in DOMAIN Groups
  BY CapacityAssumption
<1>2. Impact[t] \in Nat /\ ControlImpact \in Nat \ {0} /\ Impact[t] + ControlImpact \in Nat \ {0}
  BY <1>1, TaskTypes
<1>3. c = Fit(active, at, ControlPlane, "control", up, Impact[t] + ControlImpact, FALSE)
  BY DEF ControllerFor
<1>4. /\ c \in Groups[ControlPlane] \cap up /\ c \in Instances
      /\ Load(active, at, c) + (Impact[t] + ControlImpact) + 0 <= CapacityOf[c]
  <2>. DEFINE impact == Impact[t] + ControlImpact
  <2>. HIDE DEF impact
  <2>1. impact \in Nat \ {0} /\ c = Fit(active, at, ControlPlane, "control", up, impact, FALSE)
    BY <1>2, <1>3 DEF impact
  <2>2. /\ c \in Groups[ControlPlane] \cap up /\ c \in Instances /\ NodeType[c] \in {"control", "hybrid"}
        /\ Load(active, at, c) + impact + (IF FALSE /\ NodeType[c] = "hybrid" THEN ControlImpact ELSE 0)
              <= CapacityOf[c]
    BY <1>1, <2>1, Fitting
  <2>. QED  BY <2>2 DEF impact
<1>5. p \in PlaceType /\ p.node = c /\ p.control = c /\ p.group = ControlPlane
  BY <1>1, <1>4 DEF PlaceType
<1>6. ASSUME NEW i \in Instances
      PROVE  Extra(p, t, i) = 0 \/ Load(active, at, i) + Extra(p, t, i) <= CapacityOf[i]
  <2>1. CASE i = c
    <3>1. Extra(p, t, i) \in Nat /\ Extra(p, t, i) <= Impact[t] + ControlImpact
      BY <1>2 DEF Extra
    <3>2. Load(active, at, c) \in Nat /\ CapacityOf[c] \in Nat
      BY <1>4, LoadType, TaskTypes
    <3>. QED  BY <1>2, <1>4, <2>1, <3>1, <3>2
  <2>2. CASE i # c
    BY <1>5, <2>2 DEF Extra
  <2>. QED  BY <2>1, <2>2
<1>. QED  BY <1>1, <1>4, <1>5, <1>6 DEF GoodPlace, Fits

(* Another task's controller has room for controlling it. *)
LEMMA ControllerFits ==
  ASSUME NEW active \in SUBSET Tasks, NEW at, NEW up \in SUBSET Instances, NEW t \in Tasks \ ControlTasks,
         NEW c, c = ControllerFor(t, active, at, up), c # Nowhere
  PROVE  /\ c \in Instances /\ NodeType[c] \in {"control", "hybrid"}
         /\ Load(active, at, c) + ControlImpact <= CapacityOf[c]
<1>1. c = Fit(active, at, ControlPlane, "control", up, ControlImpact, FALSE)
  BY DEF ControllerFor
<1>2. ControlImpact \in Nat \ {0} /\ ControlPlane \in DOMAIN Groups
  BY CapacityAssumption
<1>3. /\ c \in Instances /\ NodeType[c] \in {"control", "hybrid"}
      /\ Load(active, at, c) + ControlImpact + 0 <= CapacityOf[c]
  <2>1. /\ c \in Groups[ControlPlane] \cap up /\ c \in Instances /\ NodeType[c] \in {"control", "hybrid"}
        /\ Load(active, at, c) + ControlImpact
              + (IF FALSE /\ NodeType[c] = "hybrid" THEN ControlImpact ELSE 0) <= CapacityOf[c]
    BY <1>1, <1>2, Fitting
  <2>. QED  BY <2>1
<1>4. Load(active, at, c) \in Nat
  BY <1>3, LoadType
<1>. QED  BY <1>2, <1>3, <1>4

LEMMA GroupPlaced ==
  ASSUME NEW active \in SUBSET Tasks, NEW at, NEW up \in SUBSET Instances, NEW t \in Tasks \ ControlTasks,
         NEW c, c = ControllerFor(t, active, at, up), c # Nowhere, NEW g \in DOMAIN Groups,
         NEW p, p = InGroup(t, g, c, active, at, up), p # Unplaced
  PROVE  GoodPlace(p, t, active, at, up)
<1>. DEFINE fit == Fit(active, at, g, "execution", up, Impact[t], TRUE)
            idle == LargestIdle(active, at, g, "execution", up)
            node == Else(fit, idle)
<1>1. /\ HasRemainingCapacity(active, at, g, up, 1, Impact[t])
      /\ p = Place(g, c, node)
  BY DEF InGroup
<1>2. /\ c \in Instances /\ NodeType[c] \in {"control", "hybrid"}
      /\ Load(active, at, c) + ControlImpact <= CapacityOf[c]
  BY ControllerFits
<1>3. Impact[t] \in Nat \ {0} /\ ControlImpact \in Nat \ {0} /\ Nowhere \notin Instances
  BY TaskTypes
<1>4. Load(active, at, c) \in Nat /\ CapacityOf[c] \in Nat
  BY <1>2, LoadType, TaskTypes
<1>5. CASE g \in ContainerGroups
  <2>1. p = [control |-> c, node |-> Nowhere, group |-> g]
    BY <1>1, <1>5 DEF Place
  <2>2. p \in PlaceType /\ p.node = Nowhere /\ p.group = g /\ p.control = c
    BY <1>2, <2>1 DEF PlaceType
  <2>3. ASSUME NEW i \in Instances
        PROVE  Extra(p, t, i) = 0 \/ Load(active, at, i) + Extra(p, t, i) <= CapacityOf[i]
    <3>1. Extra(p, t, i) = IF i = c /\ Controls(i) THEN ControlImpact ELSE 0
      BY <1>3, <2>2 DEF Extra
    <3>. QED  BY <1>2, <3>1
  <2>. QED  BY <1>1, <1>3, <1>5, <2>2, <2>3 DEF GoodPlace, Fits
<1>6. CASE g \notin ContainerGroups
  <2>0. node # Nowhere
    BY <1>1, <1>6 DEF Place
  <2>1. p = [control |-> IF NodeType[node] = "hybrid" THEN node ELSE c, node |-> node, group |-> g]
    BY <1>1, <1>6, <2>0 DEF Place
  <2>2. /\ node \in Groups[g] \cap up /\ node \in Instances /\ NodeType[node] \in {"execution", "hybrid"}
        /\ \/ Load(active, at, node) + Impact[t]
                + (IF NodeType[node] = "hybrid" THEN ControlImpact ELSE 0) <= CapacityOf[node]
           \/ RunsOn(active, at, node) = {}
    <3>1. CASE fit # Nowhere
      <4>1. node = fit
        BY <3>1 DEF Else
      <4>. DEFINE both == TRUE
      <4>2. /\ Impact[t] \in Nat \ {0} /\ both \in BOOLEAN
            /\ fit = Fit(active, at, g, "execution", up, Impact[t], both)
        BY <1>3
      <4>. HIDE DEF fit, both
      <4>3. /\ fit \in Groups[g] \cap up /\ fit \in Instances /\ NodeType[fit] \in {"execution", "hybrid"}
            /\ Load(active, at, fit) + Impact[t]
                  + (IF both /\ NodeType[fit] = "hybrid" THEN ControlImpact ELSE 0) <= CapacityOf[fit]
        BY <3>1, <4>2, Fitting
      <4>4. Load(active, at, fit) + Impact[t]
              + (IF NodeType[fit] = "hybrid" THEN ControlImpact ELSE 0) <= CapacityOf[fit]
        BY <4>3 DEF both
      <4>. QED  BY <4>1, <4>3, <4>4
    <3>2. CASE fit = Nowhere
      <4>1. node = idle
        BY <3>2 DEF Else
      <4>2. idle = LargestIdle(active, at, g, "execution", up)
        OBVIOUS
      <4>. HIDE DEF idle, fit
      <4>3. /\ idle \in Groups[g] \cap up /\ idle \in Instances /\ NodeType[idle] \in {"execution", "hybrid"}
            /\ RunsOn(active, at, idle) = {}
        BY <2>0, <4>1, <4>2, IdleOne
      <4>. QED  BY <4>1, <4>3
    <3>. QED  BY <3>1, <3>2
  <2>. HIDE DEF node
  <2>3. /\ p \in PlaceType /\ p.node = node /\ p.group = g
        /\ p.control = IF NodeType[node] = "hybrid" THEN node ELSE c
    BY <1>2, <2>1, <2>2 DEF PlaceType
  <2>4. Executes(node) /\ (NodeType[node] # "hybrid" => ~Controls(node) /\ node # c)
    BY <1>2, <2>2, Kinds
  <2>5. ASSUME NEW i \in Instances
        PROVE  \/ Extra(p, t, i) = 0
               \/ Load(active, at, i) + Extra(p, t, i) <= CapacityOf[i]
               \/ p.node = i /\ Executes(i) /\ RunsOn(active, at, i) = {}
    <3>0. Load(active, at, i) \in Nat /\ CapacityOf[i] \in Nat
      BY LoadType, TaskTypes
    <3>1. CASE i = node
      <4>1. Extra(p, t, i) = Impact[t] + (IF NodeType[node] = "hybrid" THEN ControlImpact ELSE 0)
        BY <2>2, <2>3, <2>4, <3>1, Kinds DEF Extra
      <4>. QED  BY <1>3, <2>2, <2>3, <2>4, <3>0, <3>1, <4>1
    <3>2. CASE i # node
      <4>1. Extra(p, t, i) = IF i = p.control /\ Controls(i) THEN ControlImpact ELSE 0
        BY <1>3, <2>3, <3>2 DEF Extra
      <4>2. i = p.control => i = c
        BY <2>3, <3>2
      <4>. QED  BY <1>2, <4>1, <4>2
    <3>. QED  BY <3>1, <3>2
  <2>. QED  BY <1>1, <2>2, <2>3, <2>4, <2>5 DEF GoodPlace, Fits
<1>. QED  BY <1>5, <1>6

(* Whatever instance the cycle finds for a task, it is a good place. *)
LEMMA Chosen ==
  ASSUME NEW active \in SUBSET Tasks, NEW at, NEW up \in SUBSET Instances, NEW t \in Tasks,
         NEW p, p = PlaceWith(ControllerFor(t, active, at, up), t, active, at, up), p # Unplaced
  PROVE  GoodPlace(p, t, active, at, up)
<1>. DEFINE c == ControllerFor(t, active, at, up)
            places == [k \in DOMAIN Preferred[t] |-> InGroup(t, Preferred[t][k], c, active, at, up)]
<1>1. c # Nowhere
  BY DEF PlaceWith
<1>2. CASE t \in ControlTasks
  <2>1. p = [control |-> c, node |-> c, group |-> ControlPlane]
    BY <1>1, <1>2 DEF PlaceWith
  <2>. QED  BY <1>1, <1>2, <2>1, ControlPlaced
<1>3. CASE t \notin ControlTasks
  <2>. DEFINE found == {k \in DOMAIN places : places[k] # Unplaced}
  <2>1. p = FirstFound(places)
    BY <1>1, <1>3 DEF PlaceWith
  <2>2. found # {} /\ p = places[Min(found)]
    BY <2>1 DEF FirstFound
  <2>3. DOMAIN Preferred[t] \subseteq Nat /\ \A k \in DOMAIN Preferred[t] : Preferred[t][k] \in DOMAIN Groups
    BY CapacityAssumption
  <2>4. Min(found) \in found
    <3>1. found \in SUBSET Nat
      BY <2>3
    <3>. HIDE DEF found
    <3>. QED  BY <2>2, <3>1, LeastNat
  <2>5. PICK k \in DOMAIN Preferred[t] : p = InGroup(t, Preferred[t][k], c, active, at, up)
    BY <2>2, <2>4
  <2>6. Preferred[t][k] \in DOMAIN Groups
    BY <2>3
  <2>. QED  BY <1>1, <1>3, <2>5, <2>6, GroupPlaced
<1>. QED  BY <1>2, <1>3

-----------------------------------------------------------------------------
(* The limits of instance groups. *)

(* The jobs on some instances weigh no more than what these carry. *)
LEMMA LoadsCover ==
  ASSUME NEW active \in SUBSET Tasks, NEW at, NEW U \in SUBSET Instances
  PROVE  /\ SumFunctionOnSet([i \in Instances |-> Load(active, at, i)], U) \in Nat
         /\ SumFunctionOnSet(Impact, {t \in active : at[t].node \in U /\ Executes(at[t].node)})
              <= SumFunctionOnSet([i \in Instances |-> Load(active, at, i)], U)
<1>. DEFINE loads == [i \in Instances |-> Load(active, at, i)]
            on(V) == {t \in active : at[t].node \in V /\ Executes(at[t].node)}
            jobs(V) == SumFunctionOnSet(Impact, on(V))
            all(V) == SumFunctionOnSet(loads, V)
            Right == {n \in Nat : \A V \in SUBSET Instances : Cardinality(V) = n => jobs(V) <= all(V)}
<1>1. loads \in [Instances -> Nat]
  BY LoadType
<1>2. \A V \in SUBSET Instances : /\ IsFiniteSet(V) /\ Cardinality(V) \in Nat
                                  /\ on(V) \in SUBSET Tasks /\ jobs(V) \in Nat
  <2>. SUFFICES ASSUME NEW V \in SUBSET Instances
                PROVE  /\ IsFiniteSet(V) /\ Cardinality(V) \in Nat
                       /\ on(V) \in SUBSET Tasks /\ jobs(V) \in Nat
    OBVIOUS
  <2>1. IsFiniteSet(V) /\ Cardinality(V) \in Nat
    BY TaskTypes, FS_Subset, FS_CardinalityType
  <2>2. on(V) \in SUBSET Tasks
    OBVIOUS
  <2>. HIDE DEF on
  <2>. QED  BY <2>1, <2>2, SetsOfTasks
<1>3. /\ \A V \in SUBSET Instances : all(V) \in Nat
      /\ \A V \in SUBSET Instances : \A i \in V : all(V) = loads[i] + all(V \ {i})
  <2>. HIDE DEF loads
  <2>. QED  BY <1>1, TaskTypes, SumType, SumFacts
<1>4. 0 \in Right
  <2>1. ASSUME NEW V \in SUBSET Instances, Cardinality(V) = 0  PROVE jobs(V) <= all(V)
    <3>1. V = {}
      BY <1>2, <2>1, FS_EmptySet
    <3>2. on(V) = {}
      BY <3>1
    <3>3. jobs(V) = 0
      <4>1. SumFunctionOnSet(Impact, {}) = 0
        BY TaskTypes, SumFacts
      <4>. HIDE DEF on
      <4>. QED  BY <3>2, <4>1
    <3>4. all(V) \in Nat
      BY <1>3
    <3>. HIDE DEF jobs, all
    <3>. QED  BY <3>3, <3>4
  <2>. QED  BY <2>1
<1>5. ASSUME NEW n \in Nat, n \in Right  PROVE n + 1 \in Right
  <2>1. ASSUME NEW V \in SUBSET Instances, Cardinality(V) = n + 1  PROVE jobs(V) <= all(V)
    <3>1. PICK i : i \in V
      BY <2>1, FS_EmptySet
    <3>. DEFINE W == V \ {i}
    <3>2. W \in SUBSET Instances /\ Cardinality(W) = n
      <4>1. Cardinality(V) = Cardinality(V \ {i}) + 1 /\ Cardinality(V \ {i}) \in Nat
        BY <3>1, TaskTypes, Smaller
      <4>. QED  BY <2>1, <4>1
    <3>3. on(V) = on(W) \cup RunsOn(active, at, i) /\ on(W) \cap RunsOn(active, at, i) = {}
      BY <3>1 DEF RunsOn
    <3>4. all(V) = loads[i] + all(W) /\ all(W) \in Nat /\ loads[i] = Load(active, at, i)
      BY <1>3, <3>1, <3>2
    <3>5. jobs(W) <= all(W)
      <4>. HIDE DEF jobs, all, W
      <4>. QED  BY <1>5, <3>2
    <3>6. /\ RunsOn(active, at, i) \in SUBSET Tasks
          /\ SumFunctionOnSet(Impact, RunsOn(active, at, i)) \in Nat
          /\ SumFunctionOnSet(Impact, RunsOn(active, at, i)) <= Load(active, at, i)
          /\ Load(active, at, i) \in Nat
      BY <3>1, LoadType
    <3>7. on(W) \in SUBSET Tasks /\ jobs(W) \in Nat
      BY <1>2, <3>2
    <3>8. jobs(V) = jobs(W) + SumFunctionOnSet(Impact, RunsOn(active, at, i))
      <4>. DEFINE A == on(W)
                  B == RunsOn(active, at, i)
      <4>. HIDE DEF on, W, A, B
      <4>1. A \in SUBSET Tasks /\ B \in SUBSET Tasks /\ A \cap B = {} /\ on(V) = A \cup B
        BY <3>3, <3>6, <3>7 DEF A, B
      <4>2. SumFunctionOnSet(Impact, A \cup B) = SumFunctionOnSet(Impact, A) + SumFunctionOnSet(Impact, B)
        <5>1. IsFiniteSet(Tasks) /\ Impact \in [Tasks -> Nat]
          BY TaskTypes
        <5>. QED  BY <4>1, <5>1, SumOfBoth
      <4>3. SumFunctionOnSet(Impact, on(V)) = SumFunctionOnSet(Impact, A \cup B)
        BY <4>1, Zenon
      <4>. QED  BY <4>2, <4>3 DEF A, B
    <3>. HIDE DEF jobs, all, W, loads
    <3>. QED  BY <3>4, <3>5, <3>6, <3>7, <3>8
  <2>. QED  BY <2>1
<1>. HIDE DEF Right
<1>6. Nat \subseteq Right
  BY <1>4, <1>5, AllNumbers
<1>7. Cardinality(U) \in Right
  BY <1>2, <1>6
<1>8. jobs(U) <= all(U)
  <2>. HIDE DEF jobs, all
  <2>. QED  BY <1>7 DEF Right
<1>. QED  BY <1>3, <1>8

(* What a limit counts includes the tasks of the group that the cycle sees at work. *)
LEMMA AllCounted ==
  ASSUME NEW active \in SUBSET Tasks, NEW S \in SUBSET active, NEW at, NEW up \in SUBSET Instances,
         WellPlaced(S, at), SeenBy(S, at, up), NEW g \in DOMAIN Groups \ {ControlPlane}
  PROVE  /\ OfGroup(S, at, g) \in SUBSET Tasks
         /\ JobsIn(active, at, g, up) \in Nat /\ ForksIn(active, at, g, up) \in Nat
         /\ Cardinality(OfGroup(S, at, g)) <= JobsIn(active, at, g, up)
         /\ SumFunctionOnSet(Impact, OfGroup(S, at, g)) <= ForksIn(active, at, g, up)
<1>. DEFINE J == OfGroup(S, at, g)
<1>0. J \in SUBSET S /\ J \in SUBSET Tasks
  BY DEF OfGroup
<1>1. CASE g \in ContainerGroups
  <2>1. J \in SUBSET OfGroup(active, at, g) /\ OfGroup(active, at, g) \in SUBSET Tasks
    BY DEF OfGroup
  <2>2. /\ JobsIn(active, at, g, up) = Cardinality(OfGroup(active, at, g))
        /\ ForksIn(active, at, g, up) = SumFunctionOnSet(Impact, OfGroup(active, at, g))
    BY <1>1 DEF JobsIn, ForksIn
  <2>. HIDE DEF J
  <2>3. /\ Cardinality(OfGroup(active, at, g)) \in Nat
        /\ SumFunctionOnSet(Impact, OfGroup(active, at, g)) \in Nat
        /\ Cardinality(J) <= Cardinality(OfGroup(active, at, g))
        /\ SumFunctionOnSet(Impact, J) <= SumFunctionOnSet(Impact, OfGroup(active, at, g))
    BY <2>1, SetsOfTasks
  <2>. QED  BY <1>0, <2>2, <2>3 DEF J
<1>2. CASE g \notin ContainerGroups
  <2>. DEFINE U == Groups[g] \cap up
              R == UNION {RunsOn(active, at, i) : i \in U}
              T == {t \in active : at[t].node \in U /\ Executes(at[t].node)}
  <2>1. U \in SUBSET Instances
    BY TaskTypes
  <2>2. R = T /\ R \in SUBSET Tasks
    BY DEF RunsOn
  <2>3. ASSUME NEW t \in J  PROVE t \in T
    <3>1. t \in S /\ t \in active /\ at[t].group = g
      BY DEF OfGroup
    <3>2. at[t].node \in Groups[g] /\ Executes(at[t].node)
      BY <1>2, <3>1 DEF WellPlaced
    <3>3. at[t].node \in up
      BY <2>1, <3>1, <3>2, TaskTypes DEF SeenBy
    <3>. QED  BY <3>1, <3>2, <3>3
  <2>4. /\ JobsIn(active, at, g, up) = Cardinality(T)
        /\ ForksIn(active, at, g, up) = SumFunctionOnSet([i \in Instances |-> Load(active, at, i)], U)
    <3>1. JobsIn(active, at, g, up) = Cardinality(R)
      BY <1>2 DEF JobsIn
    <3>2. ForksIn(active, at, g, up) = SumFunctionOnSet([i \in Instances |-> Load(active, at, i)], U)
      BY <1>2 DEF ForksIn
    <3>. HIDE DEF R, T, U
    <3>. QED  BY <2>2, <3>1, <3>2
  <2>5. /\ SumFunctionOnSet([i \in Instances |-> Load(active, at, i)], U) \in Nat
        /\ SumFunctionOnSet(Impact, T) <= SumFunctionOnSet([i \in Instances |-> Load(active, at, i)], U)
    <3>. HIDE DEF U
    <3>. QED  BY <2>1, LoadsCover
  <2>6. J \in SUBSET T /\ T \in SUBSET Tasks
    BY <2>2, <2>3
  <2>. HIDE DEF J, T, U
  <2>7. /\ Cardinality(T) \in Nat /\ SumFunctionOnSet(Impact, T) \in Nat
        /\ SumFunctionOnSet(Impact, J) \in Nat
        /\ Cardinality(J) <= Cardinality(T) /\ SumFunctionOnSet(Impact, J) <= SumFunctionOnSet(Impact, T)
    BY <1>0, <2>6, SetsOfTasks
  <2>8. SumFunctionOnSet(Impact, J) <= ForksIn(active, at, g, up) /\ ForksIn(active, at, g, up) \in Nat
    BY <2>4, <2>5, <2>7
  <2>. QED  BY <1>0, <2>4, <2>7, <2>8 DEF J
<1>. QED  BY <1>1, <1>2

(* The limits hold with one more task at a good place, and with fewer. *)
LEMMA LimitMore ==
  ASSUME NEW active \in SUBSET Tasks, NEW S \in SUBSET active, NEW t \in Tasks, t \notin active,
         NEW at \in [Tasks -> PlaceType], NEW p \in PlaceType, NEW at2, With(at2, at, t, p),
         NEW up \in SUBSET Instances, GoodPlace(p, t, active, at, up),
         WellPlaced(S, at), SeenBy(S, at, up), WithinLimits(S, at)
  PROVE  WellPlaced(S \cup {t}, at2) /\ SeenBy(S \cup {t}, at2, up) /\ WithinLimits(S \cup {t}, at2)
<1>1. at2[t] = p /\ t \notin S /\ \A u \in S : at2[u] = at[u]
  BY DEF With
<1>2. WellPlaced(S \cup {t}, at2) /\ SeenBy(S \cup {t}, at2, up)
  BY <1>1 DEF GoodPlace, WellPlaced, SeenBy
<1>3. ASSUME NEW g \in DOMAIN Groups \ {ControlPlane}
      PROVE  /\ MaxJobs[g] > 0 => Cardinality(OfGroup(S \cup {t}, at2, g)) <= MaxJobs[g]
             /\ MaxForks[g] > 0 => SumFunctionOnSet(Impact, OfGroup(S \cup {t}, at2, g)) <= MaxForks[g]
  <2>1. CASE p.group = g
    <3>1. OfGroup(S \cup {t}, at2, g) = OfGroup(S, at, g) \cup {t} /\ t \notin OfGroup(S, at, g)
      BY <1>1, <2>1 DEF OfGroup
    <3>. DEFINE J == OfGroup(S, at, g)
                K == OfGroup(S \cup {t}, at2, g)
                x == JobsIn(active, at, g, up)
                y == ForksIn(active, at, g, up)
    <3>2. /\ J \in SUBSET Tasks /\ x \in Nat /\ y \in Nat
          /\ Cardinality(J) <= x /\ SumFunctionOnSet(Impact, J) <= y
      BY AllCounted
    <3>3. /\ MaxJobs[g] = 0 \/ x + 1 <= MaxJobs[g]
          /\ MaxForks[g] = 0 \/ y + Impact[t] <= MaxForks[g]
      BY <2>1 DEF GoodPlace, HasRemainingCapacity
    <3>. HIDE DEF J, K, x, y
    <3>4. /\ Cardinality(J \cup {t}) = Cardinality(J) + 1
          /\ SumFunctionOnSet(Impact, J \cup {t}) = SumFunctionOnSet(Impact, J) + Impact[t]
      BY <3>1, <3>2, TaskAdded DEF J
    <3>5. K = J \cup {t}
      BY <3>1 DEF J, K
    <3>6. /\ Cardinality(K) = Cardinality(J) + 1
          /\ SumFunctionOnSet(Impact, K) = SumFunctionOnSet(Impact, J) + Impact[t]
      BY <3>4, <3>5, Zenon
    <3>7. /\ Cardinality(J) \in Nat /\ SumFunctionOnSet(Impact, J) \in Nat /\ Impact[t] \in Nat
          /\ MaxJobs[g] \in Nat /\ MaxForks[g] \in Nat
      BY <3>2, SetsOfTasks, TaskTypes
    <3>8. /\ MaxJobs[g] > 0 => Cardinality(K) <= MaxJobs[g]
          /\ MaxForks[g] > 0 => SumFunctionOnSet(Impact, K) <= MaxForks[g]
      BY <3>2, <3>3, <3>6, <3>7
    <3>. QED  BY <3>8 DEF K
  <2>2. CASE p.group # g
    <3>1. OfGroup(S \cup {t}, at2, g) = OfGroup(S, at, g)
      BY <1>1, <2>2 DEF OfGroup
    <3>2. /\ MaxJobs[g] > 0 => Cardinality(OfGroup(S, at, g)) <= MaxJobs[g]
          /\ MaxForks[g] > 0 => SumFunctionOnSet(Impact, OfGroup(S, at, g)) <= MaxForks[g]
      BY DEF WithinLimits
    <3>. QED  BY <3>1, <3>2, Zenon
  <2>. QED  BY <2>1, <2>2
<1>. QED  BY <1>2, <1>3 DEF WithinLimits

LEMMA LimitPart ==
  ASSUME NEW T \in SUBSET Tasks, NEW S \in SUBSET T, NEW at, NEW at2, \A t \in S : at2[t] = at[t]
  PROVE  /\ WellPlaced(T, at) => WellPlaced(S, at2)
         /\ \A up : SeenBy(T, at, up) => SeenBy(S, at2, up)
         /\ WithinLimits(T, at) => WithinLimits(S, at2)
<1>1. WellPlaced(T, at) => WellPlaced(S, at2)
  BY DEF WellPlaced
<1>2. \A up : SeenBy(T, at, up) => SeenBy(S, at2, up)
  BY DEF SeenBy
<1>3. ASSUME WithinLimits(T, at), NEW g \in DOMAIN Groups \ {ControlPlane}
      PROVE  /\ MaxJobs[g] > 0 => Cardinality(OfGroup(S, at2, g)) <= MaxJobs[g]
             /\ MaxForks[g] > 0 => SumFunctionOnSet(Impact, OfGroup(S, at2, g)) <= MaxForks[g]
  <2>. DEFINE J == OfGroup(S, at2, g)
              K == OfGroup(T, at, g)
  <2>1. J \in SUBSET K /\ K \in SUBSET Tasks /\ J \in SUBSET Tasks
    BY DEF OfGroup
  <2>2. /\ MaxJobs[g] > 0 => Cardinality(K) <= MaxJobs[g]
        /\ MaxForks[g] > 0 => SumFunctionOnSet(Impact, K) <= MaxForks[g]
    BY <1>3 DEF WithinLimits
  <2>. HIDE DEF J, K
  <2>3. /\ Cardinality(J) <= Cardinality(K) /\ SumFunctionOnSet(Impact, J) <= SumFunctionOnSet(Impact, K)
        /\ Cardinality(J) \in Nat /\ Cardinality(K) \in Nat
        /\ SumFunctionOnSet(Impact, J) \in Nat /\ SumFunctionOnSet(Impact, K) \in Nat
        /\ MaxJobs[g] \in Nat /\ MaxForks[g] \in Nat
    BY <2>1, SetsOfTasks, TaskTypes
  <2>4. /\ MaxJobs[g] > 0 => Cardinality(J) <= MaxJobs[g]
        /\ MaxForks[g] > 0 => SumFunctionOnSet(Impact, J) <= MaxForks[g]
    BY <2>2, <2>3
  <2>. QED  BY <2>4 DEF J
<1>4. WithinLimits(T, at) => WithinLimits(S, at2)
  BY <1>3 DEF WithinLimits
<1>. QED  BY <1>1, <1>2, <1>4

-----------------------------------------------------------------------------
(* A whole cycle. *)

(* The tasks one after the other. *)
Begin(active) == [active |-> active, at |-> place, left |-> StartLimit]
OneByOne(done, active, pending) ==
  done = [k \in 0 .. NTasks |->
            IF k = 0 THEN Begin(active)
            ELSE IF k \in pending THEN Process(done[k - 1], k) ELSE done[k - 1]]

(* The recursive function exists, since each value depends on the one before. *)
LEMMA OneByOneExists ==
  ASSUME NEW active, NEW pending
  PROVE  \E done : OneByOne(done, active, pending)
<1>. DEFINE Then(f, k) == IF k = 0 THEN Begin(active)
                         ELSE IF k \in pending THEN Process(f[k - 1], k) ELSE f[k - 1]
            Upto(f, n) == /\ f = [k \in 0 .. NTasks |-> f[k]]
                          /\ \A k \in 0 .. NTasks : k <= n => f[k] = Then(f, k)
            Reached == {n \in Nat : \E f : Upto(f, n)}
<1>0. NTasks \in Nat
  BY TaskTypes
<1>1. 0 \in Reached
  <2>. DEFINE f == [k \in 0 .. NTasks |-> Begin(active)]
  <2>1. Upto(f, 0)
    BY <1>0
  <2>. HIDE DEF f, Upto
  <2>. QED  BY <2>1
<1>2. ASSUME NEW n \in Nat, n \in Reached  PROVE n + 1 \in Reached
  <2>1. PICK f : Upto(f, n)
    BY <1>2
  <2>. DEFINE g == [k \in 0 .. NTasks |-> IF k <= n THEN f[k] ELSE Then(f, k)]
  <2>2. ASSUME NEW k \in 0 .. NTasks, k <= n + 1  PROVE g[k] = Then(g, k)
    <3>1. CASE k = 0
      BY <1>0, <2>1, <3>1
    <3>2. CASE k # 0
      <4>1. k - 1 \in 0 .. NTasks /\ k - 1 <= n
        BY <1>0, <2>2, <3>2
      <4>2. g[k - 1] = f[k - 1]
        BY <4>1
      <4>3. g[k] = Then(f, k)
        BY <2>1
      <4>. QED  BY <4>2, <4>3
    <3>. QED  BY <3>1, <3>2
  <2>3. Upto(g, n + 1)
    BY <2>2
  <2>. HIDE DEF g, Upto
  <2>. QED  BY <2>3
<1>3. NTasks \in Reached
  <2>. HIDE DEF Reached
  <2>1. Nat \subseteq Reached
    BY <1>1, <1>2, AllNumbers
  <2>. QED  BY <1>0, <2>1
<1>4. PICK f : Upto(f, NTasks)
  BY <1>3
<1>5. ASSUME NEW k \in 0 .. NTasks  PROVE f[k] = Then(f, k)
  <2>1. k <= NTasks
    BY <1>0
  <2>. HIDE DEF Then
  <2>. QED  BY <1>4, <2>1
<1>. QED  BY <1>4, <1>5 DEF OneByOne

LEMMA PlacedIs ==
  ASSUME NEW active, NEW pending
  PROVE  \E done : OneByOne(done, active, pending) /\ Placed(active, pending) = done[NTasks]
<1>. DEFINE done == CHOOSE f : OneByOne(f, active, pending)
<1>1. OneByOne(done, active, pending)
  BY OneByOneExists
<1>2. Placed(active, pending) = done[NTasks]
  BY DEF Placed, OneByOne, Begin
<1>. HIDE DEF done
<1>. QED  BY <1>1, <1>2

(* What the cycle has placed after the task k. *)
Started(done) == done.active \ cycle.active
Working(done) == (ActiveTasks \ overlooked) \cup Started(done)
DoneOK(done, k) ==
  /\ done.active \in SUBSET Tasks /\ done.at \in [Tasks -> PlaceType] /\ done.left \in Nat
  /\ cycle.active \subseteq done.active
  /\ Started(done) \subseteq {t \in cycle.pending : t <= k}
  /\ \A t \in Tasks \ Started(done) : done.at[t] = place[t]
  /\ AllCarried(done.active, done.at)
  /\ WellPlaced(Working(done), done.at) /\ SeenBy(Working(done), done.at, cycle.ready)
  /\ \A t \in Started(done) : done.at[t].group \in DOMAIN Groups
  /\ WithinLimits(Working(done), done.at)

LEMMA BeginOK ==
  ASSUME CapacityInvariant, cycle.on
  PROVE  DoneOK(Begin(cycle.active), 0)
<1>. DEFINE done == Begin(cycle.active)
<1>1. done.active = cycle.active /\ done.at = place /\ done.left = StartLimit
  BY DEF Begin
<1>2. Started(done) = {} /\ Working(done) = ActiveTasks \ overlooked
  BY <1>1 DEF Started, Working
<1>. HIDE DEF done
<1>3. /\ cycle.active \in SUBSET Tasks /\ place \in [Tasks -> PlaceType] /\ StartLimit \in Nat
      /\ ActiveTasks \in SUBSET Tasks
  BY CapacityAssumption DEF CapacityInvariant, CapacityTypeOK, PlaceType, ActiveTasks, WithStatus
<1>4. WellPlaced(ActiveTasks \ overlooked, place)
  BY DEF CapacityInvariant, WellPlaced
<1>5. /\ AllCarried(cycle.active, place) /\ WithinLimits(ActiveTasks \ overlooked, place)
      /\ SeenBy(ActiveTasks \ overlooked, place, cycle.ready)
  BY DEF CapacityInvariant, CycleKept
<1>6. DoneOK(done, 0)
  BY <1>1, <1>2, <1>3, <1>4, <1>5, Zenon DEF DoneOK
<1>. QED  BY <1>6 DEF done

LEMMA ProcessOK ==
  ASSUME CapacityInvariant, cycle.on, NEW k \in Tasks, k \in cycle.pending,
         NEW done, DoneOK(done, k - 1)
  PROVE  DoneOK(Process(done, k), k)
<1>. DEFINE p == PlaceWith(ControllerFor(k, done.active, done.at, cycle.ready),
                           k, done.active, done.at, cycle.ready)
            next == [active |-> done.active \cup {k}, at |-> [done.at EXCEPT ![k] = p],
                     left |-> done.left - 1]
<1>0. /\ k \in Nat /\ done.active \in SUBSET Tasks /\ done.at \in [Tasks -> PlaceType]
      /\ done.left \in Nat /\ cycle.ready \in SUBSET Instances
      /\ cycle.pending \subseteq WithStatus({"pending"})
      /\ ActiveTasks \subseteq cycle.active /\ cycle.active \subseteq WithStatus({"active", "done"})
      /\ cycle.active \subseteq done.active
  BY TaskTypes DEF DoneOK, CapacityInvariant, CapacityTypeOK, CycleKept
<1>1. k \notin done.active /\ k \notin cycle.active
  <2>1. k \notin cycle.active
    BY <1>0 DEF WithStatus
  <2>2. k \notin Started(done)
    BY <1>0 DEF DoneOK
  <2>. QED  BY <2>1, <2>2 DEF Started
<1>2. CASE done.left = 0 \/ p = Unplaced
  <2>1. Process(done, k) = done
    BY <1>2 DEF Process, Add
  <2>2. Started(done) \subseteq {t \in cycle.pending : t <= k}
    <3>1. cycle.pending \subseteq Nat
      BY <1>0, TaskTypes DEF WithStatus
    <3>. QED  BY <1>0, <3>1 DEF DoneOK
  <2>. QED  BY <2>1, <2>2 DEF DoneOK
<1>3. CASE ~(done.left = 0 \/ p = Unplaced)
  <2>1. Process(done, k) = next
    BY <1>3 DEF Process, Add
  <2>2. GoodPlace(p, k, done.active, done.at, cycle.ready)
    <3>1. p # Unplaced
      BY <1>3
    <3>. QED  BY <1>0, <3>1, Chosen
  <2>. HIDE DEF p
  <2>3. p \in PlaceType /\ Fits(p, k, done.active, done.at) /\ p.group \in DOMAIN Groups
    BY <2>2 DEF GoodPlace
  <2>4. /\ next.active = done.active \cup {k} /\ With(next.at, done.at, k, p)
        /\ next.left = done.left - 1 /\ next.at = [done.at EXCEPT ![k] = p]
    BY DEF With
  <2>. HIDE DEF next
  <2>5. /\ Started(next) = Started(done) \cup {k} /\ Working(next) = Working(done) \cup {k}
        /\ k \notin Started(done) /\ Working(done) \in SUBSET done.active
    BY <1>0, <1>1, <2>4 DEF Started, Working
  <2>6. AllCarried(next.active, next.at)
    <3>1. AllCarried(done.active \cup {k}, next.at)
      BY <1>0, <1>1, <2>3, <2>4, CarriedMore DEF DoneOK
    <3>. QED  BY <2>4, <3>1
  <2>7. /\ WellPlaced(Working(next), next.at) /\ SeenBy(Working(next), next.at, cycle.ready)
        /\ WithinLimits(Working(next), next.at)
    <3>1. /\ WellPlaced(Working(done), done.at) /\ SeenBy(Working(done), done.at, cycle.ready)
          /\ WithinLimits(Working(done), done.at)
      BY DEF DoneOK
    <3>2. /\ WellPlaced(Working(done) \cup {k}, next.at)
          /\ SeenBy(Working(done) \cup {k}, next.at, cycle.ready)
          /\ WithinLimits(Working(done) \cup {k}, next.at)
      BY <1>0, <1>1, <2>2, <2>3, <2>4, <2>5, <3>1, LimitMore, Zenon
    <3>. QED  BY <2>5, <3>2
  <2>8. /\ next.active \in SUBSET Tasks /\ next.at \in [Tasks -> PlaceType] /\ next.left \in Nat
        /\ cycle.active \subseteq next.active
    BY <1>0, <1>3, <2>3, <2>4
  <2>9. Started(next) \subseteq {t \in cycle.pending : t <= k}
    <3>1. cycle.pending \subseteq Nat
      BY <1>0, TaskTypes DEF WithStatus
    <3>. QED  BY <1>0, <2>5, <3>1 DEF DoneOK
  <2>10. \A t \in Tasks \ Started(next) : next.at[t] = place[t]
    BY <1>0, <2>4, <2>5 DEF DoneOK
  <2>11. \A t \in Started(next) : next.at[t].group \in DOMAIN Groups
    <3>1. Started(next) \subseteq Tasks
      BY <2>8 DEF Started
    <3>. QED  BY <1>0, <2>3, <2>4, <2>5, <3>1 DEF DoneOK
  <2>12. DoneOK(next, k)
    BY <2>6, <2>7, <2>8, <2>9, <2>10, <2>11 DEF DoneOK
  <2>. QED  BY <2>1, <2>12
<1>. QED  BY <1>2, <1>3

LEMMA PlacedOK ==
  ASSUME CapacityInvariant, cycle.on
  PROVE  DoneOK(Placed(cycle.active, cycle.pending), NTasks)
<1>1. PICK done : /\ OneByOne(done, cycle.active, cycle.pending)
                  /\ Placed(cycle.active, cycle.pending) = done[NTasks]
  BY PlacedIs
<1>. DEFINE Right == {n \in Nat : n <= NTasks => DoneOK(done[n], n)}
<1>2. NTasks \in Nat
  BY TaskTypes
<1>3. 0 \in Right
  <2>1. done[0] = Begin(cycle.active)
    BY <1>1, <1>2 DEF OneByOne
  <2>. QED  BY <2>1, BeginOK
<1>4. ASSUME NEW n \in Nat, n \in Right  PROVE n + 1 \in Right
  <2>. SUFFICES ASSUME n + 1 <= NTasks  PROVE DoneOK(done[n + 1], n + 1)
    OBVIOUS
  <2>. DEFINE k == n + 1
  <2>1. k \in Tasks /\ k \in 0 .. NTasks /\ k # 0 /\ k - 1 = n
    BY <1>2 DEF Tasks
  <2>2. DoneOK(done[n], n)
    BY <1>2, <1>4
  <2>3. done[k] = IF k \in cycle.pending THEN Process(done[n], k) ELSE done[n]
    BY <1>1, <2>1 DEF OneByOne
  <2>. HIDE DEF k
  <2>4. CASE k \in cycle.pending
    <3>1. DoneOK(done[n], k - 1)
      BY <2>1, <2>2
    <3>2. DoneOK(Process(done[n], k), k)
      BY <2>1, <2>4, <3>1, ProcessOK
    <3>. QED  BY <2>3, <2>4, <3>2 DEF k
  <2>5. CASE k \notin cycle.pending
    <3>1. cycle.pending \subseteq Nat /\ k \in Nat
      BY <2>1, TaskTypes DEF CapacityInvariant, CapacityTypeOK, CycleKept, WithStatus
    <3>2. Started(done[n]) \subseteq {t \in cycle.pending : t <= k}
      BY <2>1, <2>2, <3>1 DEF DoneOK
    <3>3. DoneOK(done[n], k)
      BY <2>2, <3>2 DEF DoneOK
    <3>. QED  BY <2>3, <2>5, <3>3 DEF k
  <2>. QED  BY <2>4, <2>5
<1>. HIDE DEF Right
<1>5. Nat \subseteq Right
  BY <1>3, <1>4, AllNumbers
<1>6. NTasks \in Right
  BY <1>2, <1>5
<1>. QED  BY <1>1, <1>2, <1>6 DEF Right

-----------------------------------------------------------------------------
(* The steps. *)

LEMMA CapacityInitially == CapacityInit => CapacityInvariant
<1>. SUFFICES ASSUME CapacityInit  PROVE CapacityInvariant
  OBVIOUS
<1>1. ActiveTasks = {} /\ cycle.on = FALSE
  BY DEF CapacityInit, ActiveTasks, WithStatus, NoCapCycle
<1>2. CapacityTypeOK
  BY <1>1 DEF CapacityInit, CapacityTypeOK, Unplaced, NoCapCycle
<1>3. \A i \in Instances : Load({}, place, i) = 0
  <2>1. SumFunctionOnSet(Impact, {}) = 0 /\ Cardinality({}) = 0
    BY TaskTypes, SumFacts, FS_EmptySet
  <2>. SUFFICES ASSUME NEW i \in Instances  PROVE Load({}, place, i) = 0
    OBVIOUS
  <2>2. RunsOn({}, place, i) = {} /\ ControlledBy({}, place, i) = {}
    BY DEF RunsOn, ControlledBy
  <2>3. Load({}, place, i) = SumFunctionOnSet(Impact, {}) + ControlImpact * Cardinality({})
    <3>1. {} \in SUBSET Tasks
      OBVIOUS
    <3>. QED  BY <2>2, <3>1, LoadType
  <2>. QED  BY <2>1, <2>3, TaskTypes
<1>4. AllCarried({}, place)
  BY <1>3, TaskTypes DEF AllCarried, Carried
<1>5. WellPlaced({}, place) /\ WithinLimits({}, place)
  <2>1. SumFunctionOnSet(Impact, {}) = 0 /\ Cardinality({}) = 0
    BY TaskTypes, SumFacts, FS_EmptySet
  <2>2. \A g : OfGroup({}, place, g) = {}
    BY DEF OfGroup
  <2>3. ASSUME NEW g \in DOMAIN Groups \ {ControlPlane}
        PROVE  /\ MaxJobs[g] > 0 => Cardinality(OfGroup({}, place, g)) <= MaxJobs[g]
               /\ MaxForks[g] > 0 => SumFunctionOnSet(Impact, OfGroup({}, place, g)) <= MaxForks[g]
    <3>1. MaxJobs[g] \in Nat /\ MaxForks[g] \in Nat
      BY TaskTypes
    <3>2. /\ Cardinality(OfGroup({}, place, g)) = 0
          /\ SumFunctionOnSet(Impact, OfGroup({}, place, g)) = 0
      BY <2>1, <2>2
    <3>. QED  BY <3>1, <3>2
  <2>4. WithinLimits({}, place)
    BY <2>3 DEF WithinLimits
  <2>. QED  BY <2>4 DEF WellPlaced
<1>6. ActiveTasks \ overlooked = {}
  BY <1>1
<1>. QED  BY <1>1, <1>2, <1>4, <1>5, <1>6 DEF CapacityInvariant, CycleKept

LEMMA ActiveIn ==
  ASSUME CapacityTypeOK
  PROVE  /\ ActiveTasks \in SUBSET Tasks /\ place \in [Tasks -> PlaceType]
         /\ overlooked \subseteq ActiveTasks
  BY DEF CapacityTypeOK, PlaceType, ActiveTasks, WithStatus

(* A cycle starts with what the rows say, and forgets the tasks on instances that
   are not ready. *)
LEMMA BeginStep ==
  ASSUME CapacityInvariant, BeginCapacityCycle
  PROVE  CapacityInvariant'
<1>1. /\ ActiveTasks' = ActiveTasks /\ place' = place /\ status' = status /\ ready' = ready
      /\ cycle' = [on |-> TRUE, ready |-> ready, active |-> ActiveTasks,
                   pending |-> WithStatus({"pending"})]
      /\ overlooked' = overlooked \cup {t \in ActiveTasks : place[t].node \in Instances \ ready}
  BY DEF BeginCapacityCycle, ActiveTasks, WithStatus
<1>2. CapacityTypeOK'
  <2>1. CapacityTypeOK
    BY DEF CapacityInvariant
  <2>2. WithStatus({"pending"}) \in SUBSET Tasks /\ overlooked' \subseteq ActiveTasks'
    BY <1>1, <2>1, ActiveIn DEF WithStatus
  <2>. QED  BY <1>1, <2>1, <2>2, ActiveIn DEF CapacityTypeOK
<1>3. AllCarried(ActiveTasks, place)' /\ WellPlaced(ActiveTasks, place)'
  <2>1. AllCarried(ActiveTasks, place) /\ WellPlaced(ActiveTasks, place)
    BY DEF CapacityInvariant
  <2>2. AllCarried(ActiveTasks', place') /\ WellPlaced(ActiveTasks', place')
    BY <1>1, <2>1
  <2>. QED  BY <2>2 DEF AllCarried, Carried, WellPlaced, Load, RunsOn
<1>4. WithinLimits(ActiveTasks \ overlooked, place)'
  <2>1. /\ ActiveTasks \ overlooked \in SUBSET Tasks
        /\ ActiveTasks' \ overlooked' \in SUBSET (ActiveTasks \ overlooked)
        /\ \A t \in ActiveTasks' \ overlooked' : place'[t] = place[t]
    BY <1>1, ActiveIn DEF CapacityInvariant
  <2>2. WithinLimits(ActiveTasks' \ overlooked', place')
    BY <2>1, LimitPart DEF CapacityInvariant
  <2>. QED  BY <2>2 DEF WithinLimits, OfGroup
<1>5. CycleKept'
  <2>1. cycle'.active = ActiveTasks' /\ cycle'.pending = WithStatus({"pending"})' /\ cycle'.ready = ready
    BY <1>1 DEF WithStatus
  <2>2. ActiveTasks' \subseteq WithStatus({"active", "done"})'
    BY DEF ActiveTasks, WithStatus
  <2>3. AllCarried(cycle.active, place)'
    <3>1. AllCarried(cycle'.active, place')
      BY <1>1, <2>1 DEF CapacityInvariant
    <3>. QED  BY <3>1 DEF AllCarried, Carried, Load, RunsOn
  <2>4. SeenBy(ActiveTasks \ overlooked, place, cycle.ready)'
    BY <1>1, <2>1 DEF SeenBy
  <2>. QED  BY <2>1, <2>2, <2>3, <2>4 DEF CycleKept
<1>. QED  BY <1>2, <1>3, <1>4, <1>5 DEF CapacityInvariant

(* The cycle commits what it has placed, while others may have ended. *)
LEMMA CommitStep ==
  ASSUME CapacityInvariant, CommitCapacityCycle
  PROVE  CapacityInvariant'
<1>. DEFINE done == Placed(cycle.active, cycle.pending)
            new == done.active \ cycle.active
<1>0. /\ cycle.on /\ cycle' = NoCapCycle /\ ready' = ready /\ overlooked' = overlooked
      /\ status' = [t \in Tasks |-> IF t \in new THEN "active" ELSE status[t]]
      /\ place' = [t \in Tasks |-> IF t \in new THEN done.at[t] ELSE place[t]]
  BY DEF CommitCapacityCycle
<1>1. DoneOK(done, NTasks)
  BY <1>0, PlacedOK
<1>. HIDE DEF done
<1>2. new = Started(done)
  BY DEF Started
<1>3. /\ CapacityTypeOK /\ WellPlaced(ActiveTasks, place) /\ CycleKept
      /\ ActiveTasks \in SUBSET Tasks /\ place \in [Tasks -> PlaceType] /\ overlooked \subseteq ActiveTasks
  BY ActiveIn DEF CapacityInvariant
<1>4. /\ done.active \in SUBSET Tasks /\ done.at \in [Tasks -> PlaceType]
      /\ cycle.active \subseteq done.active /\ new \subseteq cycle.pending
      /\ \A t \in Tasks \ new : done.at[t] = place[t]
  BY <1>1, <1>2 DEF DoneOK
<1>5. /\ cycle.pending \subseteq WithStatus({"pending"}) /\ ActiveTasks \subseteq cycle.active
  BY <1>0, <1>3 DEF CycleKept
<1>6. new \in SUBSET Tasks /\ new \cap ActiveTasks = {}
  BY <1>4, <1>5
<1>. HIDE DEF new
<1>7. ActiveTasks' = ActiveTasks \cup new
  BY <1>0, <1>6 DEF ActiveTasks, WithStatus
<1>8. ActiveTasks' \in SUBSET done.active
  BY <1>2, <1>4, <1>5, <1>7 DEF Started
<1>9. \A t \in Tasks : place'[t] = done.at[t]
  BY <1>0, <1>4
<1>10. CapacityTypeOK'
  <2>1. status' \in [Tasks -> {"new", "pending", "active", "done"}]
    BY <1>0, <1>3 DEF CapacityTypeOK
  <2>2. place' \in [Tasks -> PlaceType]
    BY <1>0, <1>3, <1>4
  <2>3. cycle' \in [on : BOOLEAN, active : SUBSET Tasks, pending : SUBSET Tasks,
                    ready : SUBSET Instances]
    BY <1>0 DEF NoCapCycle
  <2>4. overlooked' \subseteq ActiveTasks' /\ ready' \subseteq Instances
    BY <1>0, <1>3, <1>7 DEF CapacityTypeOK
  <2>. QED  BY <2>1, <2>2, <2>3, <2>4 DEF CapacityTypeOK, PlaceType
<1>11. AllCarried(ActiveTasks, place)'
  <2>1. \A t \in ActiveTasks' : place'[t] = done.at[t]
    BY <1>4, <1>8, <1>9
  <2>2. AllCarried(done.active, done.at)
    BY <1>1 DEF DoneOK
  <2>3. AllCarried(ActiveTasks', place')
    <3>. DEFINE T == done.active
                S == ActiveTasks'
                at == done.at
                at2 == place'
    <3>1. /\ T \in SUBSET Tasks /\ S \in SUBSET T /\ (\A t \in S : at2[t] = at[t])
          /\ AllCarried(T, at)
      BY <1>4, <1>8, <2>1, <2>2
    <3>. HIDE DEF T, S, at, at2
    <3>2. AllCarried(S, at2)
      BY <3>1, CarriedPart
    <3>. QED  BY <3>2 DEF S, at2
  <2>. QED  BY <2>3 DEF AllCarried, Carried, Load, RunsOn
<1>12. Working(done) = ActiveTasks' \ overlooked'
  BY <1>0, <1>2, <1>3, <1>6, <1>7 DEF Working
<1>13. WellPlaced(ActiveTasks, place)'
  <2>1. WellPlaced(Working(done), done.at)
    BY <1>1 DEF DoneOK
  <2>2. WellPlaced(ActiveTasks', place')
    <3>. SUFFICES ASSUME NEW t \in ActiveTasks'
                  PROVE  /\ place'[t].group \in DOMAIN Groups
                         /\ place'[t].group \notin ContainerGroups \cup {ControlPlane} =>
                              place'[t].node \in Groups[place'[t].group] /\ Executes(place'[t].node)
      BY DEF WellPlaced
    <3>1. CASE t \in new
      <4>1. t \in Working(done) /\ t \in Tasks
        BY <1>2, <1>6, <3>1 DEF Working
      <4>. QED  BY <1>9, <2>1, <4>1 DEF WellPlaced
    <3>2. CASE t \notin new
      <4>1. t \in ActiveTasks /\ t \in Tasks
        BY <1>3, <1>7, <3>2
      <4>2. place'[t] = place[t]
        BY <1>0, <3>2, <4>1
      <4>. QED  BY <1>3, <4>1, <4>2 DEF WellPlaced
    <3>. QED  BY <3>1, <3>2
  <2>. QED  BY <2>2 DEF WellPlaced
<1>14. WithinLimits(ActiveTasks \ overlooked, place)'
  <2>1. WithinLimits(Working(done), done.at)
    BY <1>1 DEF DoneOK
  <2>2. ActiveTasks' \ overlooked' \in SUBSET Tasks
    BY <1>4, <1>8
  <2>3. \A t \in ActiveTasks' \ overlooked' : place'[t] = done.at[t]
    BY <1>9, <2>2
  <2>4. WithinLimits(ActiveTasks' \ overlooked', done.at)
    BY <1>12, <2>1
  <2>5. WithinLimits(ActiveTasks' \ overlooked', place')
    <3>. DEFINE S == ActiveTasks' \ overlooked'
    <3>. HIDE DEF S
    <3>1. S \in SUBSET Tasks /\ S \in SUBSET S /\ (\A t \in S : place'[t] = done.at[t])
          /\ WithinLimits(S, done.at)
      BY <2>2, <2>3, <2>4 DEF S
    <3>2. WithinLimits(S, place')
      BY <3>1, LimitPart, Zenon
    <3>. QED  BY <3>2 DEF S
  <2>. QED  BY <2>5 DEF WithinLimits, OfGroup
<1>15. CycleKept'
  BY <1>0 DEF CycleKept, NoCapCycle
<1>. QED  BY <1>10, <1>11, <1>13, <1>14, <1>15 DEF CapacityInvariant

(* The tasks at work that a step takes away, with their places unchanged. *)
LEMMA FewerActive ==
  ASSUME CapacityInvariant, CapacityTypeOK', place' = place, cycle' = cycle,
         ActiveTasks' \subseteq ActiveTasks,
         ActiveTasks' \ overlooked' \subseteq ActiveTasks \ overlooked,
         cycle.on => /\ WithStatus({"pending"}) \subseteq WithStatus({"pending"})'
                     /\ WithStatus({"active", "done"}) \subseteq WithStatus({"active", "done"})'
  PROVE  CapacityInvariant'
<1>. DEFINE A == ActiveTasks'
            W == ActiveTasks' \ overlooked'
<1>1. /\ ActiveTasks \in SUBSET Tasks /\ A \in SUBSET ActiveTasks
      /\ ActiveTasks \ overlooked \in SUBSET Tasks /\ W \in SUBSET (ActiveTasks \ overlooked)
      /\ (\A t \in A : place'[t] = place[t]) /\ (\A t \in W : place'[t] = place[t])
      /\ AllCarried(ActiveTasks, place) /\ WellPlaced(ActiveTasks, place)
      /\ WithinLimits(ActiveTasks \ overlooked, place)
  BY ActiveIn DEF CapacityInvariant
<1>. HIDE DEF A, W
<1>2. AllCarried(A, place')
  BY <1>1, CarriedPart, Zenon
<1>3. WellPlaced(A, place')
  BY <1>1, LimitPart, Zenon
<1>4. WithinLimits(W, place')
  BY <1>1, LimitPart, Zenon
<1>5. /\ AllCarried(ActiveTasks, place)' /\ WellPlaced(ActiveTasks, place)'
      /\ WithinLimits(ActiveTasks \ overlooked, place)'
  <2>1. AllCarried(ActiveTasks', place') /\ WellPlaced(ActiveTasks', place')
        /\ WithinLimits(ActiveTasks' \ overlooked', place')
    BY <1>2, <1>3, <1>4 DEF A, W
  <2>. QED  BY <2>1 DEF AllCarried, Carried, Load, RunsOn, WellPlaced, WithinLimits, OfGroup
<1>6. CycleKept'
  <2>. SUFFICES ASSUME cycle.on  PROVE CycleKept'
    BY DEF CycleKept
  <2>1. /\ cycle.pending \subseteq WithStatus({"pending"})
        /\ ActiveTasks \subseteq cycle.active /\ cycle.active \subseteq WithStatus({"active", "done"})
        /\ AllCarried(cycle.active, place) /\ SeenBy(ActiveTasks \ overlooked, place, cycle.ready)
    BY DEF CapacityInvariant, CycleKept
  <2>2. SeenBy(W, place', cycle.ready)
    BY <1>1, <2>1, LimitPart, Zenon
  <2>3. cycle'.pending \subseteq WithStatus({"pending"})'
    BY <2>1
  <2>4. ActiveTasks' \subseteq cycle'.active /\ cycle'.active \subseteq WithStatus({"active", "done"})'
    BY <2>1
  <2>5. AllCarried(cycle.active, place)'
    <3>1. AllCarried(cycle'.active, place')
      BY <2>1
    <3>. QED  BY <3>1 DEF AllCarried, Carried, Load, RunsOn
  <2>6. SeenBy(ActiveTasks \ overlooked, place, cycle.ready)'
    <3>1. SeenBy(ActiveTasks' \ overlooked', place', cycle'.ready)
      BY <2>2 DEF W
    <3>. QED  BY <3>1 DEF SeenBy
  <2>. QED  BY <2>3, <2>4, <2>5, <2>6 DEF CycleKept
<1>. QED  BY <1>5, <1>6 DEF CapacityInvariant

LEMMA EndTaskStep ==
  ASSUME CapacityInvariant, NEW t \in Tasks, EndTask(t)
  PROVE  CapacityInvariant'
<1>1. /\ status[t] = "active" /\ status' = [status EXCEPT ![t] = "done"]
      /\ overlooked' = overlooked \ {t} /\ place' = place /\ ready' = ready /\ cycle' = cycle
      /\ CapacityTypeOK
  BY DEF EndTask, CapacityInvariant
<1>2. /\ ActiveTasks' = ActiveTasks \ {t}
      /\ WithStatus({"pending"}) \subseteq WithStatus({"pending"})'
      /\ WithStatus({"active", "done"}) \subseteq WithStatus({"active", "done"})'
  BY <1>1 DEF ActiveTasks, WithStatus, CapacityTypeOK
<1>3. CapacityTypeOK'
  <2>1. overlooked' \subseteq ActiveTasks'
    BY <1>1, <1>2 DEF CapacityTypeOK
  <2>. QED  BY <1>1, <2>1 DEF CapacityTypeOK
<1>. QED  BY <1>1, <1>2, <1>3, FewerActive

LEMMA LaunchTaskStep ==
  ASSUME CapacityInvariant, NEW t \in Tasks, LaunchTask(t)
  PROVE  CapacityInvariant'
<1>1. /\ status[t] = "new" /\ status' = [status EXCEPT ![t] = "pending"]
      /\ overlooked' = overlooked /\ place' = place /\ ready' = ready /\ cycle' = cycle
      /\ CapacityTypeOK
  BY DEF LaunchTask, CapacityInvariant
<1>2. /\ ActiveTasks' = ActiveTasks
      /\ WithStatus({"pending"}) \subseteq WithStatus({"pending"})'
      /\ WithStatus({"active", "done"}) \subseteq WithStatus({"active", "done"})'
  BY <1>1 DEF ActiveTasks, WithStatus, CapacityTypeOK
<1>3. CapacityTypeOK'
  <2>1. overlooked' \subseteq ActiveTasks'
    BY <1>1, <1>2 DEF CapacityTypeOK
  <2>. QED  BY <1>1, <2>1 DEF CapacityTypeOK
<1>. QED  BY <1>1, <1>2, <1>3, FewerActive

LEMMA ToggleStep ==
  ASSUME CapacityInvariant,
         (\E i \in Instances : Toggle(i)) \/ UNCHANGED capVars
  PROVE  CapacityInvariant'
<1>1. /\ status' = status /\ overlooked' = overlooked /\ place' = place /\ cycle' = cycle
      /\ ready' \subseteq Instances /\ CapacityTypeOK
  BY DEF Toggle, capVars, CapacityInvariant, CapacityTypeOK
<1>2. /\ ActiveTasks' = ActiveTasks /\ WithStatus({"pending"})' = WithStatus({"pending"})
      /\ WithStatus({"active", "done"})' = WithStatus({"active", "done"})
  BY <1>1 DEF ActiveTasks, WithStatus
<1>3. CapacityTypeOK'
  BY <1>1, <1>2 DEF CapacityTypeOK
<1>. QED  BY <1>1, <1>2, <1>3, FewerActive

LEMMA CapacityInvariance == CapacityInvariant /\ [CapacityNext]_capVars => CapacityInvariant'
<1>. SUFFICES ASSUME CapacityInvariant, [CapacityNext]_capVars  PROVE CapacityInvariant'
  OBVIOUS
<1>1. CASE BeginCapacityCycle
  BY <1>1, BeginStep
<1>2. CASE CommitCapacityCycle
  BY <1>2, CommitStep
<1>3. CASE \E t \in Tasks : LaunchTask(t) \/ EndTask(t)
  BY <1>3, LaunchTaskStep, EndTaskStep
<1>4. CASE (\E i \in Instances : Toggle(i)) \/ UNCHANGED capVars
  BY <1>4, ToggleStep
<1>. QED  BY <1>1, <1>2, <1>3, <1>4 DEF CapacityNext

LEMMA CapacityAlways == CapacitySpec => []CapacityInvariant
  BY CapacityInitially, CapacityInvariance, PTL DEF CapacitySpec

-----------------------------------------------------------------------------
(* Statuses, places, and what a cycle has read have their types. *)
THEOREM CapacityTypeCorrect == CapacitySpec => []CapacityTypeOK
<1>1. CapacityInvariant => CapacityTypeOK
  BY DEF CapacityInvariant
<1>. QED  BY <1>1, CapacityAlways, PTL

(* No instance carries more than its capacity, but for a single job that found it
   idle, for any tasks, instances and groups, and whatever ends or goes away while a
   cycle runs (task_manager_models.py, task_manager.py). *)
THEOREM CapacityKeptAlways == CapacitySpec => []CapacityKept
<1>1. CapacityInvariant => CapacityKept
  <2>. SUFFICES ASSUME CapacityInvariant, NEW i \in Instances,
                       Load(ActiveTasks, place, i) > CapacityOf[i]
                PROVE  Cardinality(RunsOn(ActiveTasks, place, i)) = 1
    BY DEF CapacityKept
  <2>1. /\ CapacityOf[i] \in Nat /\ Load(ActiveTasks, place, i) \in Nat
        /\ \/ Load(ActiveTasks, place, i) <= CapacityOf[i]
           \/ \E t \in ActiveTasks : RunsOn(ActiveTasks, place, i) = {t}
    <3>1. ActiveTasks \in SUBSET Tasks /\ AllCarried(ActiveTasks, place)
      BY ActiveIn DEF CapacityInvariant
    <3>2. CapacityOf[i] \in Nat /\ Load(ActiveTasks, place, i) \in Nat
      BY <3>1, TaskTypes, LoadType
    <3>3. \/ Load(ActiveTasks, place, i) <= CapacityOf[i]
          \/ \E t \in ActiveTasks : RunsOn(ActiveTasks, place, i) = {t}
      BY <3>1 DEF AllCarried, Carried
    <3>. QED  BY <3>2, <3>3
  <2>2. PICK t \in ActiveTasks : RunsOn(ActiveTasks, place, i) = {t}
    BY <2>1
  <2>3. Cardinality({t}) = 1
    BY FS_Singleton
  <2>. QED  BY <2>2, <2>3
<1>. QED  BY <1>1, CapacityAlways, PTL

(* The jobs of a group keep to max_concurrent_jobs and max_forks, but for those that
   a cycle could not see at work (task_manager_models.py). *)
THEOREM LimitKeptAlways == CapacitySpec => []LimitKept
<1>1. CapacityInvariant => LimitKept
  <2>. SUFFICES ASSUME CapacityInvariant, NEW g \in DOMAIN Groups \ {ControlPlane}
                PROVE  LET jobs == OfGroup(ActiveTasks, place, g) \ overlooked
                       IN /\ MaxJobs[g] > 0 => Cardinality(jobs) <= MaxJobs[g]
                          /\ MaxForks[g] > 0 => SumFunctionOnSet(Impact, jobs) <= MaxForks[g]
    BY DEF LimitKept
  <2>1. OfGroup(ActiveTasks, place, g) \ overlooked = OfGroup(ActiveTasks \ overlooked, place, g)
    BY DEF OfGroup
  <2>. QED  BY <2>1 DEF CapacityInvariant, WithinLimits
<1>. QED  BY <1>1, CapacityAlways, PTL
=============================================================================
