-------------------------- MODULE Schedules_proofs --------------------------
(***************************************************************************)
(* Safety of Schedules for any number of schedules and hosts, any rules,   *)
(* edits, crashes and starts: no run is launched twice, or out of order;   *)
(* and of a schedule that is not edited no run is left out but those that  *)
(* RunsKept names.                                                         *)
(***************************************************************************)
EXTENDS Schedules, WellFoundedInduction, SequenceTheorems, TLAPS

PlanRow == [rule : Rules, enabled : BOOLEAN, next : Nat]
Reading == UNION {[S -> PlanRow] : S \in SUBSET Plans}
RoundType == [at : {"off", "save", "overdue", "due", "spawn"}, last : Nat, now : Nat,
              rows : Reading, who : SUBSET Plans]

Types ==
  /\ time \in 0 .. MaxTime /\ lastRun \in 0 .. MaxTime
  /\ plan \in [Plans -> PlanRow] /\ round \in [Hosts -> RoundType]
  /\ boot \in [Hosts -> Reading] /\ spawned \in [Plans -> Seq(Nat)]

OneRound == \A h, k \in Hosts : round[h].at # "off" /\ round[k].at # "off" => h = k

(* What was launched lies before t. *)
Before(s, t) == \A i \in DOMAIN spawned[s] : spawned[s][i] < t
Past == lastRun <= time /\ \A s \in Plans : Before(s, lastRun)

(* A round works between the last round and its own begin, which is noted as the
   last before it launches anything; what it is going to launch comes after what was
   launched before. *)
Within(h) ==
  /\ round[h].last <= round[h].now /\ round[h].now <= time
  /\ lastRun = IF round[h].at = "save" THEN round[h].last ELSE round[h].now
  /\ round[h].at \in {"save", "overdue"} => \A s \in Plans : Before(s, round[h].last)
  /\ round[h].at \in {"due", "spawn"} =>
       \A s \in DOMAIN round[h].rows :
         round[h].rows[s].next < round[h].now /\ Before(s, round[h].rows[s].next)
  /\ round[h].at = "spawn" => round[h].who \subseteq DOMAIN round[h].rows
RoundsWithin == \A h \in Hosts : round[h].at # "off" => Within(h)

IInv == Types /\ OneRound /\ Past /\ RoundsWithin /\ LaunchedOnce

-----------------------------------------------------------------------------
(* The operators.                                                           *)

LEMMA LeastNat ==
  ASSUME NEW T \in SUBSET Nat, T # {}
  PROVE  Min(T) \in T /\ \A y \in T : Min(T) <= y
<1>1. PICK x \in T : \A y \in T : ~(<<y, x>> \in OpToRel(<, Nat))
  BY NatLessThanWellFounded, WFMin
<1>2. \A y \in T : x <= y
  <2>1. OpToRel(<, Nat) = {ss \in Nat \X Nat : ss[1] < ss[2]}
    BY Zenon DEF OpToRel
  <2>2. SUFFICES ASSUME NEW y \in T  PROVE x <= y
    OBVIOUS
  <2>3. x \in Nat /\ y \in Nat /\ <<y, x>> \in Nat \X Nat
    OBVIOUS
  <2>4. <<y, x>> \notin {ss \in Nat \X Nat : ss[1] < ss[2]}
    BY <1>1, <2>1
  <2>5. ~(y < x)
    BY <2>3, <2>4
  <2>. QED  BY <2>3, <2>5
<1>. QED  BY <1>2 DEF Min

LEMMA TimeType ==
  ASSUME Types
  PROVE  time \in Nat /\ lastRun \in Nat
  BY ScheduleAssumption DEF Types

LEMMA AfterLeast ==
  ASSUME NEW rule \in Rules, NEW t \in Nat
  PROVE  /\ After(rule, t) \in Nat
         /\ After(rule, t) = 0 \/ After(rule, t) > t
         /\ \A u \in rule : u < After(rule, t) \/ After(rule, t) = 0 => u <= t
<1>. DEFINE T == {u \in rule : u > t}
<1>1. T \in SUBSET Nat /\ rule \in SUBSET Nat
  BY ScheduleAssumption
<1>2. CASE T # {}
  <2>1. After(rule, t) = Min(T)
    BY <1>2 DEF After
  <2>. HIDE DEF T
  <2>2. Min(T) \in T /\ \A y \in T : Min(T) <= y
    BY <1>1, <1>2, LeastNat
  <2>. QED  BY <1>1, <2>1, <2>2 DEF T
<1>3. CASE T = {}
  BY <1>1, <1>3 DEF After
<1>. QED  BY <1>2, <1>3

LEMMA NextAfterLeast ==
  ASSUME NEW rule \in Rules, NEW t \in Nat
  PROVE  /\ NextAfter(rule, t) \in Nat
         /\ NextAfter(rule, t) = 0 \/ NextAfter(rule, t) > t
         /\ \A u \in rule \ Imaginary :
              u < NextAfter(rule, t) \/ NextAfter(rule, t) = 0 => u <= t
<1>1. PICK n \in Nat : n = After(rule, t)
  BY AfterLeast
<1>2. /\ rule \subseteq Nat
      /\ n = 0 \/ n > t
      /\ \A u \in rule : u < n \/ n = 0 => u <= t
  BY <1>1, AfterLeast, ScheduleAssumption
<1>3. CASE n \notin Imaginary
  <2>1. NextAfter(rule, t) = n
    BY <1>1, <1>3 DEF NextAfter
  <2>. QED  BY <1>2, <2>1
<1>4. CASE n \in Imaginary
  <2>1. PICK m \in Nat : m = After(rule, n)
    BY AfterLeast
  <2>2. NextAfter(rule, t) = m
    BY <1>1, <1>4, <2>1 DEF NextAfter
  <2>3. (m = 0 \/ m > n) /\ \A u \in rule : u < m \/ m = 0 => u <= n
    BY <2>1, AfterLeast
  <2>4. ASSUME NEW u \in rule \ Imaginary, u < m \/ m = 0  PROVE u <= t
    BY <1>2, <1>4, <2>3, <2>4
  <2>5. n # 0
    BY <1>4, ScheduleAssumption
  <2>. QED  BY <1>2, <2>2, <2>3, <2>4, <2>5
<1>. QED  BY <1>3, <1>4

LEMMA NextAfterType ==
  ASSUME NEW rule \in Rules, NEW t \in Nat
  PROVE  NextAfter(rule, t) \in Nat
  BY NextAfterLeast

LEMMA ReadType ==
  ASSUME Types, NEW S \in SUBSET Plans
  PROVE  /\ Read(S) \in Reading /\ DOMAIN Read(S) = S
         /\ \A s \in S : Read(S)[s] = plan[s]
  BY DEF Types, Read, Reading

LEMMA WithoutType ==
  ASSUME NEW rows \in Reading, NEW s
  PROVE  /\ Without(rows, s) \in Reading /\ DOMAIN Without(rows, s) = DOMAIN rows \ {s}
         /\ \A x \in DOMAIN rows \ {s} : Without(rows, s)[x] = rows[x]
<1>1. PICK S \in SUBSET Plans : rows \in [S -> PlanRow]
  BY DEF Reading
<1>2. S \ {s} \in SUBSET Plans /\ Without(rows, s) \in [S \ {s} -> PlanRow]
  BY <1>1 DEF Without
<1>3. Without(rows, s) \in Reading
  BY <1>2 DEF Reading
<1>. QED  BY <1>1, <1>3 DEF Without

LEMMA ReadingType ==
  ASSUME NEW rows \in Reading
  PROVE  DOMAIN rows \subseteq Plans /\ \A s \in DOMAIN rows : rows[s] \in PlanRow
  BY DEF Reading

LEMMA NoRoundType ==
  NoRound \in RoundType /\ NoRound.at = "off" /\ NoRows \in Reading
<1>1. NoRows \in Reading
  BY DEF NoRows, Reading
<1>. QED  BY <1>1 DEF NoRound, RoundType

(* A round that another step takes its place of leaves those of other hosts off. *)
LEMMA OthersOff ==
  ASSUME IInv, NEW h \in Hosts, round[h].at # "off" \/ \A k \in Hosts : round[k].at = "off",
         NEW r \in RoundType, round' = [round EXCEPT ![h] = r]
  PROVE  /\ OneRound' /\ round' \in [Hosts -> RoundType] /\ round'[h] = r
         /\ \A k \in Hosts \ {h} : round'[k].at = "off"
  BY DEF IInv, Types, OneRound

-----------------------------------------------------------------------------
LEMMA Initially == ScheduleInit => IInv
<1>. SUFFICES ASSUME ScheduleInit  PROVE IInv
  OBVIOUS
<1>1. \A r \in Rules : [rule |-> r, enabled |-> TRUE, next |-> NextAfter(r, 0)] \in PlanRow
  BY NextAfterType DEF PlanRow
<1>2. plan \in [Plans -> PlanRow]
  BY <1>1 DEF ScheduleInit
<1>3. Types
  BY <1>2, NoRoundType, ScheduleAssumption DEF ScheduleInit, Types
<1>4. \A s \in Plans : spawned[s] = <<>> /\ DOMAIN spawned[s] = {}
  BY DEF ScheduleInit
<1>5. OneRound /\ Past /\ RoundsWithin /\ LaunchedOnce
  BY <1>4, NoRoundType DEF ScheduleInit, OneRound, Past, Before, RoundsWithin, LaunchedOnce
<1>. QED  BY <1>3, <1>5 DEF IInv

-----------------------------------------------------------------------------
(* Time and users.                                                          *)

LEMMA TimeStep ==
  ASSUME IInv, TimeGoesOn
  PROVE  IInv'
<1>1. Types'
  BY ScheduleAssumption DEF TimeGoesOn, IInv, Types
<1>2. Past' /\ OneRound' /\ LaunchedOnce'
  BY ScheduleAssumption DEF TimeGoesOn, IInv, Types, Past, Before, OneRound, LaunchedOnce
<1>3. RoundsWithin'
  <2>1. \A h \in Hosts : round[h].now \in Nat
    BY DEF IInv, Types, RoundType
  <2>. QED  BY <2>1, ScheduleAssumption DEF TimeGoesOn, IInv, Types, RoundsWithin, Within, Before
<1>. QED  BY <1>1, <1>2, <1>3 DEF IInv

LEMMA EditStep ==
  ASSUME IInv, NEW s \in Plans, EditSchedule(s)
  PROVE  IInv'
<1>1. PICK rule \in Rules, enabled \in BOOLEAN :
        plan' = [plan EXCEPT ![s] = [rule |-> rule, enabled |-> enabled,
                                     next |-> IF enabled THEN NextAfter(rule, time) ELSE 0]]
  BY DEF EditSchedule
<1>2. (IF enabled THEN NextAfter(rule, time) ELSE 0) \in Nat
  <2>1. NextAfter(rule, time) \in Nat
    BY NextAfterType, TimeType DEF IInv
  <2>. QED  BY <2>1
<1>3. plan' \in [Plans -> PlanRow]
  BY <1>1, <1>2 DEF IInv, Types, PlanRow
<1>. QED  BY <1>3 DEF EditSchedule, IInv, Types, OneRound, Past, Before, RoundsWithin, Within,
                      LaunchedOnce

-----------------------------------------------------------------------------
(* A round.                                                                 *)

LEMMA BeginStep ==
  ASSUME IInv, NEW h \in Hosts, BeginRound(h)
  PROVE  IInv'
<1>. DEFINE r == [NoRound EXCEPT !.at = "save", !.last = lastRun, !.now = time]
<1>1. r \in RoundType /\ r.at = "save" /\ r.last = lastRun /\ r.now = time
  BY NoRoundType, TimeType DEF IInv, RoundType
<1>2. round' = [round EXCEPT ![h] = r] /\ \A k \in Hosts : round[k].at = "off"
  BY DEF BeginRound, Acquired
<1>. HIDE DEF r
<1>3. OneRound' /\ round' \in [Hosts -> RoundType] /\ round'[h] = r
      /\ \A k \in Hosts \ {h} : round'[k].at = "off"
  BY <1>1, <1>2, OthersOff
<1>4. RoundsWithin'
  <2>1. Within(h)'
    BY <1>1, <1>3, TimeType DEF BeginRound, IInv, Past, Before, Within
  <2>. QED  BY <1>3, <2>1 DEF RoundsWithin
<1>. QED  BY <1>3, <1>4 DEF BeginRound, IInv, Types, Past, Before, LaunchedOnce

LEMMA SaveStep ==
  ASSUME IInv, NEW h \in Hosts, SaveLastRun(h)
  PROVE  IInv'
<1>. DEFINE r == [round[h] EXCEPT !.at = "overdue", !.rows = Read(Overdue(round[h].last))]
<1>1. Overdue(round[h].last) \in SUBSET Plans
  BY DEF Overdue, Enabled
<1>2. round[h] \in RoundType /\ Within(h) /\ round[h].at = "save"
  BY DEF SaveLastRun, IInv, Types, RoundsWithin
<1>3. r \in RoundType /\ r.at = "overdue" /\ r.last = round[h].last /\ r.now = round[h].now
  BY <1>1, <1>2, ReadType DEF IInv, RoundType
<1>4. round' = [round EXCEPT ![h] = r]
  BY DEF SaveLastRun
<1>. HIDE DEF r
<1>5. OneRound' /\ round' \in [Hosts -> RoundType] /\ round'[h] = r
      /\ \A k \in Hosts \ {h} : round'[k].at = "off"
  BY <1>2, <1>3, <1>4, OthersOff
<1>6. lastRun' = round[h].now /\ round[h].now \in 0 .. MaxTime /\ lastRun <= lastRun' /\ lastRun' <= time
      /\ round[h].last \in Nat
  BY <1>2, ScheduleAssumption DEF SaveLastRun, IInv, Types, Within, RoundType
<1>7. Types'
  BY <1>5, <1>6 DEF SaveLastRun, IInv, Types
<1>8. Past'
  <2>1. \A s \in Plans : \A i \in DOMAIN spawned[s] : spawned[s][i] \in Nat
    BY DEF IInv, Types
  <2>. QED  BY <1>6, <2>1, ScheduleAssumption DEF SaveLastRun, IInv, Types, Past, Before
<1>9. RoundsWithin'
  BY <1>2, <1>3, <1>5, <1>6 DEF SaveLastRun, RoundsWithin, Within, Before
<1>. QED  BY <1>5, <1>7, <1>8, <1>9 DEF SaveLastRun, IInv, LaunchedOnce

(* Renewing a row changes neither what was launched nor the reading of the round. *)
LEMMA RenewType ==
  ASSUME IInv, NEW h \in Hosts, NEW s \in DOMAIN round[h].rows, Renew(s, round[h].rows[s])
  PROVE  plan' \in [Plans -> PlanRow] /\ s \in Plans
<1>1. round[h].rows \in Reading
  BY DEF IInv, Types, RoundType
<1>2. s \in Plans /\ round[h].rows[s].rule \in Rules
  BY <1>1, ReadingType DEF PlanRow
<1>3. NextAfter(round[h].rows[s].rule, time) \in Nat
  BY <1>2, NextAfterType, TimeType DEF IInv
<1>. QED  BY <1>2, <1>3 DEF Renew, IInv, Types, PlanRow

LEMMA RenewOverdueStep ==
  ASSUME IInv, NEW h \in Hosts, NEW s \in Plans, RenewOverdue(h, s)
  PROVE  IInv'
<1>. DEFINE r == [round[h] EXCEPT !.rows = Without(@, s)]
<1>1. round[h] \in RoundType /\ Within(h) /\ round[h].at = "overdue"
  BY DEF RenewOverdue, IInv, Types, RoundsWithin
<1>2. r \in RoundType /\ r.at = "overdue" /\ r.last = round[h].last /\ r.now = round[h].now
  BY <1>1, WithoutType DEF RoundType
<1>3. round' = [round EXCEPT ![h] = r]
  BY DEF RenewOverdue
<1>. HIDE DEF r
<1>4. OneRound' /\ round' \in [Hosts -> RoundType] /\ round'[h] = r
      /\ \A k \in Hosts \ {h} : round'[k].at = "off"
  BY <1>1, <1>2, <1>3, OthersOff
<1>5. Types'
  BY <1>4, RenewType DEF RenewOverdue, IInv, Types
<1>6. RoundsWithin'
  BY <1>1, <1>2, <1>4 DEF RenewOverdue, RoundsWithin, Within, Before
<1>. QED  BY <1>4, <1>5, <1>6 DEF RenewOverdue, IInv, Past, Before, LaunchedOnce

(* The rows that are due have a next_run after the last round, and so after all that
   was launched. *)
LEMMA ReadDueStep ==
  ASSUME IInv, NEW h \in Hosts, ReadDue(h)
  PROVE  IInv'
<1>. DEFINE D == Due(round[h].last, round[h].now)
            r == [round[h] EXCEPT !.at = "due", !.rows = Read(D)]
<1>1. D \in SUBSET Plans
  BY DEF Due, Enabled
<1>2. round[h] \in RoundType /\ Within(h) /\ round[h].at = "overdue"
  BY DEF ReadDue, IInv, Types, RoundsWithin
<1>3. /\ r \in RoundType /\ r.at = "due" /\ r.last = round[h].last /\ r.now = round[h].now
      /\ r.rows = Read(D) /\ DOMAIN Read(D) = D /\ \A s \in D : Read(D)[s] = plan[s]
  BY <1>1, <1>2, ReadType DEF IInv, RoundType
<1>4. round' = [round EXCEPT ![h] = r]
  BY DEF ReadDue
<1>5. \A s \in D : /\ round[h].last < plan[s].next /\ plan[s].next < round[h].now
                   /\ plan[s].next \in Nat /\ s \in Plans
  BY DEF Due, Enabled, IInv, Types, PlanRow
<1>. HIDE DEF r, D
<1>6. OneRound' /\ round' \in [Hosts -> RoundType] /\ round'[h] = r
      /\ \A k \in Hosts \ {h} : round'[k].at = "off"
  BY <1>2, <1>3, <1>4, OthersOff
<1>7. \A s \in D : Before(s, plan[s].next)
  <2>1. \A s \in Plans : \A i \in DOMAIN spawned[s] : spawned[s][i] \in Nat
    BY DEF IInv, Types
  <2>2. round[h].last \in Nat
    BY <1>2 DEF RoundType
  <2>. QED  BY <1>2, <1>5, <2>1, <2>2 DEF Within, Before
<1>8. RoundsWithin'
  <2>1. \A s \in DOMAIN r.rows : r.rows[s].next < round[h].now /\ Before(s, r.rows[s].next)
    BY <1>3, <1>5, <1>7
  <2>2. Within(h)'
    BY <1>2, <1>3, <1>6, <2>1 DEF ReadDue, Within, Before
  <2>. QED  BY <1>6, <2>2 DEF RoundsWithin
<1>. QED  BY <1>6, <1>8 DEF ReadDue, IInv, Types, Past, Before, LaunchedOnce

LEMMA RenewDueStep ==
  ASSUME IInv, NEW h \in Hosts, NEW s \in Plans, RenewDue(h, s)
  PROVE  IInv'
<1>. DEFINE r == [round[h] EXCEPT !.at = "spawn", !.who = {s}]
<1>1. round[h] \in RoundType /\ Within(h) /\ round[h].at = "due" /\ s \in DOMAIN round[h].rows
  BY DEF RenewDue, IInv, Types, RoundsWithin
<1>2. /\ r \in RoundType /\ r.at = "spawn" /\ r.last = round[h].last /\ r.now = round[h].now
      /\ r.rows = round[h].rows /\ r.who = {s}
  BY <1>1 DEF RoundType
<1>3. round' = [round EXCEPT ![h] = r]
  BY DEF RenewDue
<1>. HIDE DEF r
<1>4. OneRound' /\ round' \in [Hosts -> RoundType] /\ round'[h] = r
      /\ \A k \in Hosts \ {h} : round'[k].at = "off"
  BY <1>1, <1>2, <1>3, OthersOff
<1>5. Types'
  BY <1>4, RenewType DEF RenewDue, IInv, Types
<1>6. RoundsWithin'
  BY <1>1, <1>2, <1>4 DEF RenewDue, RoundsWithin, Within, Before
<1>. QED  BY <1>4, <1>5, <1>6 DEF RenewDue, IInv, Past, Before, LaunchedOnce

(* What is launched comes after what was launched of that schedule, and before the
   begin of the round. *)
LEMMA SpawnStep ==
  ASSUME IInv, NEW h \in Hosts, NEW s \in Plans, Spawn(h, s)
  PROVE  IInv'
<1>. DEFINE r == [round[h] EXCEPT !.at = "due", !.who = {}, !.rows = Without(@, s)]
            n == round[h].rows[s].next
<1>1. /\ round[h] \in RoundType /\ Within(h) /\ round[h].at = "spawn"
      /\ s \in DOMAIN round[h].rows /\ round[h].rows \in Reading
  BY DEF Spawn, IInv, Types, RoundsWithin, Within, RoundType
<1>2. /\ r \in RoundType /\ r.at = "due" /\ r.last = round[h].last /\ r.now = round[h].now
      /\ r.rows = Without(round[h].rows, s)
  BY <1>1, WithoutType DEF RoundType
<1>3. /\ round' = [round EXCEPT ![h] = r] /\ spawned' = [spawned EXCEPT ![s] = Append(@, n)]
      /\ lastRun' = lastRun /\ time' = time
  BY DEF Spawn
<1>4. n \in Nat /\ n < round[h].now /\ Before(s, n) /\ lastRun = round[h].now
  BY <1>1, ReadingType DEF Within, PlanRow
<1>. HIDE DEF r, n
<1>5. OneRound' /\ round' \in [Hosts -> RoundType] /\ round'[h] = r
      /\ \A k \in Hosts \ {h} : round'[k].at = "off"
  BY <1>1, <1>2, <1>3, OthersOff
<1>6. /\ spawned' \in [Plans -> Seq(Nat)] /\ DOMAIN spawned'[s] = 1 .. Len(spawned[s]) + 1
      /\ spawned'[s][Len(spawned[s]) + 1] = n
      /\ \A i \in 1 .. Len(spawned[s]) : spawned'[s][i] = spawned[s][i]
      /\ \A x \in Plans \ {s} : spawned'[x] = spawned[x]
      /\ DOMAIN spawned[s] = 1 .. Len(spawned[s]) /\ Len(spawned[s]) \in Nat
      /\ \A i \in 1 .. Len(spawned[s]) : spawned[s][i] \in Nat
  BY <1>3, <1>4 DEF IInv, Types
<1>7. Types'
  BY <1>5, <1>6 DEF Spawn, IInv, Types
<1>8. Past'
  BY <1>3, <1>4, <1>6 DEF IInv, Past, Before
<1>9. RoundsWithin'
  <2>1. \A x \in DOMAIN r.rows : r.rows[x] = round[h].rows[x] /\ x # s /\ x \in DOMAIN round[h].rows
                                 /\ x \in Plans
    <3>1. DOMAIN r.rows = DOMAIN round[h].rows \ {s}
          /\ \A x \in DOMAIN r.rows : r.rows[x] = round[h].rows[x]
      <4>. DEFINE R == round[h].rows
      <4>1. DOMAIN Without(R, s) = DOMAIN R \ {s} /\ \A x \in DOMAIN R \ {s} : Without(R, s)[x] = R[x]
        BY <1>1, WithoutType
      <4>2. r.rows = Without(R, s)
        BY <1>2
      <4>. HIDE DEF R
      <4>3. DOMAIN r.rows = DOMAIN R \ {s} /\ \A x \in DOMAIN r.rows : r.rows[x] = R[x]
        BY <4>1, <4>2
      <4>. QED  BY <4>3 DEF R
    <3>2. DOMAIN round[h].rows \subseteq Plans
      BY <1>1, ReadingType
    <3>. QED  BY <3>1, <3>2
  <2>. QED  BY <1>1, <1>2, <1>3, <1>5, <1>6, <2>1 DEF RoundsWithin, Within, Before
<1>10. LaunchedOnce'
  <2>1. ASSUME NEW i \in DOMAIN spawned'[s], NEW k \in DOMAIN spawned'[s], i < k
        PROVE  spawned'[s][i] < spawned'[s][k]
    <3>1. i \in 1 .. Len(spawned[s]) /\ (k \in 1 .. Len(spawned[s]) \/ k = Len(spawned[s]) + 1)
      BY <1>6, <2>1
    <3>2. CASE k = Len(spawned[s]) + 1
      <4>1. spawned[s][i] < n
        BY <1>4, <1>6, <3>1 DEF Before
      <4>. QED  BY <1>6, <3>1, <3>2, <4>1
    <3>3. CASE k \in 1 .. Len(spawned[s])
      <4>1. spawned[s][i] < spawned[s][k]
        BY <1>6, <2>1, <3>1, <3>3 DEF IInv, LaunchedOnce
      <4>. QED  BY <1>6, <3>1, <3>3, <4>1
    <3>. QED  BY <3>1, <3>2, <3>3
  <2>. QED  BY <1>6, <2>1 DEF IInv, LaunchedOnce
<1>. QED  BY <1>5, <1>7, <1>8, <1>9, <1>10 DEF IInv

LEMMA EndStep ==
  ASSUME IInv, NEW h \in Hosts,
         EndRound(h) \/ BreakOff(h) \/ \E s \in Plans : RenewalRaises(h, s)
  PROVE  IInv'
<1>1. /\ round[h].at # "off" /\ round' = [round EXCEPT ![h] = NoRound]
      /\ UNCHANGED <<time, plan, lastRun, boot, spawned>>
  BY DEF EndRound, BreakOff, RenewalRaises, LeaveOff
<1>2. OneRound' /\ round' \in [Hosts -> RoundType] /\ \A k \in Hosts : round'[k].at = "off"
  BY <1>1, NoRoundType, OthersOff
<1>. QED  BY <1>1, <1>2 DEF IInv, Types, Past, Before, RoundsWithin, LaunchedOnce

-----------------------------------------------------------------------------
(* The start of a dispatcher touches neither the rounds nor what was launched. *)

LEMMA StartStep ==
  ASSUME IInv, NEW h \in Hosts, StartDispatcher(h)
  PROVE  IInv'
<1>1. /\ boot' = [boot EXCEPT ![h] = Read(Plans)]
      /\ UNCHANGED <<time, plan, lastRun, round, spawned>>
  BY DEF StartDispatcher
<1>2. Read(Plans) \in Reading
  BY ReadType DEF IInv
<1>3. Types'
  BY <1>1, <1>2 DEF IInv, Types
<1>. QED  BY <1>1, <1>3 DEF IInv, OneRound, Past, Before, RoundsWithin, Within, LaunchedOnce

(* What the step saves, if it saves. *)
LEMMA RenewedAtStart ==
  ASSUME IInv, NEW h \in Hosts, NEW s \in Plans, RenewAtStart(h, s)
  PROVE  /\ boot' = [boot EXCEPT ![h] = Without(boot[h], s)] /\ s \in DOMAIN boot[h]
         /\ boot[h] \in Reading
         /\ UNCHANGED <<time, lastRun, round, spawned, ties, passed, edited>>
         /\ \/ UNCHANGED <<plan, skipped>>
            \/ \E next \in Nat :
                 /\ next = IF boot[h][s].enabled THEN NextAfter(boot[h][s].rule, time) ELSE 0
                 /\ plan' = [plan EXCEPT ![s].next = next]
                 /\ skipped' = [skipped EXCEPT ![s] = @ \cup
                      {u \in boot[h][s].rule : plan[s].next <= u /\ u <= time}]
<1>1. boot[h] \in Reading /\ s \in DOMAIN boot[h] /\ boot' = [boot EXCEPT ![h] = Without(boot[h], s)]
      /\ UNCHANGED <<time, lastRun, round, spawned, ties, passed, edited>>
  BY DEF RenewAtStart, IInv, Types
<1>. DEFINE row == boot[h][s]
            next == IF row.enabled THEN NextAfter(row.rule, time) ELSE 0
<1>2. row \in PlanRow
  BY <1>1, ReadingType
<1>3. NextAfter(row.rule, time) \in Nat
  BY <1>2, NextAfterType, TimeType DEF IInv, PlanRow
<1>4. next \in Nat
  BY <1>3
<1>5. \/ UNCHANGED <<plan, skipped>>
      \/ /\ plan' = [plan EXCEPT ![s].next = next]
         /\ skipped' = [skipped EXCEPT ![s] = @ \cup
              {u \in row.rule : plan[s].next <= u /\ u <= time}]
  BY Zenon DEF RenewAtStart
<1>. QED  BY <1>1, <1>4, <1>5

LEMMA RenewAtStartStep ==
  ASSUME IInv, NEW h \in Hosts, NEW s \in Plans, RenewAtStart(h, s)
  PROVE  IInv'
<1>1. /\ boot' = [boot EXCEPT ![h] = Without(boot[h], s)] /\ boot[h] \in Reading
      /\ UNCHANGED <<time, lastRun, round, spawned>>
      /\ plan' = plan \/ \E next \in Nat : plan' = [plan EXCEPT ![s].next = next]
  BY RenewedAtStart
<1>2. plan' \in [Plans -> PlanRow]
  <2>1. CASE plan' = plan
    BY <2>1 DEF IInv, Types
  <2>2. ASSUME NEW next \in Nat, plan' = [plan EXCEPT ![s].next = next]
        PROVE  plan' \in [Plans -> PlanRow]
    BY <2>2 DEF IInv, Types, PlanRow
  <2>. QED  BY <1>1, <2>1, <2>2
<1>3. Without(boot[h], s) \in Reading
  BY <1>1, WithoutType
<1>4. Types'
  BY <1>1, <1>2, <1>3 DEF IInv, Types
<1>. QED  BY <1>1, <1>4 DEF IInv, OneRound, Past, Before, RoundsWithin, Within, LaunchedOnce

-----------------------------------------------------------------------------
LEMMA Invariance == IInv /\ [ScheduleNext]_planVars => IInv'
<1>. SUFFICES ASSUME IInv, [ScheduleNext]_planVars  PROVE IInv'
  OBVIOUS
<1>1. CASE UNCHANGED planVars
  BY <1>1 DEF planVars, IInv, Types, OneRound, Past, Before, RoundsWithin, Within, LaunchedOnce
<1>2. CASE TimeGoesOn
  BY <1>2, TimeStep
<1>3. ASSUME NEW s \in Plans, EditSchedule(s)  PROVE IInv'
  BY <1>3, EditStep
<1>4. ASSUME NEW h \in Hosts,
             \/ BeginRound(h) \/ SaveLastRun(h) \/ ReadDue(h) \/ EndRound(h) \/ BreakOff(h)
             \/ StartDispatcher(h)
      PROVE  IInv'
  BY <1>4, BeginStep, SaveStep, ReadDueStep, EndStep, StartStep
<1>5. ASSUME NEW h \in Hosts, NEW s \in Plans,
             \/ RenewOverdue(h, s) \/ RenewDue(h, s) \/ Spawn(h, s)
             \/ RenewalRaises(h, s) \/ RenewAtStart(h, s)
      PROVE  IInv'
  BY <1>5, RenewOverdueStep, RenewDueStep, SpawnStep, EndStep, RenewAtStartStep
<1>. QED  BY <1>1, <1>2, <1>3, <1>4, <1>5 DEF ScheduleNext

LEMMA Invariant == ScheduleSpec => []IInv
  BY Initially, Invariance, PTL DEF ScheduleSpec

(* The rows and the rounds keep their types; next_run is always a time, since a set
   of times has a least element. *)
THEOREM TypeCorrect == ScheduleSpec => []ScheduleTypeOK
<1>1. IInv => ScheduleTypeOK
  BY DEF IInv, Types, ScheduleTypeOK, PlanRow, RoundType
<1>. QED  BY <1>1, Invariant, PTL

(* No run of a schedule is launched twice, or out of order, by rounds that contend,
   break off and work with rows that have changed (system.py 719-745). *)
THEOREM LaunchedOnceAlways == ScheduleSpec => []LaunchedOnce
<1>1. IInv => LaunchedOnce
  BY DEF IInv
<1>. QED  BY <1>1, Invariant, PTL

-----------------------------------------------------------------------------
(* Which runs are left out. A round handles every row that was due in its time, so
   what lies behind the rounds fell on the begin of one, or was left with one that
   broke off.                                                                *)

(* A run was launched, is about to be launched in round r, or may be left out. *)
Handled(s, u, r) ==
  \/ u \in Range(spawned[s]) \cup passed[s] \cup skipped[s] \cup ties
  \/ r.at = "spawn" /\ s \in r.who /\ u = r.rows[s].next
Settled(s, r) ==
  \A u \in plan[s].rule \ Imaginary : u < plan[s].next \/ plan[s].next = 0 => Handled(s, u, r)

(* What the round has read and not renewed is still the row, or a starting dispatcher
   has moved its next_run on since. *)
AsRead(s, r) ==
  s \in DOMAIN r.rows \ r.who =>
    /\ r.rows[s].rule = plan[s].rule /\ r.rows[s].next # 0 /\ r.rows[s].next < r.now
    /\ r.at = "overdue" => r.rows[s].next < r.last
    /\ plan[s].next = r.rows[s].next \/ plan[s].next = 0 \/ plan[s].next >= r.now

(* Those moments and runs that nothing has to launch any more. *)
Excused(s) == ties \cup skipped[s]

Missed(s, t) == plan[s].next # 0 /\ plan[s].next < t
Behind(s, r) ==
  /\ r.at \in {"off", "save"} /\ Missed(s, lastRun) => plan[s].next \in Excused(s)
  /\ r.at = "overdue" /\ Missed(s, r.last) => plan[s].next \in Excused(s) /\ s \in DOMAIN r.rows
  /\ r.at \in {"due", "spawn"} /\ Missed(s, r.now) =>
       plan[s].next \in Excused(s) \/ s \in DOMAIN r.rows \ r.who

Kept(s, r) == plan[s].enabled /\ Settled(s, r) /\ AsRead(s, r) /\ Behind(s, r)

Noted(r) == /\ r.at # "off" => r.last \in ties /\ r.now \in ties
            /\ IF r.at = "spawn" THEN \E s \in Plans : r.who = {s} ELSE r.who = {}
StartReads(h) ==
  \A s \in Plans \ edited : s \in DOMAIN boot[h] =>
    boot[h][s].rule = plan[s].rule /\ boot[h][s].enabled = plan[s].enabled
Histories ==
  /\ lastRun \in ties /\ passed \in [Plans -> SUBSET Nat] /\ skipped \in [Plans -> SUBSET Nat]

KInv ==
  /\ Histories
  /\ \A h \in Hosts : Noted(round[h]) /\ StartReads(h)
  /\ \A s \in Plans \ edited :
       /\ (\A h \in Hosts : round[h].at = "off") => Kept(s, NoRound)
       /\ \A h \in Hosts : round[h].at # "off" => Kept(s, round[h])

LEMMA NoRoundIs ==
  NoRound.at = "off" /\ NoRound.who = {} /\ DOMAIN NoRound.rows = {}
  BY DEF NoRound, NoRows

LEMMA KeptInitially == ScheduleInit => KInv
<1>. SUFFICES ASSUME ScheduleInit  PROVE KInv
  OBVIOUS
<1>1. /\ lastRun = 0 /\ ties = {0}
      /\ \A h \in Hosts : round[h] = NoRound /\ DOMAIN boot[h] = {}
      /\ passed = [s \in Plans |-> {}] /\ skipped = [s \in Plans |-> {}]
  BY DEF ScheduleInit, NoRows
<1>2. ASSUME NEW s \in Plans  PROVE Kept(s, NoRound)
  <2>1. PICK r \in Rules : plan[s] = [rule |-> r, enabled |-> TRUE, next |-> NextAfter(r, 0)]
    BY DEF ScheduleInit
  <2>2. plan[s].enabled = TRUE /\ plan[s].rule = r /\ plan[s].next = NextAfter(r, 0)
        /\ NextAfter(r, 0) \in Nat
    BY <2>1, NextAfterType
  <2>3. \A u \in r \ Imaginary : ~(u < plan[s].next \/ plan[s].next = 0)
    <3>1. \A u \in r : u \in Nat /\ u > 0
      BY ScheduleAssumption
    <3>2. \A u \in r \ Imaginary : u < NextAfter(r, 0) \/ NextAfter(r, 0) = 0 => u <= 0
      BY NextAfterLeast
    <3>. QED  BY <2>2, <3>1, <3>2
  <2>4. Settled(s, NoRound)
    BY <2>2, <2>3 DEF Settled
  <2>5. AsRead(s, NoRound) /\ Behind(s, NoRound)
    BY <1>1, <2>2, NoRoundIs DEF AsRead, Behind, Missed
  <2>. QED  BY <2>2, <2>4, <2>5 DEF Kept
<1>. QED  BY <1>1, <1>2, NoRoundIs DEF KInv, Histories, Noted, StartReads

(* A step of the one round there is. *)
LEMMA RoundSet ==
  ASSUME IInv, KInv, NEW h \in Hosts, round[h].at # "off" \/ \A k \in Hosts : round[k].at = "off",
         NEW r \in RoundType, round' = [round EXCEPT ![h] = r], r.at = "off" => r = NoRound,
         Histories', ties \subseteq ties', UNCHANGED <<boot, edited>>,
         \A s \in Plans : plan'[s].rule = plan[s].rule /\ plan'[s].enabled = plan[s].enabled,
         Noted(r)', \A s \in Plans \ edited : Kept(s, r)'
  PROVE  KInv'
<1>1. /\ round'[h] = r /\ \A k \in Hosts \ {h} : round'[k] = round[k] /\ round[k].at = "off"
  BY DEF IInv, Types, OneRound
<1>2. \A k \in Hosts : Noted(round[k])' /\ StartReads(k)'
  <2>1. \A k \in Hosts : Noted(round[k])'
    BY <1>1 DEF KInv, Noted
  <2>2. \A k \in Hosts : StartReads(k)'
    BY DEF KInv, StartReads
  <2>. QED  BY <2>1, <2>2
<1>3. ASSUME NEW s \in Plans \ edited'
      PROVE  /\ (\A k \in Hosts : round'[k].at = "off") => Kept(s, NoRound)'
             /\ \A k \in Hosts : round'[k].at # "off" => Kept(s, round[k])'
  <2>1. Kept(s, r)'
    BY <1>3
  <2>2. CASE r.at = "off"
    <3>1. Kept(s, NoRound)' /\ \A k \in Hosts : round'[k].at = "off"
      BY <1>1, <2>1, <2>2
    <3>. QED  BY <3>1
  <2>3. CASE r.at # "off"
    <3>1. \A k \in Hosts : round'[k].at # "off" => k = h /\ round'[k] = r
      BY <1>1
    <3>2. \A k \in Hosts : round'[k].at # "off" => Kept(s, round[k])'
      BY <2>1, <3>1 DEF Kept, Settled, Handled, AsRead, Behind, Missed, Excused
    <3>. QED  BY <1>1, <2>3, <3>2
  <2>. QED  BY <2>2, <2>3
<1>. QED  BY <1>2, <1>3 DEF KInv

(* Renewing a row: the runs up to now are those before next_run, the one that the row
   was waiting for, and those that went by. *)
LEMMA Renewed ==
  ASSUME IInv, passed \in [Plans -> SUBSET Nat], NEW h \in Hosts, NEW s \in DOMAIN round[h].rows,
         Renew(s, round[h].rows[s])
  PROVE  /\ s \in Plans /\ passed' \in [Plans -> SUBSET Nat]
         /\ \A x \in Plans \ {s} : plan'[x] = plan[x] /\ passed'[x] = passed[x]
         /\ passed[s] \subseteq passed'[s]
         /\ plan'[s].rule = plan[s].rule /\ plan'[s].enabled = plan[s].enabled
         /\ plan'[s].next \in Nat /\ (plan'[s].next = 0 \/ plan'[s].next > time)
         /\ /\ round[h].rows[s].rule = plan[s].rule
            /\ plan[s].next \in {round[h].rows[s].next, 0} \/ plan[s].next > round[h].rows[s].next
            => \A u \in plan[s].rule \ Imaginary : u < plan'[s].next \/ plan'[s].next = 0 =>
                 \/ u < plan[s].next \/ plan[s].next = 0
                 \/ u = plan[s].next /\ u = round[h].rows[s].next
                 \/ u \in passed'[s]
<1>. DEFINE row == round[h].rows[s]
            n == NextAfter(row.rule, time)
<1>1. s \in Plans /\ row \in PlanRow /\ plan[s] \in PlanRow
  BY ReadingType DEF IInv, Types, RoundType
<1>2. row.rule \in Rules /\ row.rule \subseteq Nat /\ row.next \in Nat /\ time \in Nat
  BY <1>1, ScheduleAssumption, TimeType DEF PlanRow, IInv
<1>3. n \in Nat /\ (n = 0 \/ n > time) /\ \A u \in row.rule \ Imaginary : u < n \/ n = 0 => u <= time
  BY <1>2, NextAfterType, NextAfterLeast
<1>4. plan' = [plan EXCEPT ![s].next = n]
      /\ passed' = [passed EXCEPT ![s] = @ \cup {u \in row.rule : row.next < u /\ u <= time}]
  BY DEF Renew
<1>. HIDE DEF row, n
<1>5. /\ \A x \in Plans \ {s} : plan'[x] = plan[x] /\ passed'[x] = passed[x]
      /\ passed'[s] = passed[s] \cup {u \in row.rule : row.next < u /\ u <= time}
      /\ plan'[s] = [plan[s] EXCEPT !.next = n]
  BY <1>1, <1>4 DEF IInv, Types
<1>6. plan'[s].rule = plan[s].rule /\ plan'[s].enabled = plan[s].enabled /\ plan'[s].next = n
  BY <1>1, <1>5 DEF PlanRow
<1>7. passed' \in [Plans -> SUBSET Nat]
  <2>1. {u \in row.rule : row.next < u /\ u <= time} \in SUBSET Nat
    BY <1>2
  <2>. QED  BY <1>4, <2>1
<1>8. ASSUME row.rule = plan[s].rule, plan[s].next \in {row.next, 0} \/ plan[s].next > row.next,
             NEW u \in plan[s].rule \ Imaginary, u < n \/ n = 0
      PROVE  \/ u < plan[s].next \/ plan[s].next = 0
             \/ u = plan[s].next /\ u = row.next
             \/ u \in passed'[s]
  <2>1. plan[s].next \in Nat
    BY <1>1 DEF PlanRow
  <2>. QED  BY <1>2, <1>3, <1>5, <1>8, <2>1
<1>. QED  BY <1>1, <1>3, <1>5, <1>6, <1>7, <1>8 DEF row

LEMMA BeginKeeps ==
  ASSUME IInv, KInv, NEW h \in Hosts, BeginRound(h)
  PROVE  KInv'
<1>0. PICK r : r = [NoRound EXCEPT !.at = "save", !.last = lastRun, !.now = time]
  OBVIOUS
<1>1. /\ r \in RoundType /\ r.at = "save" /\ r.last = lastRun /\ r.now = time
      /\ r.who = {} /\ DOMAIN r.rows = {}
  BY <1>0, NoRoundType, NoRoundIs, TimeType DEF IInv, RoundType
<1>2. round' = [round EXCEPT ![h] = r] /\ \A k \in Hosts : round[k].at = "off"
  BY <1>0 DEF BeginRound, Acquired
<1>3. UNCHANGED <<plan, lastRun, boot, spawned, passed, skipped, edited>> /\ ties' = ties \cup {time}
  BY DEF BeginRound
<1>4. ASSUME NEW s \in Plans \ edited  PROVE Kept(s, r)'
  <2>1. Kept(s, NoRound)
    BY <1>2, <1>3, <1>4 DEF KInv
  <2>. QED  BY <1>1, <1>3, <2>1, NoRoundIs DEF Kept, Settled, Handled, AsRead, Behind, Missed, Excused
<1>. QED  BY <1>1, <1>2, <1>3, <1>4, RoundSet DEF KInv, Histories, Noted

LEMMA SaveKeeps ==
  ASSUME IInv, KInv, NEW h \in Hosts, SaveLastRun(h)
  PROVE  KInv'
<1>. DEFINE O == Overdue(round[h].last)
<1>0. PICK r : r = [round[h] EXCEPT !.at = "overdue", !.rows = Read(O)]
  OBVIOUS
<1>1. O \in SUBSET Plans
  BY DEF Overdue, Enabled
<1>2. round[h] \in RoundType /\ Within(h) /\ round[h].at = "save" /\ Noted(round[h])
  BY DEF SaveLastRun, IInv, Types, RoundsWithin, KInv
<1>3. /\ r \in RoundType /\ r.at = "overdue" /\ r.last = round[h].last /\ r.now = round[h].now
      /\ r.who = {} /\ DOMAIN r.rows = O /\ \A s \in O : r.rows[s] = plan[s]
  BY <1>0, <1>1, <1>2, ReadType DEF IInv, RoundType, Noted
<1>4. \A s \in Plans : plan[s].enabled => (s \in O <=> Missed(s, r.last))
  <2>1. \A s \in Plans : plan[s].next \in Nat
    BY DEF IInv, Types, PlanRow
  <2>2. \A s \in Plans : s \in O <=> plan[s].enabled /\ plan[s].next # 0 /\ 0 < plan[s].next /\ plan[s].next < r.last
    BY <1>3 DEF Overdue, Enabled
  <2>. QED  BY <2>1, <2>2 DEF Missed
<1>5. round' = [round EXCEPT ![h] = r]
  BY <1>0 DEF SaveLastRun
<1>. HIDE DEF O
<1>6. UNCHANGED <<plan, boot, spawned, ties, passed, skipped, edited>> /\ lastRun' = round[h].now
  BY DEF SaveLastRun
<1>7. lastRun = round[h].last
  BY <1>2 DEF Within
<1>8. ASSUME NEW s \in Plans \ edited  PROVE Kept(s, r)'
  <2>1. Kept(s, round[h])
    BY <1>2, <1>6, <1>8 DEF KInv
  <2>2. Settled(s, r)'
    BY <1>2, <1>3, <1>6, <2>1 DEF Kept, Settled, Handled
  <2>3. r.last <= r.now /\ r.last \in Nat /\ r.now \in Nat
    BY <1>2, <1>3 DEF Within, RoundType
  <2>4. Behind(s, r)'
    BY <1>2, <1>3, <1>4, <1>6, <1>7, <2>1 DEF Kept, Behind, Missed, Excused
  <2>5. ASSUME s \in O  PROVE r.rows[s] = plan[s] /\ plan[s].next # 0 /\ plan[s].next < r.last
                            /\ plan[s].next \in Nat
    BY <1>3, <1>4, <2>1, <2>5 DEF Kept, Missed, IInv, Types, PlanRow
  <2>6. AsRead(s, r)'
    BY <1>3, <1>6, <2>3, <2>5 DEF AsRead
  <2>. QED  BY <1>6, <2>1, <2>2, <2>4, <2>6 DEF Kept
<1>9. Noted(r)' /\ Histories'
  BY <1>2, <1>3, <1>6 DEF Noted, KInv, Histories
<1>. QED  BY <1>2, <1>3, <1>5, <1>6, <1>8, <1>9, RoundSet DEF KInv, Histories

LEMMA ReadDueKeeps ==
  ASSUME IInv, KInv, NEW h \in Hosts, ReadDue(h)
  PROVE  KInv'
<1>. DEFINE D == Due(round[h].last, round[h].now)
<1>0. PICK r : r = [round[h] EXCEPT !.at = "due", !.rows = Read(D)]
  OBVIOUS
<1>1. D \in SUBSET Plans
  BY DEF Due, Enabled
<1>2. round[h] \in RoundType /\ round[h].at = "overdue" /\ Noted(round[h]) /\ DOMAIN round[h].rows = {}
  BY DEF ReadDue, IInv, Types, KInv
<1>3. /\ r \in RoundType /\ r.at = "due" /\ r.last = round[h].last /\ r.now = round[h].now
      /\ r.who = {} /\ DOMAIN r.rows = D /\ \A s \in D : r.rows[s] = plan[s]
  BY <1>0, <1>1, <1>2, ReadType DEF IInv, RoundType, Noted
<1>4. \A s \in Plans : /\ plan[s].next \in Nat
                       /\ s \in D <=> plan[s].enabled /\ plan[s].next # 0 /\ r.last < plan[s].next /\ plan[s].next < r.now
  BY <1>3 DEF Due, Enabled, IInv, Types, PlanRow
<1>5. round' = [round EXCEPT ![h] = r]
  BY <1>0 DEF ReadDue
<1>. HIDE DEF D
<1>6. UNCHANGED <<plan, lastRun, boot, spawned, ties, passed, skipped, edited>>
  BY DEF ReadDue
<1>7. ASSUME NEW s \in Plans \ edited  PROVE Kept(s, r)'
  <2>1. Kept(s, round[h])
    BY <1>2, <1>6, <1>7 DEF KInv
  <2>2. Settled(s, r)'
    BY <1>2, <1>3, <1>6, <2>1 DEF Kept, Settled, Handled
  <2>3. Missed(s, r.now) => plan[s].next \in Excused(s) \/ s \in D
    <3>. SUFFICES ASSUME Missed(s, r.now), s \notin D  PROVE plan[s].next \in Excused(s)
      OBVIOUS
    <3>1. ~Missed(s, r.last)
      BY <1>2, <1>3, <2>1 DEF Kept, Behind
    <3>2. r.last \in Nat /\ r.last \in ties
      BY <1>2, <1>3 DEF RoundType, Noted
    <3>3. plan[s].next = r.last
      BY <1>4, <2>1, <3>1, <3>2 DEF Missed, Kept
    <3>. QED  BY <3>2, <3>3 DEF Excused
  <2>4. AsRead(s, r)' /\ Behind(s, r)'
    BY <1>3, <1>4, <1>6, <2>3 DEF AsRead, Behind, Missed, Excused
  <2>. QED  BY <1>6, <2>1, <2>2, <2>4 DEF Kept
<1>8. Noted(r)'
  BY <1>2, <1>3, <1>6 DEF Noted
<1>. QED  BY <1>2, <1>3, <1>5, <1>6, <1>7, <1>8, RoundSet DEF KInv, Histories

LEMMA WithoutRow ==
  ASSUME NEW r \in RoundType, NEW s, NEW q, q.rows = Without(r.rows, s)
  PROVE  DOMAIN q.rows = DOMAIN r.rows \ {s} /\ \A x \in DOMAIN q.rows : q.rows[x] = r.rows[x]
<1>1. r.rows \in Reading
  BY DEF RoundType
<1>. DEFINE R == r.rows
<1>2. DOMAIN Without(R, s) = DOMAIN R \ {s} /\ \A x \in DOMAIN R \ {s} : Without(R, s)[x] = R[x]
  BY <1>1, WithoutType
<1>3. q.rows = Without(R, s)
  OBVIOUS
<1>. HIDE DEF R
<1>4. DOMAIN q.rows = DOMAIN R \ {s} /\ \A x \in DOMAIN q.rows : q.rows[x] = R[x]
  BY <1>2, <1>3
<1>. QED  BY <1>4 DEF R

(* The runs up to now of a row that is overdue were handled: the round that should
   have launched its next_run began at that moment. *)
LEMMA RenewOverdueKeeps ==
  ASSUME IInv, KInv, NEW h \in Hosts, NEW s \in Plans, RenewOverdue(h, s)
  PROVE  KInv'
<1>0. PICK r : r = [round[h] EXCEPT !.rows = Without(@, s)]
  OBVIOUS
<1>1. /\ round[h] \in RoundType /\ Within(h) /\ round[h].at = "overdue" /\ Noted(round[h])
      /\ s \in DOMAIN round[h].rows
  BY DEF RenewOverdue, IInv, Types, RoundsWithin, KInv
<1>2. /\ r \in RoundType /\ r.at = "overdue" /\ r.last = round[h].last /\ r.now = round[h].now
      /\ r.who = {} /\ r.rows = Without(round[h].rows, s)
  BY <1>0, <1>1, WithoutType DEF RoundType, Noted
<1>3. round' = [round EXCEPT ![h] = r]
  BY <1>0 DEF RenewOverdue
<1>4. DOMAIN r.rows = DOMAIN round[h].rows \ {s} /\ \A x \in DOMAIN r.rows : r.rows[x] = round[h].rows[x]
  BY <1>1, <1>2, WithoutRow
<1>5. UNCHANGED <<lastRun, boot, spawned, ties, skipped, edited>> /\ Renew(s, round[h].rows[s])
  BY DEF RenewOverdue
<1>6. /\ passed' \in [Plans -> SUBSET Nat]
      /\ \A x \in Plans \ {s} : plan'[x] = plan[x] /\ passed'[x] = passed[x]
      /\ passed[s] \subseteq passed'[s]
      /\ plan'[s].rule = plan[s].rule /\ plan'[s].enabled = plan[s].enabled
      /\ plan'[s].next \in Nat /\ (plan'[s].next = 0 \/ plan'[s].next > time)
      /\ /\ round[h].rows[s].rule = plan[s].rule
         /\ plan[s].next \in {round[h].rows[s].next, 0} \/ plan[s].next > round[h].rows[s].next
         => \A u \in plan[s].rule \ Imaginary : u < plan'[s].next \/ plan'[s].next = 0 =>
              \/ u < plan[s].next \/ plan[s].next = 0
              \/ u = plan[s].next /\ u = round[h].rows[s].next
              \/ u \in passed'[s]
  BY <1>1, <1>5, Renewed DEF KInv, Histories
<1>7. ASSUME NEW x \in Plans \ edited  PROVE Kept(x, r)'
  <2>1. Kept(x, round[h])
    BY <1>1, <1>5, <1>7 DEF KInv
  <2>2. CASE x # s
    <3>1. Settled(x, r)'
      BY <1>1, <1>2, <1>5, <1>6, <2>1, <2>2 DEF Kept, Settled, Handled
    <3>2. AsRead(x, r)' /\ Behind(x, r)'
      BY <1>1, <1>2, <1>4, <1>5, <1>6, <2>1, <2>2 DEF Kept, AsRead, Behind, Missed, Excused, Noted
    <3>. QED  BY <1>6, <2>1, <2>2, <3>1, <3>2 DEF Kept
  <2>3. CASE x = s
    <3>1. /\ round[h].rows[s].rule = plan[s].rule /\ round[h].rows[s].next # 0
          /\ round[h].rows[s].next < r.last /\ round[h].rows[s].next < r.now
          /\ plan[s].next \in {round[h].rows[s].next, 0} \/ plan[s].next >= r.now
      BY <1>1, <1>2, <2>1, <2>3 DEF Kept, AsRead, Noted
    <3>0. plan[s].next = round[h].rows[s].next => plan[s].next \in Excused(s)
      BY <1>1, <1>2, <2>1, <2>3, <3>1 DEF Kept, Behind, Missed
    <3>6. /\ plan[s].next \in {round[h].rows[s].next, 0} \/ plan[s].next > round[h].rows[s].next
          /\ round[h].rows[s].next \in Nat /\ plan[s].next \in Nat
      <4>1. round[h].rows[s].next \in Nat /\ plan[s].next \in Nat /\ r.now \in Nat
        BY <1>1, <1>2, ReadingType DEF RoundType, PlanRow, IInv, Types
      <4>. QED  BY <3>1, <4>1
    <3>2. ASSUME NEW u \in plan[s].rule \ Imaginary, u < plan'[s].next \/ plan'[s].next = 0
          PROVE  u \in Range(spawned[s]) \cup passed'[s] \cup skipped[s] \cup ties
      <4>1. u < plan[s].next \/ plan[s].next = 0 => u \in Range(spawned[s]) \cup passed[s] \cup skipped[s] \cup ties
        BY <1>1, <2>1, <2>3, <3>2 DEF Kept, Settled, Handled
      <4>. QED  BY <1>6, <3>0, <3>1, <3>2, <3>6, <4>1 DEF Excused
    <3>3. Settled(s, r)'
      BY <1>5, <1>6, <3>2 DEF Settled, Handled
    <3>4. ~Missed(s, r.last)'
      <4>1. time \in Nat /\ r.last \in Nat /\ r.last <= time
        BY <1>1, <1>2, TimeType DEF RoundType, Within, IInv
      <4>. QED  BY <1>6, <4>1 DEF Missed
    <3>5. AsRead(s, r)' /\ Behind(s, r)'
      BY <1>2, <1>4, <3>4 DEF AsRead, Behind, Missed, Excused
    <3>. QED  BY <1>6, <2>1, <2>3, <3>3, <3>5 DEF Kept
  <2>. QED  BY <2>2, <2>3
<1>8. Noted(r)'
  BY <1>1, <1>2, <1>5 DEF Noted
<1>. QED  BY <1>1, <1>2, <1>3, <1>5, <1>6, <1>7, <1>8, RoundSet DEF KInv, Histories

LEMMA RenewDueKeeps ==
  ASSUME IInv, KInv, NEW h \in Hosts, NEW s \in Plans, RenewDue(h, s)
  PROVE  KInv'
<1>0. PICK r : r = [round[h] EXCEPT !.at = "spawn", !.who = {s}]
  OBVIOUS
<1>1. /\ round[h] \in RoundType /\ Within(h) /\ round[h].at = "due" /\ Noted(round[h])
      /\ s \in DOMAIN round[h].rows
  BY DEF RenewDue, IInv, Types, RoundsWithin, KInv
<1>2. /\ r \in RoundType /\ r.at = "spawn" /\ r.last = round[h].last /\ r.now = round[h].now
      /\ r.who = {s} /\ r.rows = round[h].rows /\ round[h].who = {}
  BY <1>0, <1>1 DEF RoundType, Noted
<1>3. round' = [round EXCEPT ![h] = r]
  BY <1>0 DEF RenewDue
<1>4. UNCHANGED <<lastRun, boot, spawned, ties, skipped, edited>> /\ Renew(s, round[h].rows[s])
  BY DEF RenewDue
<1>5. /\ passed' \in [Plans -> SUBSET Nat]
      /\ \A x \in Plans \ {s} : plan'[x] = plan[x] /\ passed'[x] = passed[x]
      /\ passed[s] \subseteq passed'[s]
      /\ plan'[s].rule = plan[s].rule /\ plan'[s].enabled = plan[s].enabled
      /\ plan'[s].next \in Nat /\ (plan'[s].next = 0 \/ plan'[s].next > time)
      /\ /\ round[h].rows[s].rule = plan[s].rule
         /\ plan[s].next \in {round[h].rows[s].next, 0} \/ plan[s].next > round[h].rows[s].next
         => \A u \in plan[s].rule \ Imaginary : u < plan'[s].next \/ plan'[s].next = 0 =>
              \/ u < plan[s].next \/ plan[s].next = 0
              \/ u = plan[s].next /\ u = round[h].rows[s].next
              \/ u \in passed'[s]
  BY <1>1, <1>4, Renewed DEF KInv, Histories
<1>6. ASSUME NEW x \in Plans \ edited  PROVE Kept(x, r)'
  <2>1. Kept(x, round[h])
    BY <1>1, <1>4, <1>6 DEF KInv
  <2>2. CASE x # s
    <3>1. Settled(x, r)'
      BY <1>1, <1>2, <1>4, <1>5, <2>1, <2>2 DEF Kept, Settled, Handled
    <3>2. AsRead(x, r)' /\ Behind(x, r)'
      BY <1>1, <1>2, <1>4, <1>5, <2>1, <2>2 DEF Kept, AsRead, Behind, Missed, Excused
    <3>. QED  BY <1>5, <2>1, <2>2, <3>1, <3>2 DEF Kept
  <2>3. CASE x = s
    <3>1. /\ round[h].rows[s].rule = plan[s].rule /\ round[h].rows[s].next < r.now
          /\ plan[s].next \in {round[h].rows[s].next, 0} \/ plan[s].next >= r.now
      BY <1>1, <1>2, <2>1, <2>3 DEF Kept, AsRead
    <3>6. plan[s].next \in {round[h].rows[s].next, 0} \/ plan[s].next > round[h].rows[s].next
      <4>1. round[h].rows[s].next \in Nat /\ plan[s].next \in Nat /\ r.now \in Nat
        BY <1>1, <1>2, ReadingType DEF RoundType, PlanRow, IInv, Types
      <4>. QED  BY <3>1, <4>1
    <3>2. ASSUME NEW u \in plan[s].rule \ Imaginary, u < plan'[s].next \/ plan'[s].next = 0
          PROVE  u \in Range(spawned[s]) \cup passed'[s] \cup skipped[s] \cup ties \/ u = r.rows[s].next
      <4>1. u < plan[s].next \/ plan[s].next = 0 => u \in Range(spawned[s]) \cup passed[s] \cup skipped[s] \cup ties
        BY <1>1, <2>1, <2>3, <3>2 DEF Kept, Settled, Handled
      <4>. QED  BY <1>2, <1>5, <3>1, <3>2, <3>6, <4>1
    <3>3. Settled(s, r)'
      BY <1>2, <1>4, <1>5, <3>2 DEF Settled, Handled
    <3>4. ~Missed(s, r.now)'
      <4>1. time \in Nat /\ r.now \in Nat /\ r.now <= time
        BY <1>1, <1>2, TimeType DEF RoundType, Within, IInv
      <4>. QED  BY <1>5, <4>1 DEF Missed
    <3>5. AsRead(s, r)' /\ Behind(s, r)'
      BY <1>2, <3>4 DEF AsRead, Behind, Missed, Excused
    <3>. QED  BY <1>5, <2>1, <2>3, <3>3, <3>5 DEF Kept
  <2>. QED  BY <2>2, <2>3
<1>7. Noted(r)'
  BY <1>1, <1>2, <1>4 DEF Noted
<1>. QED  BY <1>1, <1>2, <1>3, <1>4, <1>5, <1>6, <1>7, RoundSet DEF KInv, Histories

LEMMA SpawnKeeps ==
  ASSUME IInv, KInv, NEW h \in Hosts, NEW s \in Plans, Spawn(h, s)
  PROVE  KInv'
<1>. DEFINE n == round[h].rows[s].next
<1>0. PICK r : r = [round[h] EXCEPT !.at = "due", !.who = {}, !.rows = Without(@, s)]
  OBVIOUS
<1>1. /\ round[h] \in RoundType /\ Within(h) /\ round[h].at = "spawn" /\ Noted(round[h])
      /\ s \in DOMAIN round[h].rows /\ s \in round[h].who
  BY DEF Spawn, IInv, Types, RoundsWithin, Within, KInv
<1>2. /\ r \in RoundType /\ r.at = "due" /\ r.last = round[h].last /\ r.now = round[h].now
      /\ r.who = {} /\ r.rows = Without(round[h].rows, s)
  BY <1>0, <1>1, WithoutType DEF RoundType
<1>3. round' = [round EXCEPT ![h] = r] /\ spawned' = [spawned EXCEPT ![s] = Append(@, n)]
      /\ UNCHANGED <<plan, lastRun, boot, ties, passed, skipped, edited>>
  BY <1>0 DEF Spawn
<1>4. n \in Nat
  BY <1>1, ReadingType DEF RoundType, PlanRow
<1>. HIDE DEF n
<1>5. DOMAIN r.rows = DOMAIN round[h].rows \ {s} /\ \A x \in DOMAIN r.rows : r.rows[x] = round[h].rows[x]
  BY <1>1, <1>2, WithoutRow
<1>6. /\ \A x \in Plans \ {s} : spawned'[x] = spawned[x]
      /\ Range(spawned[s]) \cup {n} \subseteq Range(spawned'[s])
  <2>1. /\ DOMAIN spawned'[s] = 1 .. Len(spawned[s]) + 1 /\ spawned'[s][Len(spawned[s]) + 1] = n
        /\ \A i \in 1 .. Len(spawned[s]) : spawned'[s][i] = spawned[s][i]
        /\ DOMAIN spawned[s] = 1 .. Len(spawned[s]) /\ Len(spawned[s]) \in Nat
        /\ \A x \in Plans \ {s} : spawned'[x] = spawned[x]
    BY <1>3, <1>4 DEF IInv, Types
  <2>. QED  BY <2>1 DEF Range
<1>7. ASSUME NEW x \in Plans \ edited  PROVE Kept(x, r)'
  <2>1. Kept(x, round[h]) /\ round[h].who = {s}
    BY <1>1, <1>3, <1>7 DEF KInv, Noted
  <2>2. ASSUME NEW u \in plan[x].rule \ Imaginary, u < plan[x].next \/ plan[x].next = 0
        PROVE  u \in Range(spawned'[x]) \cup passed[x] \cup skipped[x] \cup ties
    <3>1. u \in Range(spawned[x]) \cup passed[x] \cup skipped[x] \cup ties \/ (x \in round[h].who /\ u = round[h].rows[x].next)
      BY <2>1, <2>2 DEF Kept, Settled, Handled
    <3>. QED  BY <1>6, <2>1, <3>1 DEF n
  <2>3. Settled(x, r)'
    BY <1>3, <2>2 DEF Settled, Handled
  <2>4. AsRead(x, r)' /\ Behind(x, r)'
    BY <1>1, <1>2, <1>3, <1>5, <2>1 DEF Kept, AsRead, Behind, Missed, Excused
  <2>. QED  BY <1>3, <2>1, <2>3, <2>4 DEF Kept
<1>8. Noted(r)'
  BY <1>1, <1>2, <1>3 DEF Noted
<1>. QED  BY <1>1, <1>2, <1>3, <1>7, <1>8, RoundSet DEF KInv, Histories

LEMMA EndKeeps ==
  ASSUME IInv, KInv, NEW h \in Hosts, EndRound(h)
  PROVE  KInv'
<1>0. PICK r : r = NoRound
  OBVIOUS
<1>1. /\ r \in RoundType /\ r.at = "off" /\ r.who = {} /\ DOMAIN r.rows = {}
      /\ round' = [round EXCEPT ![h] = r] /\ round[h].at # "off"
  BY <1>0, NoRoundType, NoRoundIs DEF EndRound
<1>2. UNCHANGED <<plan, lastRun, boot, spawned, ties, passed, skipped, edited>>
  BY DEF EndRound
<1>4. ASSUME NEW s \in Plans \ edited  PROVE Kept(s, r)'
  <2>1. /\ round[h].at = "due" /\ DOMAIN round[h].rows = {} /\ lastRun = round[h].now
        /\ Kept(s, round[h])
    BY DEF EndRound, KInv, IInv, RoundsWithin, Within
  <2>2. Settled(s, r)'
    BY <1>1, <1>2, <2>1 DEF Kept, Settled, Handled
  <2>3. AsRead(s, r)' /\ Behind(s, r)'
    BY <1>1, <1>2, <2>1 DEF Kept, AsRead, Behind, Missed, Excused
  <2>. QED  BY <1>2, <2>1, <2>2, <2>3 DEF Kept
<1>5. Noted(r)'
  BY <1>1 DEF Noted
<1>. QED  BY <1>0, <1>1, <1>2, <1>4, <1>5, RoundSet DEF KInv, Histories

(* A round that breaks off: what it had to launch is noted as skipped. *)
LEMMA LeaveOffKeeps ==
  ASSUME IInv, KInv, NEW h \in Hosts, BreakOff(h) \/ \E s \in Plans : RenewalRaises(h, s)
  PROVE  KInv'
<1>0. PICK r : r = NoRound
  OBVIOUS
<1>1. /\ r \in RoundType /\ r.at = "off" /\ r.who = {} /\ DOMAIN r.rows = {}
      /\ round' = [round EXCEPT ![h] = r] /\ round[h].at # "off"
      /\ round[h] \in RoundType /\ Within(h) /\ Noted(round[h])
  BY <1>0, NoRoundType, NoRoundIs
     DEF BreakOff, RenewalRaises, LeaveOff, IInv, Types, RoundsWithin, KInv
<1>2. /\ UNCHANGED <<plan, lastRun, boot, spawned, ties, passed, edited>>
      /\ skipped' = [s \in Plans |-> IF s \in DOMAIN Undone(h)
                                       THEN skipped[s] \cup {Undone(h)[s].next} ELSE skipped[s]]
  BY DEF BreakOff, RenewalRaises, LeaveOff
<1>. DEFINE D == Due(round[h].last, round[h].now)
<1>3. /\ round[h].at = "overdue" => Undone(h) = Read(D)
      /\ round[h].at \in {"due", "spawn"} => Undone(h) = round[h].rows
      /\ round[h].at \notin {"overdue", "due", "spawn"} => Undone(h) = NoRows
  BY DEF Undone
<1>4. /\ Read(D) \in Reading /\ DOMAIN Read(D) = D
      /\ \A s \in D : Read(D)[s] = plan[s]
      /\ \A s \in Plans : /\ plan[s].next \in Nat
                          /\ s \in D <=> /\ plan[s].enabled /\ plan[s].next # 0
                                        /\ round[h].last < plan[s].next
                                        /\ plan[s].next < round[h].now
  <2>1. D \in SUBSET Plans
    BY DEF Due, Enabled
  <2>2. \A s \in Plans : /\ plan[s].next \in Nat
                         /\ s \in D <=> /\ plan[s].enabled /\ plan[s].next # 0
                                       /\ round[h].last < plan[s].next
                                       /\ plan[s].next < round[h].now
    BY DEF Due, Enabled, IInv, Types, PlanRow
  <2>. HIDE DEF D
  <2>. QED  BY <2>1, <2>2, ReadType DEF IInv
<1>. HIDE DEF D
<1>5. Undone(h) \in Reading
  <2>1. round[h].rows \in Reading
    BY <1>1 DEF RoundType
  <2>. QED  BY <1>3, <1>4, <2>1, NoRoundType
<1>6. \A s \in Plans : /\ skipped[s] \subseteq skipped'[s]
                       /\ s \in DOMAIN Undone(h) => Undone(h)[s].next \in skipped'[s]
  BY <1>2
<1>7. skipped' \in [Plans -> SUBSET Nat]
  <2>1. \A s \in DOMAIN Undone(h) : Undone(h)[s].next \in Nat
    BY <1>5, ReadingType DEF PlanRow
  <2>. QED  BY <1>2, <2>1 DEF KInv, Histories
<1>8. ASSUME NEW s \in Plans \ edited  PROVE Kept(s, r)'
  <2>1. Kept(s, round[h])
    BY <1>1 DEF KInv
  <2>2. ASSUME NEW u, Handled(s, u, round[h])  PROVE Handled(s, u, r)'
    <3>1. CASE u \in Range(spawned[s]) \cup passed[s] \cup skipped[s] \cup ties
      BY <1>2, <1>6, <3>1 DEF Handled
    <3>2. CASE round[h].at = "spawn" /\ s \in round[h].who /\ u = round[h].rows[s].next
      BY <1>1, <1>3, <1>6, <3>2 DEF Handled, Within
    <3>. QED  BY <2>2, <3>1, <3>2 DEF Handled
  <2>3. Settled(s, r)'
    BY <1>2, <2>1, <2>2 DEF Kept, Settled
  <2>4. AsRead(s, r)'
    BY <1>1 DEF AsRead
  <2>5. ASSUME Missed(s, lastRun)  PROVE plan[s].next \in ties \cup skipped'[s]
    <3>1. CASE round[h].at = "save"
      BY <1>6, <2>1, <2>5, <3>1 DEF Kept, Behind, Excused
    <3>2. CASE round[h].at = "overdue"
      <4>1. lastRun = round[h].now /\ round[h].last \in Nat /\ round[h].last \in ties
        BY <1>1, <3>2 DEF Within, RoundType, Noted
      <4>2. CASE Missed(s, round[h].last)
        BY <1>6, <2>1, <3>2, <4>2 DEF Kept, Behind, Excused
      <4>3. CASE ~Missed(s, round[h].last)
        <5>1. plan[s].next = round[h].last \/ s \in D
          BY <1>4, <2>1, <2>5, <4>1, <4>3 DEF Missed, Kept
        <5>2. s \in D => plan[s].next \in skipped'[s]
          BY <1>3, <1>4, <1>6, <3>2
        <5>. QED  BY <4>1, <5>1, <5>2
      <4>. QED  BY <4>2, <4>3
    <3>3. CASE round[h].at \in {"due", "spawn"}
      <4>1. lastRun = round[h].now /\ round[h].now \in Nat /\ plan[s].next \in Nat
        BY <1>1, <1>4, <3>3 DEF Within, RoundType
      <4>2. CASE plan[s].next \in Excused(s)
        BY <1>6, <4>2 DEF Excused
      <4>3. CASE s \in DOMAIN round[h].rows \ round[h].who
        <5>1. plan[s].next = round[h].rows[s].next
          BY <2>1, <2>5, <4>1, <4>3 DEF Kept, AsRead, Missed
        <5>. QED  BY <1>3, <1>6, <3>3, <4>3, <5>1
      <4>. QED  BY <2>1, <2>5, <3>3, <4>1, <4>2, <4>3 DEF Kept, Behind
    <3>. QED  BY <1>1, <3>1, <3>2, <3>3 DEF RoundType
  <2>6. Behind(s, r)'
    BY <1>1, <1>2, <2>5 DEF Behind, Missed, Excused
  <2>. QED  BY <1>2, <2>1, <2>3, <2>4, <2>6 DEF Kept
<1>9. Noted(r)'
  BY <1>1 DEF Noted
<1>. QED  BY <1>0, <1>1, <1>2, <1>7, <1>8, <1>9, RoundSet DEF KInv, Histories

-----------------------------------------------------------------------------
(* A dispatcher that starts.                                                *)

LEMMA StartKeeps ==
  ASSUME IInv, KInv, NEW h \in Hosts, StartDispatcher(h)
  PROVE  KInv'
<1>1. /\ boot' = [boot EXCEPT ![h] = Read(Plans)]
      /\ UNCHANGED <<plan, lastRun, round, spawned, ties, passed, skipped, edited>>
  BY DEF StartDispatcher
<1>2. \A s \in Plans : Read(Plans)[s] = plan[s]
  BY ReadType DEF IInv
<1>3. \A k \in Hosts : StartReads(k)'
  <2>1. StartReads(h)'
    BY <1>1, <1>2 DEF StartReads, IInv, Types
  <2>2. \A k \in Hosts \ {h} : StartReads(k)'
    BY <1>1 DEF StartReads, IInv, Types, KInv
  <2>. QED  BY <2>1, <2>2
<1>. QED  BY <1>1, <1>3 DEF KInv, Histories, Noted, Kept, Settled, Handled, AsRead, Behind, Missed,
                             Excused

(* Renewing a row moves next_run past now, and notes what it moves past. *)
LEMMA RenewAtStartKeeps ==
  ASSUME IInv, KInv, NEW h \in Hosts, NEW s \in Plans, RenewAtStart(h, s)
  PROVE  KInv'
<1>1. /\ boot' = [boot EXCEPT ![h] = Without(boot[h], s)] /\ s \in DOMAIN boot[h]
      /\ boot[h] \in Reading
      /\ UNCHANGED <<time, lastRun, round, spawned, ties, passed, edited>>
      /\ \/ UNCHANGED <<plan, skipped>>
         \/ \E next \in Nat :
              /\ next = IF boot[h][s].enabled THEN NextAfter(boot[h][s].rule, time) ELSE 0
              /\ plan' = [plan EXCEPT ![s].next = next]
              /\ skipped' = [skipped EXCEPT ![s] = @ \cup
                   {u \in boot[h][s].rule : plan[s].next <= u /\ u <= time}]
  BY RenewedAtStart
<1>2. /\ DOMAIN Without(boot[h], s) \subseteq DOMAIN boot[h]
      /\ \A x \in DOMAIN Without(boot[h], s) : Without(boot[h], s)[x] = boot[h][x]
  <2>. DEFINE R == boot[h]
  <2>1. R \in Reading
    BY <1>1
  <2>. HIDE DEF R
  <2>2. DOMAIN Without(R, s) = DOMAIN R \ {s} /\ \A x \in DOMAIN R \ {s} : Without(R, s)[x] = R[x]
    BY <2>1, WithoutType
  <2>. QED  BY <2>2 DEF R
<1>3. \A x \in Plans : plan'[x].rule = plan[x].rule /\ plan'[x].enabled = plan[x].enabled
  <2>1. CASE plan' = plan
    BY <2>1
  <2>2. ASSUME NEW next \in Nat, plan' = [plan EXCEPT ![s].next = next]
        PROVE  \A x \in Plans : plan'[x].rule = plan[x].rule /\ plan'[x].enabled = plan[x].enabled
    BY <2>2 DEF IInv, Types, PlanRow
  <2>. QED  BY <1>1, <2>1, <2>2
<1>4. \A k \in Hosts : StartReads(k)'
  <2>1. StartReads(h)'
    BY <1>1, <1>2, <1>3 DEF StartReads, IInv, Types, KInv
  <2>2. \A k \in Hosts \ {h} : StartReads(k)'
    BY <1>1, <1>3 DEF StartReads, IInv, Types, KInv
  <2>. QED  BY <2>1, <2>2
<1>5. CASE UNCHANGED <<plan, skipped>>
  BY <1>1, <1>4, <1>5 DEF KInv, Histories, Noted, Kept, Settled, Handled, AsRead, Behind, Missed, Excused
<1>6. ASSUME NEW next \in Nat,
             next = IF boot[h][s].enabled THEN NextAfter(boot[h][s].rule, time) ELSE 0,
             plan' = [plan EXCEPT ![s].next = next],
             skipped' = [skipped EXCEPT ![s] = @ \cup
                          {u \in boot[h][s].rule : plan[s].next <= u /\ u <= time}]
      PROVE  KInv'
  <2>1. /\ boot[h][s].rule \in Rules /\ boot[h][s].rule \subseteq Nat
        /\ time \in Nat /\ lastRun \in Nat /\ lastRun <= time /\ plan[s].next \in Nat
    BY <1>1, ReadingType, ScheduleAssumption, TimeType DEF PlanRow, IInv, Types, Past
  <2>2. /\ \A x \in Plans \ {s} : plan'[x] = plan[x] /\ skipped'[x] = skipped[x]
        /\ plan'[s].next = next
        /\ skipped'[s] = skipped[s] \cup {u \in boot[h][s].rule : plan[s].next <= u /\ u <= time}
    BY <1>6 DEF IInv, Types, PlanRow, KInv, Histories
  <2>3. Histories'
    <3>1. {u \in boot[h][s].rule : plan[s].next <= u /\ u <= time} \in SUBSET Nat
      BY <2>1
    <3>. QED  BY <1>1, <1>6, <3>1 DEF KInv, Histories
  <2>4. ASSUME NEW x \in Plans \ edited, NEW r \in RoundType, Kept(x, r),
               IF r.at = "off" THEN DOMAIN r.rows = {} ELSE r.now <= time /\ r.last <= r.now
        PROVE  Kept(x, r)'
    <3>1. CASE x # s
      <4>1. plan'[x] = plan[x] /\ skipped'[x] = skipped[x]
        BY <2>2, <3>1
      <4>. QED  BY <1>1, <2>4, <4>1 DEF Kept, Settled, Handled, AsRead, Behind, Missed, Excused
    <3>2. CASE x = s
      <4>1. boot[h][s].rule = plan[s].rule /\ boot[h][s].enabled /\ plan[s].enabled
        BY <1>1, <2>4, <3>2 DEF KInv, StartReads, Kept
      <4>2. /\ next = 0 \/ next > time
            /\ \A u \in plan[s].rule \ Imaginary : u < next \/ next = 0 => u <= time
        BY <1>6, <2>1, <4>1, NextAfterLeast
      <4>3. ASSUME NEW u \in plan[s].rule \ Imaginary, u < next \/ next = 0
            PROVE  Handled(s, u, r)'
        <5>1. u <= time /\ u \in Nat
          BY <2>1, <4>1, <4>2, <4>3
        <5>2. CASE u < plan[s].next \/ plan[s].next = 0
          <6>1. Handled(s, u, r)
            BY <2>4, <3>2, <5>2 DEF Kept, Settled
          <6>. QED  BY <1>1, <2>2, <6>1 DEF Handled
        <5>3. CASE plan[s].next <= u
          BY <2>2, <4>1, <5>1, <5>3 DEF Handled
        <5>. QED  BY <2>1, <5>1, <5>2, <5>3
      <4>4. Settled(s, r)'
        BY <1>3, <2>2, <4>3 DEF Settled
      <4>5. r.now \in Nat /\ r.last \in Nat
        BY DEF RoundType
      <4>6. AsRead(s, r)'
        <5>1. DOMAIN r.rows = {} \/ next = 0 \/ next >= r.now
          BY <2>1, <2>4, <4>2, <4>5
        <5>. QED  BY <1>1, <1>3, <2>2, <2>4, <3>2, <4>2, <4>5, <5>1 DEF Kept, AsRead
      <4>7. Behind(s, r)'
        BY <1>1, <2>1, <2>2, <2>4, <4>2, <4>5 DEF Behind, Missed
      <4>. QED  BY <1>3, <2>4, <3>2, <4>4, <4>6, <4>7 DEF Kept
    <3>. QED  BY <3>1, <3>2
  <2>5. \A k \in Hosts : /\ Noted(round[k])'
                         /\ round[k] \in RoundType
                         /\ round[k].at # "off" => round[k].now <= time /\ round[k].last <= round[k].now
    BY <1>1 DEF KInv, Noted, IInv, Types, RoundsWithin, Within
  <2>6. ASSUME NEW x \in Plans \ edited'
        PROVE  /\ (\A k \in Hosts : round'[k].at = "off") => Kept(x, NoRound)'
               /\ \A k \in Hosts : round'[k].at # "off" => Kept(x, round[k])'
    <3>1. (\A k \in Hosts : round'[k].at = "off") => Kept(x, NoRound)'
      BY <1>1, <2>4, NoRoundType, NoRoundIs DEF KInv
    <3>2. ASSUME NEW k \in Hosts, round'[k].at # "off"  PROVE Kept(x, round[k])'
      <4>1. PICK r \in RoundType : r = round[k]
        BY <2>5
      <4>2. Kept(x, r)'
        BY <1>1, <2>4, <2>5, <3>2, <4>1 DEF KInv
      <4>. QED  BY <1>1, <4>1, <4>2 DEF Kept, Settled, Handled, AsRead, Behind, Missed, Excused
    <3>. QED  BY <3>1, <3>2
  <2>. QED  BY <1>4, <2>3, <2>5, <2>6 DEF KInv
<1>. QED  BY <1>1, <1>5, <1>6

-----------------------------------------------------------------------------
LEMMA IdleKeeps ==
  ASSUME IInv, KInv, TimeGoesOn \/ (\E s \in Plans : EditSchedule(s)) \/ UNCHANGED planVars
  PROVE  KInv'
<1>1. UNCHANGED <<lastRun, round, boot, spawned, ties, passed, skipped>> /\ edited \subseteq edited'
      /\ \A s \in Plans \ edited' : plan'[s] = plan[s]
  BY DEF TimeGoesOn, EditSchedule, planVars, IInv, Types
<1>2. ASSUME NEW s \in Plans \ edited', NEW h \in Hosts, Kept(s, round[h])
      PROVE  Kept(s, round[h])'
  BY <1>1, <1>2 DEF Kept, Settled, Handled, AsRead, Behind, Missed, Excused
<1>3. ASSUME NEW s \in Plans \ edited', Kept(s, NoRound)
      PROVE  Kept(s, NoRound)'
  BY <1>1, <1>3, NoRoundIs DEF Kept, Settled, Handled, AsRead, Behind, Missed, Excused
<1>4. \A h \in Hosts : Noted(round[h])' /\ StartReads(h)'
  <2>1. \A h \in Hosts : StartReads(h)'
    BY <1>1 DEF KInv, StartReads
  <2>. QED  BY <1>1, <2>1 DEF KInv, Noted
<1>. QED  BY <1>1, <1>2, <1>3, <1>4 DEF KInv, Histories

LEMMA KeptInvariance == IInv /\ KInv /\ [ScheduleNext]_planVars => KInv'
<1>. SUFFICES ASSUME IInv, KInv, [ScheduleNext]_planVars  PROVE KInv'
  OBVIOUS
<1>1. CASE TimeGoesOn \/ (\E s \in Plans : EditSchedule(s)) \/ UNCHANGED planVars
  BY <1>1, IdleKeeps
<1>2. ASSUME NEW h \in Hosts,
             \/ BeginRound(h) \/ SaveLastRun(h) \/ ReadDue(h) \/ EndRound(h) \/ BreakOff(h)
             \/ StartDispatcher(h)
      PROVE  KInv'
  BY <1>2, BeginKeeps, SaveKeeps, ReadDueKeeps, EndKeeps, LeaveOffKeeps, StartKeeps
<1>3. ASSUME NEW h \in Hosts, NEW s \in Plans,
             \/ RenewOverdue(h, s) \/ RenewDue(h, s) \/ Spawn(h, s)
             \/ RenewalRaises(h, s) \/ RenewAtStart(h, s)
      PROVE  KInv'
  BY <1>3, RenewOverdueKeeps, RenewDueKeeps, SpawnKeeps, LeaveOffKeeps, RenewAtStartKeeps
<1>. QED  BY <1>1, <1>2, <1>3 DEF ScheduleNext

(* No run of a schedule that is not edited is left out but those that went by while one
   before was waiting, those at the very begin of a round, those that a round had to
   launch when it broke off, and those that a starting dispatcher moved next_run past,
   whatever the rules, however many the hosts (system.py 94-99 and 727-745,
   schedules.py 42-49). *)
THEOREM RunsKeptAlways == ScheduleSpec => []RunsKept
<1>1. KInv => RunsKept
  <2>. SUFFICES ASSUME KInv, \A h \in Hosts : round[h].at = "off",
                       NEW s \in Plans \ edited, NEW u \in plan[s].rule \ Imaginary,
                       u < plan[s].next \/ plan[s].next = 0
                PROVE  u \in Range(spawned[s]) \cup passed[s] \cup skipped[s] \cup ties
    BY DEF RunsKept
  <2>1. Kept(s, NoRound)
    BY DEF KInv
  <2>. QED  BY <2>1, NoRoundIs DEF Kept, Settled, Handled
<1>2. ScheduleSpec => []KInv
  BY Invariant, KeptInitially, KeptInvariance, PTL DEF ScheduleSpec
<1>. QED  BY <1>1, <1>2, PTL
=============================================================================
