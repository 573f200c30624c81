------------------------ MODULE DispatchPool_proofs ------------------------
(***************************************************************************)
(* Proofs about DispatchPool for any set of tasks, any pool sizes and any  *)
(* choice of crashes: type correctness, Tracked, SingleCopy, Accounted and *)
(* the refinement of TaskDelivery.                                         *)
(***************************************************************************)
EXTENDS DispatchPool, FiniteSetTheorems, SequenceTheorems, TLAPS

(* Lemmas about sequences.                                                 *)

\* Appending adds one element, and repeats nothing that is new or QUIT.
LEMMA AppendFacts ==
  ASSUME NEW S, NEW s \in Seq(S), NEW x \in S
  PROVE  /\ Append(s, x) \in Seq(S)
         /\ ToSet(Append(s, x)) = ToSet(s) \cup {x}
         /\ Append(s, x) # <<>>
         /\ NoRepeat(s) /\ (x = QUIT \/ x \notin ToSet(s)) => NoRepeat(Append(s, x))
<1> DEFINE a == Append(s, x)
<1>1. /\ a \in Seq(S) /\ a # <<>>
      /\ DOMAIN a = 1 .. Len(s) + 1 /\ DOMAIN s = 1 .. Len(s) /\ Len(s) \in Nat
      /\ \A i \in 1 .. Len(s) : a[i] = s[i]
      /\ a[Len(s) + 1] = x
  <2>1. a \in Seq(S) /\ Len(a) = Len(s) + 1 /\ Len(s) \in Nat
    OBVIOUS
  <2>2. DOMAIN a = 1 .. Len(s) + 1 /\ DOMAIN s = 1 .. Len(s) /\ a # <<>>
    BY <2>1
  <2>3. (\A i \in 1 .. Len(s) : a[i] = s[i]) /\ a[Len(s) + 1] = x
    OBVIOUS
  <2> QED BY <2>1, <2>2, <2>3
<1>2. ToSet(a) = ToSet(s) \cup {x}
  <2>1. ToSet(a) \subseteq ToSet(s) \cup {x}
    BY <1>1 DEF ToSet
  <2>2. ToSet(s) \subseteq ToSet(a)
    BY <1>1 DEF ToSet
  <2>3. x \in ToSet(a)
    <3>1. Len(s) + 1 \in DOMAIN a
      BY <1>1
    <3> QED BY <3>1, <1>1 DEF ToSet
  <2> QED BY <2>1, <2>2, <2>3
<1>3. NoRepeat(s) /\ (x = QUIT \/ x \notin ToSet(s)) => NoRepeat(a)
  <2> SUFFICES ASSUME NoRepeat(s), x = QUIT \/ x \notin ToSet(s),
                      NEW i \in DOMAIN a, NEW j \in DOMAIN a, a[i] = a[j], a[i] # QUIT
               PROVE  i = j
    BY DEF NoRepeat
  <2> HIDE DEF a
  <2>1. CASE i \in DOMAIN s /\ j \in DOMAIN s
    BY <2>1, <1>1 DEF NoRepeat
  <2>2. CASE i \in DOMAIN s /\ j = Len(s) + 1
    BY <2>2, <1>1 DEF ToSet
  <2>3. CASE i = Len(s) + 1 /\ j \in DOMAIN s
    BY <2>3, <1>1 DEF ToSet
  <2>4. CASE i = Len(s) + 1 /\ j = Len(s) + 1
    BY <2>4
  <2> QED BY <2>1, <2>2, <2>3, <2>4, <1>1
<1> QED BY <1>1, <1>2, <1>3

\* Taking the head leaves the rest, in which the head does not recur.
LEMMA TailFacts ==
  ASSUME NEW S, NEW s \in Seq(S), s # <<>>
  PROVE  /\ Head(s) \in S /\ Tail(s) \in Seq(S)
         /\ ToSet(s) = {Head(s)} \cup ToSet(Tail(s))
         /\ NoRepeat(s) => /\ NoRepeat(Tail(s))
                           /\ Head(s) # QUIT => Head(s) \notin ToSet(Tail(s))
<1> DEFINE t == Tail(s)
<1>1. /\ t \in Seq(S) /\ Head(s) = s[1] /\ 1 \in DOMAIN s /\ Len(s) \in Nat
      /\ DOMAIN s = 1 .. Len(s) /\ DOMAIN t = 1 .. Len(s) - 1
      /\ \A i \in DOMAIN t : i + 1 \in DOMAIN s /\ t[i] = s[i + 1]
      /\ \A i \in DOMAIN s : i = 1 \/ (i - 1 \in DOMAIN t /\ t[i - 1] = s[i])
      /\ s[1] \in S
  OBVIOUS
<1> HIDE DEF t
<1>2. ToSet(s) = {Head(s)} \cup ToSet(t)
  BY <1>1 DEF ToSet
<1>3. NoRepeat(s) => NoRepeat(t)
  <2> SUFFICES ASSUME NoRepeat(s), NEW i \in DOMAIN t, NEW j \in DOMAIN t, t[i] = t[j], t[i] # QUIT
               PROVE  i = j
    BY DEF NoRepeat
  <2>1. i + 1 = j + 1
    BY <1>1 DEF NoRepeat
  <2> QED BY <2>1, <1>1
<1>4. NoRepeat(s) /\ Head(s) # QUIT => Head(s) \notin ToSet(t)
  <2> SUFFICES ASSUME NoRepeat(s), Head(s) # QUIT, NEW i \in DOMAIN t, t[i] = Head(s)
               PROVE  FALSE
    BY DEF ToSet
  <2>1. i + 1 = 1
    BY <1>1 DEF NoRepeat
  <2> QED BY <2>1, <1>1
<1> QED BY <1>1, <1>2, <1>3, <1>4 DEF t

\* Removing a position loses at most the element that was there, and that one if it
\* does not recur.
LEMMA RemoveFacts ==
  ASSUME NEW S, NEW s \in Seq(S), NEW i \in 1 .. Len(s)
  PROVE  /\ RemoveAt(s, i) \in Seq(S)
         /\ ToSet(s) \ {s[i]} \subseteq ToSet(RemoveAt(s, i))
         /\ NoRepeat(s) /\ s[i] # QUIT => /\ NoRepeat(RemoveAt(s, i))
                                         /\ ToSet(RemoveAt(s, i)) \subseteq ToSet(s) \ {s[i]}
<1> DEFINE r == RemoveAt(s, i)
<1>1. /\ r \in Seq(S) /\ Len(r) = Len(s) - 1 /\ Len(s) \in Nat
      /\ DOMAIN r = 1 .. Len(s) - 1 /\ DOMAIN s = 1 .. Len(s)
      /\ \A j \in 1 .. i - 1 : r[j] = s[j]
      /\ \A j \in i .. Len(s) - 1 : r[j] = s[j + 1]
  <2> DEFINE u == SubSeq(s, 1, i - 1)
             v == SubSeq(s, i + 1, Len(s))
  <2>1. /\ Len(s) \in Nat /\ i \in Nat /\ DOMAIN s = 1 .. Len(s)
        /\ u \in Seq(S) /\ Len(u) = i - 1 /\ \A j \in 1 .. i - 1 : u[j] = s[j]
    OBVIOUS
  <2>2. v \in Seq(S) /\ Len(v) = Len(s) - i /\ \A j \in 1 .. Len(s) - i : v[j] = s[i + j]
    <3>1. CASE i = Len(s)
      <4>1. Len(s) + 1 \in Int /\ Len(s) \in Int /\ Len(s) < Len(s) + 1
        BY <2>1
      <4>2. SubSeq(s, Len(s) + 1, Len(s)) = <<>>
        BY <4>1, SubSeqEmpty, Zenon
      <4> QED BY <3>1, <4>1, <4>2
    <3>2. CASE i # Len(s)
      <4>1. i + 1 \in 1 .. Len(s) /\ Len(s) - (i + 1) + 1 = Len(s) - i
        <5> HIDE DEF u, v, r
        <5>1. ASSUME NEW n \in Nat, NEW k \in 1 .. n, k # n
              PROVE  k + 1 \in 1 .. n /\ n - (k + 1) + 1 = n - k
          BY <5>1
        <5> QED BY <5>1, <3>2, <2>1
      <4>2. v \in Seq(S) /\ Len(v) = Len(s) - i
        BY <4>1
      <4>3. ASSUME NEW j \in 1 .. Len(s) - i
            PROVE  v[j] = s[i + j]
        BY <4>1, <2>1
      <4> QED BY <4>2, <4>3
    <3> QED BY <3>1, <3>2
  <2>3. r = u \o v
    BY DEF RemoveAt
  <2> HIDE DEF u, v, r
  <2>4. r \in Seq(S) /\ Len(r) = Len(s) - 1
    <3>1. r \in Seq(S) /\ Len(r) = Len(u) + Len(v)
      BY <2>1, <2>2, <2>3, ConcatProperties, Zenon
    <3> QED BY <3>1, <2>1, <2>2
  <2>5. DOMAIN r = 1 .. Len(s) - 1
    BY <2>4, <2>1
  <2>6. \A j \in 1 .. i - 1 : r[j] = s[j]
    BY <2>1, <2>2, <2>3
  <2>7. ASSUME NEW j \in i .. Len(s) - 1
        PROVE  r[j] = s[j + 1]
    <3>1. r[j] = v[j - (i - 1)] /\ j - (i - 1) \in 1 .. Len(s) - i
      BY <2>1, <2>2, <2>3
    <3>2. i + (j - (i - 1)) = j + 1
      BY <2>1
    <3> QED BY <3>1, <3>2, <2>2
  <2> QED BY <2>1, <2>4, <2>5, <2>6, <2>7
<1> HIDE DEF r
<1>2. ASSUME NEW j \in DOMAIN s, j # i
      PROVE  s[j] \in ToSet(r)
  <2>1. CASE j < i
    <3>1. j \in DOMAIN r /\ r[j] = s[j]
      BY <2>1, <1>1
    <3> QED BY <3>1 DEF ToSet
  <2>2. CASE j > i
    <3>1. j - 1 \in DOMAIN r /\ r[j - 1] = s[j]
      BY <2>2, <1>1
    <3> QED BY <3>1 DEF ToSet
  <2> QED BY <2>1, <2>2, <1>2, <1>1
<1>3. ToSet(s) \ {s[i]} \subseteq ToSet(r)
  BY <1>2 DEF ToSet
<1>4. ASSUME NEW j \in DOMAIN r
      PROVE  \E k \in DOMAIN s : k # i /\ r[j] = s[k] /\ k = IF j < i THEN j ELSE j + 1
  <2>1. CASE j < i
    <3>1. j \in DOMAIN s /\ j \in 1 .. i - 1 /\ j # i
      BY <2>1, <1>1
    <3> QED BY <2>1, <3>1, <1>1
  <2>2. CASE ~(j < i)
    <3>1. j + 1 \in DOMAIN s /\ j \in i .. Len(s) - 1 /\ j + 1 # i
      BY <2>2, <1>1
    <3> QED BY <2>2, <3>1, <1>1
  <2> QED BY <2>1, <2>2
<1>5. NoRepeat(s) /\ s[i] # QUIT => NoRepeat(r) /\ ToSet(r) \subseteq ToSet(s) \ {s[i]}
  <2> SUFFICES ASSUME NoRepeat(s), s[i] # QUIT
               PROVE  NoRepeat(r) /\ ToSet(r) \subseteq ToSet(s) \ {s[i]}
    OBVIOUS
  <2>1. ASSUME NEW j \in DOMAIN r, NEW k \in DOMAIN r, r[j] = r[k], r[j] # QUIT
        PROVE  j = k
    <3>1. PICK x \in DOMAIN s : r[j] = s[x] /\ x = IF j < i THEN j ELSE j + 1
      BY <1>4
    <3>2. PICK y \in DOMAIN s : r[k] = s[y] /\ y = IF k < i THEN k ELSE k + 1
      BY <1>4
    <3>3. x = y
      BY <2>1, <3>1, <3>2 DEF NoRepeat
    <3> QED BY <3>1, <3>2, <3>3, <1>1
  <2>2. ASSUME NEW j \in DOMAIN r
        PROVE  r[j] \in ToSet(s) \ {s[i]}
    <3>1. PICK k \in DOMAIN s : k # i /\ r[j] = s[k]
      BY <1>4
    <3>2. i \in DOMAIN s
      BY <1>1
    <3> QED BY <3>1, <3>2 DEF NoRepeat, ToSet
  <2> QED BY <2>1, <2>2 DEF NoRepeat, ToSet
<1> QED BY <1>1, <1>3, <1>5 DEF r

\* The empty sequence.
LEMMA EmptyFacts ==
  ASSUME NEW S
  PROVE  <<>> \in Seq(S) /\ ToSet(<<>>) = {} /\ NoRepeat(<<>>)
BY DEF ToSet, NoRepeat
-----------------------------------------------------------------------------
(* Type correctness.                                                       *)

LEMMA InitType == Init => TypeOK
<1> SUFFICES ASSUME Init PROVE TypeOK
  OBVIOUS
<1>1. <<>> \in Seq(Tasks) /\ <<>> \in Seq(Tasks \cup {QUIT})
  BY EmptyFacts
<1>2. MinWorkers <= MaxWorkers /\ Cardinality(workers) <= MaxWorkers
  BY PoolAssumption DEF Init
<1> QED BY <1>1, <1>2 DEF Init, TypeOK, Alive, Dead, Terminal

\* up() keeps the pool within its maximum.
LEMMA GrownFacts ==
  ASSUME TypeOK, NEW ws \in Grown \cup {workers}
  PROVE  ws \subseteq Pids /\ workers \subseteq ws /\ Cardinality(ws) <= MaxWorkers
<1>1. CASE ws = workers
  BY <1>1 DEF TypeOK
<1>2. CASE ws # workers
  <2>1. ~Full
    BY <1>2 DEF Grown
  <2>2. PICK p \in Pids \ workers : ws = workers \cup {p}
    BY <2>1, <1>2 DEF Grown, Spare
  <2>3. IsFiniteSet(workers)
    BY PoolAssumption, FS_Subset DEF TypeOK
  <2>4. Cardinality(ws) = Cardinality(workers) + 1 /\ Cardinality(workers) \in Nat
    BY <2>2, <2>3, FS_AddElement, FS_CardinalityType
  <2> QED BY <2>1, <2>2, <2>4, PoolAssumption DEF TypeOK, Full
<1> QED BY <1>1, <1>2

LEMMA PutType ==
  ASSUME TypeOK, NEW m \in Tasks, NEW recorded, NEW receivers, Put(m, recorded, receivers)
  PROVE  /\ managed' \in [Pids -> Seq(Tasks)]
         /\ queue' \in [Pids -> Seq(Tasks \cup {QUIT})]
         /\ lost' \subseteq Tasks /\ refused' \subseteq Tasks
<1>1. ASSUME NEW p \in Pids
      PROVE  Append(managed[p], m) \in Seq(Tasks) /\ Append(queue[p], m) \in Seq(Tasks \cup {QUIT})
  BY AppendFacts DEF TypeOK
<1> QED BY <1>1 DEF TypeOK, Put

LEMMA WriteType ==
  ASSUME TypeOK, NEW m \in Tasks, Write(m)
  PROVE  /\ managed' \in [Pids -> Seq(Tasks)]
         /\ queue' \in [Pids -> Seq(Tasks \cup {QUIT})]
         /\ lost' \subseteq Tasks /\ refused' \subseteq Tasks
         /\ proc' \in [Pids -> Alive \cup Dead]
         /\ workers' \subseteq Pids /\ workers \subseteq workers' /\ Cardinality(workers') <= MaxWorkers
<1>1. workers' \in Grown \cup {workers}
  BY DEF Write
<1>2. \E recorded, receivers : Put(m, recorded, receivers)
  BY DEF Write
<1>3. proc' \in [Pids -> Alive \cup Dead]
  BY DEF Write, TypeOK, Alive, Dead
<1> QED BY <1>1, <1>2, <1>3, PutType, GrownFacts

LEMMA NextType == TypeOK /\ Working /\ [Next]_vars => TypeOK'
<1> SUFFICES ASSUME TypeOK, Working, [Next]_vars PROVE TypeOK'
  OBVIOUS
<1> USE DEF procVars, mainVars, dbVars, Alive, Dead, Terminal
<1>0. <<>> \in Seq(Tasks) /\ <<>> \in Seq(Tasks \cup {QUIT})
  BY EmptyFacts
<1>1. ASSUME NEW t \in Tasks, Submit(t) \/ RequestCancel(t) \/ SaveCanceled(t) PROVE TypeOK'
  <2>1. control' \subseteq Tasks \X {1, 2}
    BY <1>1 DEF TypeOK, Submit, RequestCancel, SaveCanceled
  <2>2. status' \in [Tasks -> Terminal \cup {"pending", "waiting", "running"}]
    BY <1>1 DEF TypeOK, Submit, RequestCancel, SaveCanceled
  <2>3. asked' \subseteq Tasks /\ bus' \subseteq Tasks /\ cancelFlag' \in [Tasks -> BOOLEAN]
    BY <1>1 DEF TypeOK, Submit, RequestCancel, SaveCanceled
  <2>4. UNCHANGED <<phase, todo, orphaned, workers, managed, procVars, lost, refused>>
    BY <1>1 DEF Submit, RequestCancel, SaveCanceled
  <2> QED BY <2>1, <2>2, <2>3, <2>4 DEF TypeOK
<1>2. ASSUME NEW p \in Pids, Take(p) PROVE TypeOK'
  <2>1. queue[p] # <<>> /\ queue[p] \in Seq(Tasks \cup {QUIT})
    BY <1>2 DEF Take, TypeOK
  <2>2. Head(queue[p]) \in Tasks \cup {QUIT} /\ Tail(queue[p]) \in Seq(Tasks \cup {QUIT})
    BY <2>1, TailFacts
  <2>3. queue' \in [Pids -> Seq(Tasks \cup {QUIT})]
    BY <1>2, <1>0, <2>2 DEF TypeOK, Take
  <2>4. task' \in [Pids -> Tasks \cup {None}]
    <3>1. CASE task' = [task EXCEPT ![p] = Head(queue[p])] /\ Head(queue[p]) # QUIT
      BY <2>2, <3>1 DEF TypeOK
    <3>2. CASE UNCHANGED task
      BY <3>2 DEF TypeOK
    <3> QED BY <1>2, <3>1, <3>2 DEF Take
  <2>5. proc' \in [Pids -> Alive \cup Dead]
    BY <1>2 DEF TypeOK, Take
  <2>6. UNCHANGED <<mainVars, sigterm, unflushed, dbVars>>
    BY <1>2 DEF Take
  <2> QED BY <2>3, <2>4, <2>5, <2>6 DEF TypeOK
<1>3. ASSUME NEW p \in Pids, task[p] \in Tasks, Done(p)
      PROVE  /\ proc' \in [Pids -> Alive \cup Dead] /\ task' \in [Pids -> Tasks \cup {None}]
             /\ sigterm' \in [Pids -> BOOLEAN] /\ unflushed' \in [Pids -> Seq(Tasks)]
  <2>1. Append(unflushed[p], task[p]) \in Seq(Tasks)
    BY <1>3, AppendFacts DEF TypeOK
  <2> QED BY <1>3, <2>1 DEF TypeOK, Done
<1>4. ASSUME NEW p \in Pids, task[p] \in Tasks, Refuse(p) PROVE TypeOK'
  <2>1. status' \in [Tasks -> Terminal \cup {"pending", "waiting", "running"}]
    BY <1>4 DEF TypeOK, Refuse
  <2> QED BY <1>4, <1>3, <2>1 DEF TypeOK, Refuse
<1>5. ASSUME NEW p \in Pids, task[p] \in Tasks, ReadRow(p) \/ Begin(p) PROVE TypeOK'
  BY <1>5 DEF TypeOK, ReadRow, Begin
<1>6. ASSUME NEW p \in Pids, task[p] \in Tasks, Finish(p) PROVE TypeOK'
  <2>1. status' \in [Tasks -> Terminal \cup {"pending", "waiting", "running"}]
    BY <1>6 DEF TypeOK, Finish
  <2> QED BY <1>6, <1>3, <2>1 DEF TypeOK, Finish
<1>61. ASSUME NEW p \in Pids, Raise(p) PROVE TypeOK'
  BY <1>61, <1>3 DEF TypeOK, Raise, Working
<1>7. ASSUME NEW p \in Pids, Flush(p) PROVE TypeOK'
  <2>1. unflushed[p] # <<>> /\ unflushed[p] \in Seq(Tasks)
    BY <1>7 DEF Flush, TypeOK
  <2>2. Tail(unflushed[p]) \in Seq(Tasks)
    BY <2>1, TailFacts
  <2>3. PICK i \in 1 .. Len(managed[p]) : managed' = [managed EXCEPT ![p] = RemoveAt(@, i)]
    BY <1>7 DEF Flush
  <2>4. RemoveAt(managed[p], i) \in Seq(Tasks)
    BY RemoveFacts DEF TypeOK
  <2> QED BY <1>7, <2>2, <2>3, <2>4 DEF TypeOK, Flush
<1>8. ASSUME NEW ps, Killed(ps)
      PROVE  /\ proc' \in [Pids -> Alive \cup Dead]
             /\ queue' \in [Pids -> Seq(Tasks \cup {QUIT})]
             /\ unflushed' \in [Pids -> Seq(Tasks)]
  BY <1>8, <1>0 DEF Killed, TypeOK
<1>9. ASSUME NEW p \in Pids, Crash(p) PROVE TypeOK'
  BY <1>9, <1>8 DEF TypeOK, Crash
<1>10. ASSUME NEW t \in Tasks, Dispatch(t) PROVE TypeOK'
  BY <1>10, WriteType DEF TypeOK, Dispatch
<1>11. ASSUME NEW t \in Tasks, Redispatch(t) PROVE TypeOK'
  BY <1>11, WriteType DEF TypeOK, Redispatch
<1>12. ASSUME NEW c \in Tasks \X {1, 2}, ControlCancel(c) PROVE TypeOK'
  <2>1. /\ proc' \in [Pids -> Alive \cup Dead]
        /\ queue' \in [Pids -> Seq(Tasks \cup {QUIT})]
        /\ unflushed' \in [Pids -> Seq(Tasks)]
    BY <1>12, <1>8 DEF ControlCancel
  <2>2. sigterm' \in [Pids -> BOOLEAN] /\ control' \subseteq Tasks \X {1, 2} /\ asked' \subseteq Tasks
    BY <1>12 DEF ControlCancel, TypeOK
  <2> QED BY <1>12, <2>1, <2>2 DEF TypeOK, ControlCancel
<1>13. ASSUME NEW w \in Pids, ReloadWorker(w) PROVE TypeOK'
  <2>1. Append(queue[w], QUIT) \in Seq(Tasks \cup {QUIT})
    BY AppendFacts DEF TypeOK
  <2> QED BY <1>13, <2>1 DEF TypeOK, ReloadWorker
<1>14. ASSUME NEW w \in Pids PROVE Cardinality(workers \ {w}) <= MaxWorkers
  <2>1. IsFiniteSet(workers) /\ workers \ {w} \subseteq workers
    BY PoolAssumption, FS_Subset DEF TypeOK
  <2>2. /\ Cardinality(workers \ {w}) <= Cardinality(workers)
        /\ Cardinality(workers \ {w}) \in Nat /\ Cardinality(workers) \in Nat
    BY <2>1, FS_Subset, FS_CardinalityType
  <2> QED BY <2>2, PoolAssumption DEF TypeOK
<1>15. ASSUME NEW w \in Pids, CleanupDead(w) PROVE TypeOK'
  <2>1. PICK reaped \in SUBSET Tasks :
          /\ status' = [t \in Tasks |-> IF t \in reaped THEN "failed" ELSE status[t]]
          /\ lost' = lost \cup (IF proc[w] = "wedged" THEN Messages(w) ELSE {})
                          \cup ({task[w]} \ ({None} \cup reaped))
    <3>1. PICK reaped \in IF Busy(w) /\ status[Head(managed[w])] \in {"waiting", "running"}
                          THEN {{Head(managed[w])}} \cup (IF ReapMayFail THEN {{}} ELSE {})
                          ELSE {{}} :
          /\ status' = [t \in Tasks |-> IF t \in reaped THEN "failed" ELSE status[t]]
          /\ lost' = lost \cup (IF proc[w] = "wedged" THEN Messages(w) ELSE {})
                          \cup ({task[w]} \ ({None} \cup reaped))
      BY <1>15 DEF CleanupDead
    <3>2. Busy(w) => Head(managed[w]) \in Tasks
      BY TailFacts DEF TypeOK, Busy
    <3>3. reaped \in SUBSET Tasks
      BY <3>2
    <3> QED BY <3>1, <3>3
  <2>2. Messages(w) \subseteq Tasks
    BY DEF TypeOK, Messages, ToSet
  <2>3. lost' \subseteq Tasks /\ orphaned' \subseteq Tasks
        /\ status' \in [Tasks -> Terminal \cup {"pending", "waiting", "running"}]
    BY <1>15, <2>1, <2>2 DEF CleanupDead, Recovered, TypeOK
  <2>4. managed' \in [Pids -> Seq(Tasks)] /\ queue' \in [Pids -> Seq(Tasks \cup {QUIT})]
    BY <1>15, <1>0 DEF CleanupDead, TypeOK
  <2> QED BY <1>15, <1>14, <2>3, <2>4 DEF CleanupDead, TypeOK
<1>16. ASSUME NEW w \in Pids, CleanupIdle(w) PROVE TypeOK'
  <2>1. Append(queue[w], QUIT) \in Seq(Tasks \cup {QUIT})
    BY AppendFacts DEF TypeOK
  <2> QED BY <1>16, <1>14, <2>1 DEF TypeOK, CleanupIdle
<1>17. ASSUME NEW w \in Pids, CleanupKeep(w) PROVE TypeOK'
  BY <1>17 DEF TypeOK, CleanupKeep
<1>18. CASE Cleanup \/ Reload \/ CleanupScanned \/ CleanupEnd
  BY <1>18 DEF TypeOK, Cleanup, Reload, CleanupScanned, CleanupEnd
<1>19. CASE Respawn
  <2>1. workers' \subseteq Pids /\ workers \subseteq workers' /\ Cardinality(workers') <= MaxWorkers
    BY <1>19, GrownFacts DEF Respawn
  <2> QED BY <1>19, <2>1 DEF TypeOK, Respawn
<1>20. CASE UNCHANGED vars
  BY <1>20 DEF TypeOK, vars
<1>21. ASSUME NEW p \in Pids, Worker(p) PROVE TypeOK'
  BY <1>21, <1>2, <1>4, <1>5, <1>6 DEF Worker, Working, Refuse, ReadRow, Begin, Finish
<1>22. CASE MainLoop
  BY <1>22, <1>10, <1>11, <1>12, <1>13, <1>15, <1>16, <1>17, <1>18, <1>19 DEF MainLoop
<1> QED BY <1>1, <1>61, <1>7, <1>9, <1>18, <1>20, <1>21, <1>22 DEF Next

-----------------------------------------------------------------------------
(* The inductive invariant.                                                *)

\* Everything but type correctness, action by action.
Inv == Tracked /\ SingleCopy /\ InPlace /\ Recorded /\ Unsent /\ Working /\ Distinct

LEMMA InitInv == Init => Inv
<1> SUFFICES ASSUME Init PROVE Inv
  OBVIOUS
<1>1. \A p \in Pids : /\ Held(p) = {} /\ Messages(p) = {} /\ ToSet(unflushed[p]) = {}
                      /\ NoRepeat(queue[p]) /\ NoRepeat(unflushed[p])
                      /\ managed[p] = <<>> /\ task[p] = None
  BY EmptyFacts DEF Init, Held, Messages
<1>2. Tracked
  BY <1>1 DEF Tracked
<1>3. SingleCopy
  BY <1>1 DEF SingleCopy, Init
<1>4. InPlace /\ Unsent /\ Working
  BY <1>1 DEF Init, InPlace, Unsent, Working, IsAlive, Alive
<1>5. Recorded /\ Distinct
  BY <1>1, EmptyFacts DEF Init, Recorded, Distinct
<1> QED BY <1>2, <1>3, <1>4, <1>5 DEF Inv

\* A process that works on a message is in the pool.
LEMMA WorksInPool ==
  ASSUME TypeOK, Inv, NEW p \in Pids, task[p] \in Tasks
  PROVE  p \in workers /\ managed[p] # <<>> /\ Somewhere(task[p]) /\ task[p] \in Held(p)
<1>1. task[p] # None /\ task[p] \in Held(p)
  BY PoolAssumption DEF Held
<1>2. task[p] \in ToSet(managed[p])
  BY <1>1 DEF Inv, Tracked
<1>3. managed[p] # <<>>
  BY <1>2, EmptyFacts
<1>4. p \in workers
  BY <1>3 DEF Inv, Tracked
<1> QED BY <1>1, <1>3, <1>4 DEF Somewhere

\* Steps that move no message.
LEMMA StillInv ==
  ASSUME TypeOK, Inv, UNCHANGED <<bus, orphaned, managed, queue, task, unflushed, lost, refused>>,
         workers \subseteq workers', workers' \subseteq Pids,
         \A p \in Pids : \/ proc'[p] = proc[p]
                         \/ proc[p] \in {"starting", "read"} /\ proc'[p] \in {"read", "running"}
                         \/ proc'[p] = "idle" /\ task[p] = None /\ p \notin workers,
         \A t \in Tasks : status'[t] = status[t]
                         \/ /\ status[t] # "pending" /\ status'[t] # "pending"
                            /\ status'[t] \in Terminal \/ Somewhere(t),
         \A t \in asked' : t \in asked \/ status[t] # "pending"
  PROVE  Inv'
<1>1. \A p \in Pids : /\ Held(p)' = Held(p) /\ Messages(p)' = Messages(p)
                      /\ NoRepeat(queue[p])' = NoRepeat(queue[p])
                      /\ NoRepeat(managed[p])' = NoRepeat(managed[p])
                      /\ NoRepeat(unflushed[p])' = NoRepeat(unflushed[p])
  BY DEF Held, Messages, NoRepeat
<1>2. Tracked' /\ SingleCopy' /\ Distinct'
  BY <1>1 DEF Inv, Tracked, SingleCopy, Distinct
<1>3. \A t \in Tasks : Somewhere(t) => Somewhere(t)'
  BY <1>1 DEF Somewhere, TypeOK
<1>4. InPlace' /\ Unsent'
  BY <1>1, <1>3 DEF Inv, InPlace, Unsent, Terminal
<1>5. Working'
  BY DEF Inv, Working, TypeOK, IsAlive, Alive, Dead
<1>6. Recorded'
  <2> SUFFICES ASSUME NEW w \in workers', IsAlive(w)'
               PROVE  ToSet(managed'[w]) \subseteq Held(w)' \cup refused'
    BY DEF Recorded
  <2>1. CASE w \in workers
    <3>1. IsAlive(w) /\ w \in Pids
      BY <2>1 DEF IsAlive, Alive, TypeOK
    <3> QED BY <2>1, <3>1, <1>1 DEF Inv, Recorded
  <2>2. CASE w \notin workers
    BY <2>2, EmptyFacts DEF Inv, Tracked
  <2> QED BY <2>1, <2>2
<1> QED BY <1>2, <1>4, <1>5, <1>6 DEF Inv

LEMMA SubmitInv == ASSUME TypeOK, Inv, NEW t \in Tasks, Submit(t) PROVE Inv'
<1> USE DEF Submit, procVars
<1>1. \A p \in Pids : /\ Held(p)' = Held(p) /\ Messages(p)' = Messages(p)
                      /\ NoRepeat(queue[p])' = NoRepeat(queue[p])
                      /\ NoRepeat(unflushed[p])' = NoRepeat(unflushed[p])
  BY DEF Held, Messages, NoRepeat
<1>2. t \notin bus \cup orphaned /\ \A p \in Pids : t \notin Held(p)
  BY DEF Inv, Unsent
<1>3. Tracked' /\ SingleCopy'
  BY <1>1, <1>2 DEF Inv, Tracked, SingleCopy
<1>4. \A u \in Tasks : Somewhere(u) => Somewhere(u)'
  BY <1>1 DEF Somewhere, TypeOK
<1>5. InPlace'
  BY <1>4 DEF Inv, InPlace, Somewhere, TypeOK
<1>6. Unsent' /\ Working'
  BY <1>1 DEF Inv, Unsent, Working, IsAlive, TypeOK
<1>7. Recorded' /\ Distinct'
  BY <1>1 DEF Inv, Recorded, Distinct, IsAlive, TypeOK, NoRepeat
<1> QED BY <1>3, <1>5, <1>6, <1>7 DEF Inv

LEMMA TakeInv == ASSUME TypeOK, Inv, NEW p \in Pids, Take(p) PROVE Inv'
<1> USE DEF mainVars, dbVars
<1> DEFINE h == Head(queue[p])
<1>1. /\ proc[p] = "idle" /\ task[p] = None /\ queue[p] # <<>> /\ queue[p] \in Seq(Tasks \cup {QUIT})
      /\ NoRepeat(queue[p])
  BY DEF Take, Inv, Working, TypeOK, SingleCopy
<1>2. /\ h \in Tasks \cup {QUIT} /\ Tail(queue[p]) \in Seq(Tasks \cup {QUIT})
      /\ ToSet(queue[p]) = {h} \cup ToSet(Tail(queue[p])) /\ NoRepeat(Tail(queue[p]))
      /\ h # QUIT => h \notin ToSet(Tail(queue[p]))
  BY <1>1, TailFacts
<1>3. \A q \in Pids : /\ unflushed'[q] = unflushed[q] /\ managed'[q] = managed[q]
                      /\ NoRepeat(unflushed[q])' = NoRepeat(unflushed[q])
                      /\ q # p => /\ Messages(q)' = Messages(q) /\ task'[q] = task[q]
                                  /\ Held(q)' = Held(q) /\ queue'[q] = queue[q]
  BY DEF Take, Held, Messages, NoRepeat, TypeOK
<1> HIDE DEF h
<1>4. ASSUME h # QUIT
      PROVE  /\ h \in Messages(p) /\ task'[p] = h /\ Messages(p)' = Messages(p) \ {h}
             /\ Held(p)' = Held(p) /\ h \in Tasks /\ NoRepeat(queue[p])' /\ h # None
  <2>1. queue'[p] = Tail(queue[p]) /\ task'[p] = h /\ h \in Tasks /\ h # None
    BY <1>4, <1>2, PoolAssumption DEF Take, TypeOK, h
  <2>2. Messages(p)' = Messages(p) \ {h} /\ h \in Messages(p) /\ NoRepeat(queue[p])'
    BY <1>4, <1>2, <2>1 DEF Messages, NoRepeat
  <2>3. Held(p)' = Held(p)
    BY <2>1, <2>2, <1>3, <1>1 DEF Held
  <2> QED BY <2>1, <2>2, <2>3
<1>5. ASSUME h = QUIT
      PROVE  /\ task'[p] = task[p] /\ Messages(p)' \subseteq Messages(p) /\ Held(p)' \subseteq Held(p)
             /\ NoRepeat(queue[p])' /\ (p \in workers => Messages(p)' = Messages(p))
  <2>1. task' = task /\ queue'[p] = IF p \in workers THEN Tail(queue[p]) ELSE <<>>
    BY <1>5 DEF Take, TypeOK, h
  <2>2. /\ Messages(p)' \subseteq Messages(p) /\ NoRepeat(queue[p])'
        /\ p \in workers => Messages(p)' = Messages(p)
    BY <1>5, <1>2, <2>1, EmptyFacts DEF Messages, NoRepeat
  <2> QED BY <2>1, <2>2, <1>3 DEF Held
<1>6. Tracked'
  BY <1>3, <1>4, <1>5 DEF Inv, Tracked, Take
<1>7. SingleCopy'
  <2>1. \A q \in Pids : Held(q)' \subseteq Held(q)
    BY <1>3, <1>4, <1>5
  <2>2. /\ task'[p] \notin Messages(p)' \cup ToSet(unflushed'[p])
        /\ Messages(p)' \cap ToSet(unflushed'[p]) = {}
    BY <1>3, <1>4, <1>5 DEF Inv, SingleCopy
  <2>3. UNCHANGED <<bus, orphaned>>
    BY DEF Take
  <2>4. \A q \in Pids : Held(q)' \cap (bus' \cup orphaned') = {}
    BY <2>1, <2>3 DEF Inv, SingleCopy
  <2>5. \A q, r \in Pids : q # r => Held(q)' \cap Held(r)' = {}
    BY <2>1 DEF Inv, SingleCopy
  <2>6. NoRepeat(queue[p])' /\ NoRepeat(unflushed[p])'
    <3>1. NoRepeat(queue[p])'
      BY <1>4, <1>5
    <3>2. NoRepeat(unflushed[p])
      BY DEF Inv, SingleCopy
    <3> QED BY <3>1, <3>2, <1>3
  <2>7. ASSUME NEW q \in Pids, q # p
        PROVE  /\ task'[q] \notin Messages(q)' \cup ToSet(unflushed'[q])
               /\ Messages(q)' \cap ToSet(unflushed'[q]) = {}
               /\ NoRepeat(queue[q])' /\ NoRepeat(unflushed[q])'
    <3>1. NoRepeat(queue[q])'
      BY <2>7, <1>3 DEF Inv, SingleCopy, NoRepeat
    <3> QED BY <3>1, <2>7, <1>3 DEF Inv, SingleCopy
  <2> QED BY <2>2, <2>3, <2>4, <2>5, <2>6, <2>7 DEF Inv, SingleCopy
<1>8. InPlace'
  <2>1. ASSUME NEW t \in Tasks, Somewhere(t)
        PROVE  Somewhere(t)'
    <3>1. CASE t \in bus \cup orphaned
      BY <3>1 DEF Somewhere, Take
    <3>2. CASE t \notin bus \cup orphaned
      <4>1. PICK w \in workers : t \in Messages(w) \/ task[w] = t
        BY <2>1, <3>2 DEF Somewhere
      <4>2. w \in workers' /\ w \in Pids /\ t # None
        BY PoolAssumption DEF Take, TypeOK
      <4>3. t \in Messages(w)' \/ task'[w] = t
        <5>1. CASE w # p
          BY <5>1, <4>1, <4>2, <1>3
        <5>2. CASE w = p /\ h = QUIT
          BY <5>2, <4>1, <1>5
        <5>3. CASE w = p /\ h # QUIT
          BY <5>3, <4>1, <4>2, <1>1, <1>4
        <5> QED BY <5>1, <5>2, <5>3
      <4> QED BY <4>2, <4>3 DEF Somewhere
    <3> QED BY <3>1, <3>2
  <2> QED BY <2>1 DEF Inv, InPlace, Take
<1>9. Unsent'
  BY <1>3, <1>4, <1>5 DEF Inv, Unsent, Take
<1>10. Working'
  <2>1. \A q \in Pids : q # p => proc'[q] = proc[q]
    BY DEF Take, TypeOK
  <2>2. \/ proc'[p] = "starting" /\ h # QUIT
        \/ proc'[p] = "exited" /\ h = QUIT /\ unflushed[p] = <<>>
    BY DEF Take, TypeOK, h
  <2>3. \A q \in Pids : ~IsAlive(q)' => unflushed'[q] = <<>>
    BY <2>1, <2>2, <1>3 DEF Inv, Working, IsAlive, Alive
  <2> QED BY <2>1, <2>2, <2>3, <1>3, <1>4, <1>5, <1>1 DEF Inv, Working
<1>11. Recorded' /\ Distinct'
  <2>1. ASSUME NEW w \in workers, IsAlive(w)'
        PROVE  ToSet(managed'[w]) \subseteq Held(w)' \cup refused'
    <3>1. w \in Pids /\ managed'[w] = managed[w] /\ refused' = refused
      BY DEF Take, TypeOK
    <3>2. CASE w # p
      <4>1. IsAlive(w) /\ Held(w)' = Held(w)
        BY <2>1, <3>1, <3>2, <1>3 DEF Take, IsAlive, TypeOK
      <4> QED BY <3>1, <4>1 DEF Inv, Recorded
    <3>3. CASE w = p
      <4>1. IsAlive(p) /\ h # QUIT
        BY <2>1, <3>3, <1>1 DEF Take, IsAlive, Alive, TypeOK, h
      <4> QED BY <3>1, <3>3, <4>1, <1>4 DEF Inv, Recorded
    <3> QED BY <3>2, <3>3
  <2>2. UNCHANGED <<workers, managed>>
    BY DEF Take
  <2> QED BY <2>1, <2>2 DEF Recorded, Inv, Distinct, NoRepeat
<1> QED BY <1>6, <1>7, <1>8, <1>9, <1>10, <1>11 DEF Inv

\* The message a process worked on moves to its finished uuids.
LEMMA DoneInv ==
  ASSUME TypeOK, Inv, NEW p \in Pids, IsAlive(p), task[p] \in Tasks, Done(p),
         UNCHANGED <<bus, orphaned, workers, managed, queue, asked, refused>>, lost \subseteq lost',
         \A t \in Tasks : t # task[p] => status'[t] = status[t],
         \/ status'[task[p]] \in Terminal
         \/ status'[task[p]] = status[task[p]] /\ task[p] \in lost'
  PROVE  Inv'
<1> DEFINE m == task[p]
<1>1. unflushed[p] \in Seq(Tasks) /\ NoRepeat(unflushed[p]) /\ m \notin ToSet(unflushed[p]) /\ m # None
      /\ m \in Held(p)
  BY PoolAssumption DEF TypeOK, Inv, SingleCopy, Held
<1>2. /\ unflushed'[p] = Append(unflushed[p], m) /\ task'[p] = None
      /\ ToSet(unflushed'[p]) = ToSet(unflushed[p]) \cup {m} /\ NoRepeat(unflushed[p])'
  <2>1. unflushed'[p] = Append(unflushed[p], m) /\ task'[p] = None
    BY DEF Done, TypeOK
  <2>2. ToSet(Append(unflushed[p], m)) = ToSet(unflushed[p]) \cup {m}
        /\ NoRepeat(Append(unflushed[p], m))
    BY <1>1, AppendFacts
  <2> QED BY <2>1, <2>2 DEF NoRepeat
<1> HIDE DEF m
<1>3. \A q \in Pids : /\ Messages(q)' = Messages(q) /\ NoRepeat(queue[q])' = NoRepeat(queue[q])
                      /\ q # p => /\ task'[q] = task[q] /\ Held(q)' = Held(q)
                                  /\ unflushed'[q] = unflushed[q] /\ proc'[q] = proc[q]
                                  /\ NoRepeat(unflushed[q])' = NoRepeat(unflushed[q])
  BY DEF Done, Held, Messages, NoRepeat, TypeOK
<1>4. Held(p)' = Held(p)
  BY <1>1, <1>2, <1>3 DEF Held, m
<1>5. None \notin Messages(p) /\ m \notin Messages(p) /\ None \notin ToSet(unflushed'[p])
  BY <1>1, <1>2, PoolAssumption DEF TypeOK, Inv, SingleCopy, m, Held, Messages, ToSet
<1>6. Tracked'
  BY <1>3, <1>4 DEF Inv, Tracked
<1>7. SingleCopy'
  <2>1. /\ task'[p] \notin Messages(p)' \cup ToSet(unflushed'[p])
        /\ Messages(p)' \cap ToSet(unflushed'[p]) = {}
    BY <1>2, <1>3, <1>5 DEF Inv, SingleCopy
  <2>2. \A q \in Pids : Held(q)' = Held(q)
    BY <1>3, <1>4
  <2>3. \A q \in Pids : Held(q)' \cap (bus' \cup orphaned') = {}
    BY <2>2 DEF Inv, SingleCopy
  <2>4. \A q, r \in Pids : q # r => Held(q)' \cap Held(r)' = {}
    BY <2>2 DEF Inv, SingleCopy
  <2>5. ASSUME NEW q \in Pids
        PROVE  /\ NoRepeat(queue[q])' /\ NoRepeat(unflushed[q])'
               /\ q # p => /\ task'[q] \notin Messages(q)' \cup ToSet(unflushed'[q])
                           /\ Messages(q)' \cap ToSet(unflushed'[q]) = {}
    BY <1>2, <1>3 DEF Inv, SingleCopy
  <2> QED BY <2>1, <2>3, <2>4, <2>5 DEF Inv, SingleCopy
<1>8. InPlace'
  <2>1. \A t \in Tasks : t # m /\ Somewhere(t) => Somewhere(t)'
    BY <1>3 DEF Somewhere, m, TypeOK
  <2> QED BY <2>1 DEF Inv, InPlace, m, Terminal
<1>9. Unsent'
  BY <1>3, <1>4 DEF Inv, Unsent, m, Terminal
<1>10. Working'
  <2>1. proc'[p] = "idle"
    BY DEF Done, TypeOK
  <2> QED BY <2>1, <1>2, <1>3 DEF Inv, Working, IsAlive, Alive
<1>11. Recorded' /\ Distinct'
  <2>1. \A w \in workers : w \in Pids /\ (IsAlive(w)' => IsAlive(w)) /\ Held(w)' = Held(w)
    BY <1>3, <1>4 DEF IsAlive, TypeOK
  <2> QED BY <2>1 DEF Inv, Recorded, Distinct, NoRepeat
<1> QED BY <1>6, <1>7, <1>8, <1>9, <1>10, <1>11 DEF Inv

\* Steps after which nobody holds more than before.
LEMMA FewerCopies ==
  ASSUME TypeOK, Inv, bus' \cap orphaned' = {},
         \A q \in Pids : /\ Messages(q)' \subseteq Messages(q)
                         /\ ToSet(unflushed'[q]) \subseteq ToSet(unflushed[q])
                         /\ task'[q] \in {task[q], None}
                         /\ NoRepeat(queue[q])' /\ NoRepeat(unflushed[q])'
                         /\ Held(q)' \cap (bus' \cup orphaned') = {}
  PROVE  SingleCopy' /\ \A q \in Pids : Held(q)' \subseteq Held(q)
<1>1. \A q \in Pids : Held(q)' \subseteq Held(q)
  BY DEF Held
<1>2. \A q, r \in Pids : q # r => Held(q)' \cap Held(r)' = {}
  BY <1>1 DEF Inv, SingleCopy
<1>3. ASSUME NEW q \in Pids
      PROVE  /\ task'[q] \notin Messages(q)' \cup ToSet(unflushed'[q])
             /\ Messages(q)' \cap ToSet(unflushed'[q]) = {}
  <2>1. None \notin Messages(q) \cup ToSet(unflushed[q])
    BY PoolAssumption DEF TypeOK, Messages, ToSet
  <2> QED BY <2>1 DEF Inv, SingleCopy
<1> QED BY <1>1, <1>2, <1>3 DEF SingleCopy

LEMMA FlushInv == ASSUME TypeOK, Inv, NEW p \in Pids, Flush(p) PROVE Inv'
<1> USE DEF dbVars
<1> DEFINE u == Head(unflushed[p])
<1>1. PICK i \in 1 .. Len(managed[p]) :
         managed[p][i] = u /\ managed' = [managed EXCEPT ![p] = RemoveAt(@, i)]
  BY DEF Flush
<1>2. /\ unflushed[p] # <<>> /\ unflushed[p] \in Seq(Tasks) /\ NoRepeat(unflushed[p])
      /\ IsAlive(p) /\ unflushed'[p] = Tail(unflushed[p])
  BY DEF Flush, TypeOK, Inv, SingleCopy
<1>3. /\ ToSet(unflushed[p]) = {u} \cup ToSet(unflushed'[p]) /\ NoRepeat(unflushed'[p])
      /\ u \in Tasks /\ u \notin ToSet(unflushed'[p])
  BY <1>2, TailFacts, PoolAssumption
<1>4. /\ ToSet(managed[p]) \ {u} = ToSet(managed'[p])
      /\ NoRepeat(managed'[p])
  <2>1. managed[p] \in Seq(Tasks) /\ NoRepeat(managed[p]) /\ u # QUIT
    BY <1>3, PoolAssumption DEF TypeOK, Inv, Distinct
  <2>2. managed'[p] = RemoveAt(managed[p], i)
    BY <1>1 DEF TypeOK
  <2> QED BY <2>1, <2>2, <1>1, RemoveFacts
<1>5. p \in workers
  BY <1>1 DEF Inv, Tracked
<1> HIDE DEF u
<1>6. \A q \in Pids : /\ Messages(q)' = Messages(q) /\ task'[q] = task[q] /\ proc'[q] = proc[q]
                      /\ NoRepeat(queue[q])' = NoRepeat(queue[q])
                      /\ q # p => /\ Held(q)' = Held(q) /\ managed'[q] = managed[q]
                                  /\ unflushed'[q] = unflushed[q]
                                  /\ NoRepeat(unflushed[q])' = NoRepeat(unflushed[q])
  BY <1>1 DEF Flush, Held, Messages, NoRepeat, TypeOK
<1>7. Held(p)' = Held(p) \ {u}
  <2>1. u \notin Messages(p) /\ u # task[p]
    BY <1>3 DEF Inv, SingleCopy
  <2> QED BY <2>1, <1>3, <1>6 DEF Held
<1>8. Tracked'
  BY <1>4, <1>5, <1>6, <1>7 DEF Inv, Tracked, Flush
<1>9. SingleCopy' /\ \A q \in Pids : Held(q)' \subseteq Held(q)
  <2>1. NoRepeat(unflushed[p])'
    BY <1>3 DEF NoRepeat
  <2>2. UNCHANGED <<bus, orphaned>>
    BY DEF Flush
  <2>3. ASSUME NEW q \in Pids
        PROVE  /\ NoRepeat(queue[q])' /\ NoRepeat(unflushed[q])'
               /\ ToSet(unflushed'[q]) \subseteq ToSet(unflushed[q])
               /\ Held(q)' \cap (bus' \cup orphaned') = {}
    <3>1. NoRepeat(queue[q])' /\ NoRepeat(unflushed[q])'
      BY <2>1, <1>6 DEF Inv, SingleCopy
    <3>2. ToSet(unflushed'[q]) \subseteq ToSet(unflushed[q])
      BY <1>3, <1>6
    <3>3. Held(q)' \cap (bus' \cup orphaned') = {}
      BY <2>2, <1>6, <1>7 DEF Inv, SingleCopy
    <3> QED BY <3>1, <3>2, <3>3
  <2>4. bus' \cap orphaned' = {}
    BY <2>2 DEF Inv, SingleCopy
  <2> QED BY <2>3, <2>4, <1>6, FewerCopies
<1>10. InPlace' /\ Unsent'
  <2>1. \A t \in Tasks : Somewhere(t) => Somewhere(t)'
    BY <1>6 DEF Somewhere, Flush, TypeOK
  <2> QED BY <2>1, <1>9 DEF Inv, InPlace, Unsent, Flush
<1>11. Working'
  <2>1. \A q \in Pids : IsAlive(q)' = IsAlive(q)
    BY <1>6 DEF IsAlive
  <2> QED BY <2>1, <1>2, <1>6 DEF Inv, Working
<1>12. Recorded'
  <2>1. \A w \in workers : w \in Pids /\ IsAlive(w)' = IsAlive(w)
    BY <1>6 DEF IsAlive, TypeOK
  <2>2. workers' = workers /\ refused' = refused
    BY DEF Flush
  <2>3. ASSUME NEW w \in workers, IsAlive(w)
        PROVE  ToSet(managed'[w]) \subseteq Held(w)' \cup refused
    <3>1. ToSet(managed[w]) \subseteq Held(w) \cup refused
      BY <2>3 DEF Inv, Recorded
    <3>2. CASE w = p
      BY <3>1, <3>2, <1>4, <1>7
    <3>3. CASE w # p
      BY <3>1, <3>3, <2>1, <1>6
    <3> QED BY <3>2, <3>3
  <2> QED BY <2>1, <2>2, <2>3 DEF Recorded
<1>13. Distinct'
  <2>1. \A q \in Pids : q # p => NoRepeat(managed'[q])
    BY <1>6 DEF Inv, Distinct
  <2>2. \A q \in Pids : NoRepeat(managed'[q])
    BY <2>1, <1>4
  <2> QED BY <2>2 DEF Distinct, NoRepeat
<1> QED BY <1>8, <1>9, <1>10, <1>11, <1>12, <1>13 DEF Inv

\* A kill takes what the feeder thread held, and no message of a pool member.
LEMMA KilledInv ==
  ASSUME TypeOK, Inv, NEW ps \in SUBSET Pids, Killed(ps),
         UNCHANGED <<bus, orphaned, workers, managed, task, status, lost, refused>>, asked' \subseteq asked
  PROVE  Inv'
<1>1. \A q \in Pids : /\ task'[q] = task[q] /\ unflushed'[q] \in {unflushed[q], <<>>}
                      /\ queue'[q] \in {queue[q], <<>>}
                      /\ q \in workers => queue'[q] = queue[q]
                      /\ \/ proc'[q] = proc[q] /\ unflushed'[q] = unflushed[q]
                         \/ proc'[q] = "wedged" /\ proc[q] = "idle" /\ unflushed'[q] = <<>>
                         \/ proc'[q] = "crashed" /\ unflushed'[q] = <<>>
  BY DEF Killed
<1>2. SingleCopy' /\ \A q \in Pids : Held(q)' \subseteq Held(q)
  <2>1. ASSUME NEW q \in Pids
        PROVE  /\ Messages(q)' \subseteq Messages(q)
               /\ ToSet(unflushed'[q]) \subseteq ToSet(unflushed[q])
               /\ NoRepeat(queue[q])' /\ NoRepeat(unflushed[q])'
    <3>1. NoRepeat(queue[q]) /\ NoRepeat(unflushed[q])
      BY DEF Inv, SingleCopy
    <3>2. Messages(q)' \subseteq Messages(q) /\ NoRepeat(queue[q])'
      BY <1>1, <3>1, EmptyFacts DEF Messages, NoRepeat
    <3>3. ToSet(unflushed'[q]) \subseteq ToSet(unflushed[q]) /\ NoRepeat(unflushed[q])'
      BY <1>1, <3>1, EmptyFacts DEF NoRepeat
    <3> QED BY <3>2, <3>3
  <2>2. \A q \in Pids : Held(q)' \subseteq Held(q)
    BY <2>1, <1>1 DEF Held
  <2>3. \A q \in Pids : Held(q)' \cap (bus' \cup orphaned') = {}
    BY <2>2 DEF Inv, SingleCopy
  <2>4. bus' \cap orphaned' = {}
    BY DEF Inv, SingleCopy
  <2> QED BY <2>1, <2>3, <2>4, <1>1, FewerCopies
<1>3. Tracked'
  BY <1>2 DEF Inv, Tracked
<1>4. InPlace' /\ Unsent'
  <2>1. \A q \in workers : Messages(q)' = Messages(q)
    BY <1>1 DEF Messages, TypeOK
  <2>2. \A t \in Tasks : Somewhere(t) => Somewhere(t)'
    BY <2>1, <1>1 DEF Somewhere, TypeOK
  <2> QED BY <2>2, <1>2 DEF Inv, InPlace, Unsent
<1>5. Working'
  BY <1>1 DEF Inv, Working, IsAlive, Alive
<1>6. Recorded' /\ Distinct'
  <2>1. ASSUME NEW w \in workers, IsAlive(w)'
        PROVE  IsAlive(w) /\ Held(w)' = Held(w)
    <3>1. /\ w \in Pids /\ proc'[w] = proc[w] /\ unflushed'[w] = unflushed[w]
          /\ queue'[w] = queue[w] /\ task'[w] = task[w]
      BY <2>1, <1>1 DEF IsAlive, Alive, TypeOK
    <3> QED BY <2>1, <3>1 DEF IsAlive, Held, Messages
  <2> QED BY <2>1 DEF Inv, Recorded, Distinct, NoRepeat
<1> QED BY <1>2, <1>3, <1>4, <1>5, <1>6 DEF Inv

\* A QUIT is no task: putting one on a queue changes nothing, and neither does
\* a worker without any task leaving the pool.
LEMMA QuitInv ==
  ASSUME TypeOK, Inv, NEW w \in Pids, queue' = [queue EXCEPT ![w] = Append(@, QUIT)],
         UNCHANGED <<bus, orphaned, managed, proc, task, unflushed, dbVars>>,
         workers' = workers \/ (workers' = workers \ {w} /\ ~Busy(w))
  PROVE  Inv'
<1> USE DEF dbVars
<1>1. ASSUME NEW q \in Pids
      PROVE  Messages(q)' = Messages(q) /\ NoRepeat(queue[q])'
  <2>1. CASE q # w
    BY <2>1 DEF Messages, NoRepeat, Inv, SingleCopy, TypeOK
  <2>2. CASE q = w
    <3>1. queue'[w] = Append(queue[w], QUIT) /\ queue[w] \in Seq(Tasks \cup {QUIT}) /\ NoRepeat(queue[w])
      BY DEF TypeOK, Inv, SingleCopy
    <3>2. ToSet(queue'[w]) = ToSet(queue[w]) \cup {QUIT} /\ NoRepeat(queue'[w])
      BY <3>1, AppendFacts
    <3> QED BY <2>2, <3>2 DEF Messages, NoRepeat
  <2> QED BY <2>1, <2>2
<1>2. \A q \in Pids : /\ Held(q)' = Held(q) /\ NoRepeat(unflushed[q])' = NoRepeat(unflushed[q])
                      /\ IsAlive(q)' = IsAlive(q)
  BY <1>1 DEF Held, NoRepeat, IsAlive
<1>3. Tracked'
  BY <1>2 DEF Inv, Tracked, Busy
<1>4. SingleCopy'
  BY <1>1, <1>2 DEF Inv, SingleCopy
<1>5. \A t \in Tasks : Somewhere(t) => Somewhere(t)'
  <2> SUFFICES ASSUME NEW t \in Tasks, t \notin bus \cup orphaned, NEW q \in workers,
                      t \in Messages(q) \/ task[q] = t
               PROVE  Somewhere(t)'
    BY DEF Somewhere
  <2>1. q \in Pids /\ t \in Held(q)
    BY PoolAssumption DEF Held, TypeOK
  <2>2. t \in ToSet(managed[q])
    BY <2>1 DEF Inv, Tracked
  <2>3. q \in workers'
    BY <2>2, EmptyFacts DEF Busy
  <2> QED BY <2>1, <2>3, <1>1 DEF Somewhere
<1>6. InPlace' /\ Unsent' /\ Working'
  BY <1>1, <1>2, <1>5 DEF Inv, InPlace, Unsent, Working
<1>7. Recorded' /\ Distinct'
  <2>1. \A q \in workers' : q \in workers /\ q \in Pids
    BY DEF TypeOK
  <2> QED BY <2>1, <1>2 DEF Inv, Recorded, Distinct, NoRepeat
<1> QED BY <1>3, <1>4, <1>6, <1>7 DEF Inv

\* A message written to the pool goes to one worker, or is given up.
LEMMA PutInv ==
  ASSUME TypeOK, Inv, NEW m \in bus \cup orphaned,
         NEW recorded, NEW receivers, Put(m, recorded, receivers),
         workers \subseteq workers', workers' \subseteq Pids,
         recorded \subseteq workers', receivers \subseteq recorded,
         \A p, r \in receivers : p = r,
         \A p \in Pids : proc'[p] = proc[p] \/ (proc'[p] = "idle" /\ p \notin workers),
         UNCHANGED <<task, unflushed, status, asked>>,
         bus' \cup orphaned' = (bus \cup orphaned) \ {m}, bus' \cap orphaned' = {}
  PROVE  Inv'
<1>1. m \in Tasks /\ m # QUIT /\ m # None /\ \A p \in Pids : m \notin Held(p)
  BY PoolAssumption DEF TypeOK, Inv, SingleCopy
<1>2. ASSUME NEW p \in Pids
      PROVE  /\ Messages(p)' = Messages(p) \cup (IF p \in receivers THEN {m} ELSE {})
             /\ NoRepeat(queue[p])'
  <2>1. CASE p \notin receivers
    BY <2>1 DEF Put, Messages, NoRepeat, Inv, SingleCopy
  <2>2. CASE p \in receivers
    <3>1. queue'[p] = Append(queue[p], m) /\ queue[p] \in Seq(Tasks \cup {QUIT}) /\ NoRepeat(queue[p])
      BY <2>2 DEF Put, TypeOK, Inv, SingleCopy
    <3>2. m \notin ToSet(queue[p])
      BY <1>1 DEF Held, Messages
    <3>3. ToSet(queue'[p]) = ToSet(queue[p]) \cup {m} /\ NoRepeat(queue'[p])
      BY <3>1, <3>2, <1>1, AppendFacts
    <3> QED BY <2>2, <3>3, <1>1 DEF Messages, NoRepeat
  <2> QED BY <2>1, <2>2
<1>3. ASSUME NEW p \in Pids
      PROVE  /\ Held(p)' = Held(p) \cup (IF p \in receivers THEN {m} ELSE {})
             /\ NoRepeat(unflushed[p])' /\ unflushed'[p] = unflushed[p] /\ task'[p] = task[p]
  <2>1. NoRepeat(unflushed[p])'
    BY DEF NoRepeat, Inv, SingleCopy
  <2> QED BY <1>2, <2>1 DEF Held
<1>4. ASSUME NEW p \in Pids
      PROVE  /\ ToSet(managed'[p]) = ToSet(managed[p]) \cup (IF p \in recorded THEN {m} ELSE {})
             /\ p \notin recorded => managed'[p] = managed[p]
             /\ NoRepeat(managed'[p])
  <2>1. managed[p] \in Seq(Tasks) /\ NoRepeat(managed[p])
    BY DEF TypeOK, Inv, Distinct
  <2>2. /\ ToSet(Append(managed[p], m)) = ToSet(managed[p]) \cup {m}
        /\ m \notin ToSet(managed[p]) => NoRepeat(Append(managed[p], m))
    BY <1>1, <2>1, AppendFacts
  <2> QED BY <2>1, <2>2 DEF Put
<1>5. Tracked'
  BY <1>3, <1>4 DEF Inv, Tracked
<1>6. SingleCopy'
  <2>1. \A p \in Pids : Held(p)' \cap (bus' \cup orphaned') = {}
    BY <1>3 DEF Inv, SingleCopy
  <2>2. \A p, r \in Pids : p # r => Held(p)' \cap Held(r)' = {}
    BY <1>1, <1>3 DEF Inv, SingleCopy
  <2>3. ASSUME NEW p \in Pids
        PROVE  /\ task'[p] \notin Messages(p)' \cup ToSet(unflushed'[p])
               /\ Messages(p)' \cap ToSet(unflushed'[p]) = {}
    <3>1. m # task[p] /\ m \notin ToSet(unflushed[p])
      BY <1>1 DEF Held
    <3> QED BY <3>1, <1>2, <1>3 DEF Inv, SingleCopy
  <2> QED BY <2>1, <2>2, <2>3, <1>2, <1>3 DEF SingleCopy
<1>7. InPlace'
  <2>1. ASSUME NEW t \in Tasks, t # m, Somewhere(t)
        PROVE  Somewhere(t)'
    <3>1. CASE t \in bus \cup orphaned
      BY <2>1, <3>1 DEF Somewhere
    <3>2. CASE \E w \in workers : t \in Messages(w) \/ task[w] = t
      BY <3>2, <1>2, <1>3 DEF Somewhere, TypeOK
    <3> QED BY <2>1, <3>1, <3>2 DEF Somewhere
  <2>2. m \in lost' \/ Somewhere(m)'
    BY <1>2 DEF Put, Somewhere
  <2>3. lost \subseteq lost'
    BY DEF Put
  <2> QED BY <2>1, <2>2, <2>3, <1>1 DEF Inv, InPlace
<1>8. Unsent'
  <2>1. status[m] # "pending"
    BY <1>1 DEF Inv, Unsent
  <2>2. ASSUME NEW t \in Tasks, status[t] = "pending"
        PROVE  t \notin bus' \cup orphaned' \cup asked' /\ \A p \in Pids : t \notin Held(p)'
    BY <2>1, <2>2, <1>3 DEF Inv, Unsent
  <2> QED BY <2>2 DEF Unsent
<1>9. Working'
  <2>1. \A p \in Pids \ workers : task[p] = None
    <3>1. \A p \in Pids \ workers : Held(p) = {}
      BY EmptyFacts DEF Inv, Tracked
    <3> QED BY <3>1 DEF Held, TypeOK
  <2> QED BY <2>1, <1>3 DEF Inv, Working, IsAlive, Alive, TypeOK
<1>10. Recorded'
  <2> SUFFICES ASSUME NEW w \in workers', IsAlive(w)'
               PROVE  ToSet(managed'[w]) \subseteq Held(w)' \cup refused'
    BY DEF Recorded
  <2>1. w \in Pids
    OBVIOUS
  <2>2. refused \subseteq refused' /\ (recorded # receivers => m \in refused')
    BY DEF Put
  <2>3. ToSet(managed[w]) \subseteq Held(w) \cup refused
    <3>1. CASE w \in workers
      <4>1. IsAlive(w)
        BY <2>1, <3>1 DEF IsAlive
      <4> QED BY <3>1, <4>1 DEF Inv, Recorded
    <3>2. CASE w \notin workers
      BY <2>1, <3>2, EmptyFacts DEF Inv, Tracked
    <3> QED BY <3>1, <3>2
  <2> QED BY <2>1, <2>2, <2>3, <1>3, <1>4
<1>11. Distinct'
  BY <1>4 DEF Distinct, NoRepeat
<1> QED BY <1>5, <1>6, <1>7, <1>8, <1>9, <1>10, <1>11 DEF Inv

LEMMA WriteInv ==
  ASSUME TypeOK, Inv, NEW m \in bus \cup orphaned, Write(m),
         UNCHANGED <<task, unflushed, status, asked>>,
         bus' \cup orphaned' = (bus \cup orphaned) \ {m}, bus' \cap orphaned' = {}
  PROVE  Inv'
<1>1. workers' \in Grown \cup {workers}
  BY DEF Write
<1>2. workers \subseteq workers' /\ workers' \subseteq Pids
  BY <1>1, GrownFacts
<1>3. \A p \in Pids : proc'[p] = proc[p] \/ (proc'[p] = "idle" /\ p \notin workers)
  BY DEF Write
<1>4. PICK recorded \in SUBSET workers', receivers \in SUBSET workers' :
        Put(m, recorded, receivers) /\ receivers \subseteq recorded /\ \A p, r \in receivers : p = r
  <2>1. \/ \E w \in workers' : Put(m, {w}, {w}) \/ Put(m, {w}, {})
        \/ \E full \in SUBSET workers', w \in workers' : Put(m, full \cup {w}, {w})
        \/ Put(m, workers', {})
    <3>1. CASE \E w \in workers' : Put(m, {w}, IF HasRoom(w) THEN {w} ELSE {})
      <4>1. PICK w \in workers' : Put(m, {w}, IF HasRoom(w) THEN {w} ELSE {})
        BY <3>1
      <4>2. CASE HasRoom(w)
        BY <4>1, <4>2
      <4>3. CASE ~HasRoom(w)
        BY <4>1, <4>3
      <4> QED BY <4>2, <4>3
    <3>2. CASE \E full \in SUBSET {w \in workers' : ~HasRoom(w)} :
                  \/ \E w \in workers' : HasRoom(w) /\ Put(m, full \cup {w}, {w})
                  \/ full = workers' /\ Put(m, workers', {})
      BY <3>2
    <3> QED BY <3>1, <3>2 DEF Write
  <2>2. CASE \E w \in workers' : Put(m, {w}, {w}) \/ Put(m, {w}, {})
    <3>0. PICK w \in workers' : Put(m, {w}, {w}) \/ Put(m, {w}, {})
      BY <2>2
    <3>1. PICK receivers \in {{w}, {}} : Put(m, {w}, receivers)
      BY <3>0
    <3>2. /\ {w} \in SUBSET workers' /\ receivers \in SUBSET workers' /\ receivers \subseteq {w}
          /\ \A p, r \in receivers : p = r
      BY <3>0, <3>1
    <3> QED BY <3>1, <3>2
  <2>3. CASE \E full \in SUBSET workers', w \in workers' : Put(m, full \cup {w}, {w})
    <3>1. PICK full \in SUBSET workers', w \in workers' : Put(m, full \cup {w}, {w})
      BY <2>3
    <3>2. /\ full \cup {w} \in SUBSET workers' /\ {w} \in SUBSET workers' /\ {w} \subseteq full \cup {w}
          /\ \A p, r \in {w} : p = r
      OBVIOUS
    <3> QED BY <3>1, <3>2
  <2>4. CASE Put(m, workers', {})
    <3>1. workers' \in SUBSET workers' /\ {} \in SUBSET workers' /\ {} \subseteq workers' /\ \A p, r \in {} : p = r
      OBVIOUS
    <3> QED BY <2>4, <3>1
  <2> QED BY <2>1, <2>2, <2>3, <2>4
<1> QED BY <1>2, <1>3, <1>4, PutInv

LEMMA CleanupDeadInv == ASSUME TypeOK, Inv, NEW w \in Pids, CleanupDead(w) PROVE Inv'
<1>1. PICK reaped \in SUBSET {t \in Tasks : status[t] \in {"waiting", "running"}} :
         /\ status' = [t \in Tasks |-> IF t \in reaped THEN "failed" ELSE status[t]]
         /\ lost' = lost \cup (IF proc[w] = "wedged" THEN Messages(w) ELSE {})
                         \cup ({task[w]} \ ({None} \cup reaped))
  <2>1. PICK reaped \in IF Busy(w) /\ status[Head(managed[w])] \in {"waiting", "running"}
                        THEN {{Head(managed[w])}} \cup (IF ReapMayFail THEN {{}} ELSE {})
                        ELSE {{}} :
          /\ status' = [t \in Tasks |-> IF t \in reaped THEN "failed" ELSE status[t]]
          /\ lost' = lost \cup (IF proc[w] = "wedged" THEN Messages(w) ELSE {})
                          \cup ({task[w]} \ ({None} \cup reaped))
    BY DEF CleanupDead
  <2>2. Busy(w) => Head(managed[w]) \in Tasks
    BY TailFacts DEF TypeOK, Busy
  <2>3. reaped \in SUBSET {t \in Tasks : status[t] \in {"waiting", "running"}}
    BY <2>2
  <2> QED BY <2>1, <2>3
<1>2. unflushed[w] = <<>> /\ Held(w) = Messages(w) \cup ({task[w]} \ {None})
  BY EmptyFacts DEF CleanupDead, Inv, Working, Held
<1>3. /\ Messages(w)' = {} /\ Held(w)' = {} /\ task'[w] = None /\ unflushed'[w] = <<>>
      /\ NoRepeat(queue[w])' /\ NoRepeat(unflushed[w])'
  <2>1. queue'[w] = <<>> /\ task'[w] = None /\ unflushed'[w] = <<>>
    BY <1>2 DEF CleanupDead, TypeOK
  <2>2. Messages(w)' = {} /\ NoRepeat(queue[w])' /\ NoRepeat(unflushed[w])'
    BY <2>1, EmptyFacts DEF Messages, NoRepeat
  <2> QED BY <2>1, <2>2, EmptyFacts DEF Held
<1>4. \A q \in Pids : q # w => /\ Messages(q)' = Messages(q) /\ Held(q)' = Held(q) /\ task'[q] = task[q]
                              /\ managed'[q] = managed[q] /\ unflushed'[q] = unflushed[q]
                              /\ NoRepeat(queue[q])' = NoRepeat(queue[q])
                              /\ NoRepeat(unflushed[q])' = NoRepeat(unflushed[q])
  BY DEF CleanupDead, Messages, Held, NoRepeat, TypeOK
<1>5. /\ bus' = bus /\ orphaned' \subseteq orphaned \cup Messages(w) /\ orphaned \subseteq orphaned'
      /\ (proc[w] = "wedged" \/ Messages(w) \subseteq orphaned') /\ workers' = workers \ {w}
      /\ managed'[w] = <<>> /\ proc' = proc
  BY DEF CleanupDead, Recovered, TypeOK
<1>6. Tracked'
  BY <1>3, <1>4, <1>5 DEF Inv, Tracked
<1>7. SingleCopy'
  <2>1. bus' \cap orphaned' = {}
    BY <1>2, <1>5 DEF Inv, SingleCopy
  <2>2. ASSUME NEW q \in Pids
        PROVE  /\ Messages(q)' \subseteq Messages(q)
               /\ ToSet(unflushed'[q]) \subseteq ToSet(unflushed[q])
               /\ task'[q] \in {task[q], None}
               /\ NoRepeat(queue[q])' /\ NoRepeat(unflushed[q])'
               /\ Held(q)' \cap (bus' \cup orphaned') = {}
    <3>1. CASE q = w
      BY <3>1, <1>2, <1>3
    <3>2. CASE q # w
      <4>1. Held(q)' \cap (bus' \cup orphaned') = {}
        BY <3>2, <1>2, <1>4, <1>5 DEF Inv, SingleCopy
      <4>2. NoRepeat(queue[q])' /\ NoRepeat(unflushed[q])'
        BY <3>2, <1>4 DEF Inv, SingleCopy
      <4> QED BY <3>2, <4>1, <4>2, <1>4
    <3> QED BY <3>1, <3>2
  <2> QED BY <2>1, <2>2, FewerCopies
<1>8. InPlace'
  <2> SUFFICES ASSUME NEW t \in Tasks, status'[t] \in {"waiting", "running"}, t \notin lost'
               PROVE  Somewhere(t)'
    BY DEF InPlace
  <2>1. status[t] \in {"waiting", "running"} /\ t \notin lost /\ t \notin reaped
    BY <1>1
  <2>2. Somewhere(t)
    BY <2>1 DEF Inv, InPlace
  <2>3. task[w] # t /\ (proc[w] = "wedged" => t \notin Messages(w))
    BY <1>1, <2>1, PoolAssumption
  <2>4. CASE t \in bus \cup orphaned \cup Messages(w)
    BY <2>3, <2>4, <1>5 DEF Somewhere
  <2>5. CASE t \notin bus \cup orphaned \cup Messages(w)
    <3>1. PICK q \in workers : t \in Messages(q) \/ task[q] = t
      BY <2>2, <2>5 DEF Somewhere
    <3>2. q # w /\ q \in Pids
      BY <3>1, <2>3, <2>5 DEF TypeOK
    <3> QED BY <3>1, <3>2, <1>4, <1>5 DEF Somewhere
  <2> QED BY <2>4, <2>5
<1>9. Unsent'
  <2> SUFFICES ASSUME NEW t \in Tasks, status'[t] = "pending"
               PROVE  t \notin bus' \cup orphaned' \cup asked' /\ \A q \in Pids : t \notin Held(q)'
    BY DEF Unsent
  <2>1. status[t] = "pending" /\ asked' = asked
    BY <1>1 DEF CleanupDead
  <2> QED BY <2>1, <1>2, <1>3, <1>4, <1>5 DEF Inv, Unsent
<1>10. Working'
  <2>1. proc[w] \notin {"starting", "read", "running"}
    BY DEF CleanupDead, IsAlive, Alive
  <2> QED BY <2>1, <1>3, <1>4, <1>5 DEF Inv, Working, IsAlive
<1>11. Recorded' /\ Distinct'
  <2>1. \A q \in workers' : q \in workers /\ q \in Pids /\ q # w /\ IsAlive(q)' = IsAlive(q)
    BY <1>5 DEF TypeOK, IsAlive
  <2>2. refused' = refused
    BY DEF CleanupDead
  <2>3. \A q \in Pids : NoRepeat(managed'[q])
    BY <1>4, <1>5, EmptyFacts DEF Inv, Distinct
  <2>4. Distinct'
    BY <2>3 DEF Distinct, NoRepeat
  <2> QED BY <2>1, <2>2, <2>4, <1>4 DEF Inv, Recorded
<1> QED BY <1>6, <1>7, <1>8, <1>9, <1>10, <1>11 DEF Inv

LEMMA WorkerInv == ASSUME TypeOK, Inv, NEW p \in Pids, Worker(p) PROVE Inv'
<1> USE DEF mainVars, procVars, dbVars
<1>1. CASE Take(p)
  BY <1>1, TakeInv
<1>2. CASE Refuse(p)
  <2>1. task[p] \in Tasks
    BY <1>2 DEF Refuse, Inv, Working
  <2>2. /\ \A t \in Tasks : t # task[p] => status'[t] = status[t]
        /\ status'[task[p]] \in Terminal /\ IsAlive(p)
    BY <1>2, <2>1 DEF Refuse, MayStart, Terminal, TypeOK, IsAlive, Alive
  <2> QED BY <1>2, <2>1, <2>2, DoneInv DEF Refuse
<1>21. CASE ReadRow(p)
  <2>1. \A q \in Pids : proc'[q] = proc[q] \/ (proc[q] = "starting" /\ proc'[q] = "read")
    BY <1>21 DEF ReadRow, TypeOK
  <2>2. workers \subseteq workers' /\ workers' \subseteq Pids
    BY <1>21 DEF ReadRow, TypeOK
  <2> QED BY <1>21, <2>1, <2>2, StillInv DEF ReadRow
<1>3. CASE Begin(p)
  <2>1. task[p] \in Tasks
    BY <1>3 DEF Begin, Inv, Working
  <2>2. Somewhere(task[p]) /\ task[p] \in Held(p)
    BY <2>1, WorksInPool
  <2>3. status[task[p]] # "pending"
    BY <2>1, <2>2 DEF Inv, Unsent
  <2>4. \A t \in Tasks : \/ status'[t] = status[t]
                         \/ status[t] # "pending" /\ status'[t] = "running" /\ Somewhere(t)
    BY <1>3, <2>1, <2>2, <2>3 DEF Begin, TypeOK
  <2>5. \A q \in Pids : proc'[q] = proc[q] \/ (proc[q] = "read" /\ proc'[q] = "running")
    BY <1>3 DEF Begin, TypeOK
  <2>6. workers \subseteq workers' /\ workers' \subseteq Pids
    BY <1>3 DEF Begin, TypeOK
  <2> QED BY <1>3, <2>4, <2>5, <2>6, StillInv DEF Begin
<1>4. CASE Finish(p)
  <2>1. task[p] \in Tasks
    BY <1>4 DEF Finish, Inv, Working
  <2>2. /\ \A t \in Tasks : t # task[p] => status'[t] = status[t]
        /\ status'[task[p]] \in Terminal /\ IsAlive(p)
    BY <1>4, <2>1 DEF Finish, Terminal, TypeOK, IsAlive, Alive
  <2> QED BY <1>4, <2>1, <2>2, DoneInv DEF Finish
<1> QED BY <1>1, <1>2, <1>21, <1>3, <1>4 DEF Worker

LEMMA RaiseInv == ASSUME TypeOK, Inv, NEW p \in Pids, Raise(p) PROVE Inv'
<1>1. task[p] \in Tasks /\ IsAlive(p)
  BY DEF Raise, Inv, Working, IsAlive, Alive
<1> QED BY <1>1, DoneInv DEF Raise, mainVars

LEMMA MainLoopInv == ASSUME TypeOK, Inv, MainLoop PROVE Inv'
<1> USE DEF mainVars, procVars, dbVars
<1>1. ASSUME NEW t \in Tasks, Dispatch(t) PROVE Inv'
  <2>1. t \in bus \cup orphaned /\ Write(t) /\ UNCHANGED <<task, unflushed, status, asked>>
    BY <1>1 DEF Dispatch
  <2>2. bus' \cup orphaned' = (bus \cup orphaned) \ {t} /\ bus' \cap orphaned' = {}
    BY <1>1 DEF Dispatch, Inv, SingleCopy
  <2> QED BY <2>1, <2>2, WriteInv
<1>2. ASSUME NEW t \in Tasks, Redispatch(t) PROVE Inv'
  <2>1. t \in bus \cup orphaned /\ Write(t) /\ UNCHANGED <<task, unflushed, status, asked>>
    BY <1>2 DEF Redispatch
  <2>2. bus' \cup orphaned' = (bus \cup orphaned) \ {t} /\ bus' \cap orphaned' = {}
    BY <1>2 DEF Redispatch, Inv, SingleCopy
  <2> QED BY <2>1, <2>2, WriteInv
<1>3. ASSUME NEW c \in Tasks \X {1, 2}, ControlCancel(c) PROVE Inv'
  <2>1. \E ps \in SUBSET Pids : Killed(ps)
    <3> DEFINE hit == {w \in workers : Busy(w) /\ Head(managed[w]) = c[1]}
               early == {w \in hit : proc[w] \in {"idle", "starting"}}
    <3>1. PICK caught \in SUBSET {w \in hit : proc[w] = "starting"} : Killed(early \ caught)
      BY <1>3 DEF ControlCancel
    <3>2. early \ caught \in SUBSET Pids
      BY DEF TypeOK
    <3> QED BY <3>1, <3>2
  <2>2. asked' \subseteq asked
    BY <1>3 DEF ControlCancel
  <2> QED BY <1>3, <2>1, <2>2, KilledInv DEF ControlCancel
<1>4. ASSUME NEW w \in Pids, ReloadWorker(w) PROVE Inv'
  BY <1>4, QuitInv DEF ReloadWorker
<1>5. ASSUME NEW w \in Pids, CleanupDead(w) PROVE Inv'
  BY <1>5, CleanupDeadInv
<1>6. ASSUME NEW w \in Pids, CleanupIdle(w) PROVE Inv'
  BY <1>6, QuitInv DEF CleanupIdle
<1>7. ASSUME NEW w \in Pids, CleanupKeep(w) PROVE Inv'
  BY <1>7, StillInv DEF CleanupKeep, TypeOK
<1>8. CASE CleanupScanned \/ CleanupEnd
  BY <1>8, StillInv DEF CleanupScanned, CleanupEnd, TypeOK
<1>9. CASE Respawn
  <2>1. \A p \in Pids : task[p] = None
    <3>1. ASSUME NEW p \in Pids, task[p] # None PROVE FALSE
      <4>1. task[p] \in Held(p)
        BY <3>1 DEF Held
      <4>2. managed[p] = <<>> /\ Held(p) \subseteq ToSet(managed[p])
        BY <1>9 DEF Respawn, Inv, Tracked
      <4> QED BY <4>1, <4>2, EmptyFacts
    <3> QED BY <3>1
  <2>2. \A p \in Pids : proc'[p] = proc[p] \/ (proc'[p] = "idle" /\ task[p] = None /\ p \notin workers)
    BY <1>9, <2>1 DEF Respawn
  <2>3. workers \subseteq workers' /\ workers' \subseteq Pids
    BY <1>9, GrownFacts DEF Respawn
  <2> QED BY <1>9, <2>2, <2>3, StillInv DEF Respawn
<1> QED BY <1>1, <1>2, <1>3, <1>4, <1>5, <1>6, <1>7, <1>8, <1>9 DEF MainLoop

LEMMA NextInv == TypeOK /\ Inv /\ [Next]_vars => Inv'
<1> SUFFICES ASSUME TypeOK, Inv, [Next]_vars PROVE Inv'
  OBVIOUS
<1> USE DEF mainVars, procVars, dbVars
<1>1. ASSUME NEW t \in Tasks, Submit(t) PROVE Inv'
  BY <1>1, SubmitInv
<1>2. ASSUME NEW t \in Tasks, RequestCancel(t) PROVE Inv'
  <2>1. \A u \in asked' : u \in asked \/ status[u] # "pending"
    BY <1>2 DEF RequestCancel
  <2> QED BY <1>2, <2>1, StillInv DEF RequestCancel, TypeOK
<1>21. ASSUME NEW t \in Tasks, SaveCanceled(t) PROVE Inv'
  <2>1. status[t] # "pending"
    BY <1>21 DEF SaveCanceled, Inv, Unsent
  <2>2. \A u \in Tasks : \/ status'[u] = status[u]
                         \/ status[u] # "pending" /\ status'[u] # "pending" /\ status'[u] \in Terminal
    BY <1>21, <2>1 DEF SaveCanceled, TypeOK, Terminal
  <2>3. asked' \subseteq asked
    BY <1>21 DEF SaveCanceled
  <2> QED BY <1>21, <2>2, <2>3, StillInv DEF SaveCanceled, TypeOK
<1>3. ASSUME NEW p \in Pids, Worker(p) PROVE Inv'
  BY <1>3, WorkerInv
<1>4. ASSUME NEW p \in Pids, Flush(p) PROVE Inv'
  BY <1>4, FlushInv
<1>5. ASSUME NEW p \in Pids, Crash(p) PROVE Inv'
  BY <1>5, KilledInv DEF Crash
<1>6. CASE MainLoop
  BY <1>6, MainLoopInv
<1>7. CASE Cleanup \/ Reload
  BY <1>7, StillInv DEF Cleanup, Reload, TypeOK
<1>8. CASE UNCHANGED vars
  BY <1>8, StillInv DEF vars, TypeOK
<1>9. ASSUME NEW p \in Pids, Raise(p) PROVE Inv'
  BY <1>9, RaiseInv
<1> QED BY <1>1, <1>2, <1>21, <1>3, <1>4, <1>5, <1>6, <1>7, <1>8, <1>9 DEF Next

-----------------------------------------------------------------------------
(* The theorems.                                                           *)

\* The inductive invariant holds in every reachable state.
LEMMA Invariance == Spec => [](TypeOK /\ Inv)
<1>1. Init => TypeOK /\ Inv
  BY InitType, InitInv
<1>2. TypeOK /\ Inv /\ [Next]_vars => (TypeOK /\ Inv)'
  BY NextType, NextInv DEF Inv
<1> QED BY <1>1, <1>2, PTL DEF Spec

(* The pool stays within max_workers and its records well formed, whatever the
   processes do (up, pool.py 450-462). *)
THEOREM TypeCorrect == Spec => []TypeOK
BY Invariance, PTL

(* Whatever a worker process still holds is in its managed_tasks, and a process
   outside the pool holds nothing: an idle worker that cleanup() retires takes
   no message along (pool.py 82-92, 123-146, 404-411). *)
THEOREM TrackedAlways == Spec => []Tracked
<1>1. Inv => Tracked
  BY DEF Inv
<1> QED BY <1>1, Invariance, PTL

(* No message is ever in two places, for any interleaving of writes, crashes,
   recovery and reloads (pool.py 160-182, 283-298, 369-436, 464-486). *)
THEOREM SingleCopyAlways == Spec => []SingleCopy
<1>1. Inv => SingleCopy
  BY DEF Inv
<1> QED BY <1>1, Invariance, PTL

(* A job that waits or runs has its message or its worker in the pool, or was lost by an
   exception, a death, a wedged queue or full ones; and a live worker is recorded to have
   only what it has or what a queue refused, so that no other record hides a lost job from
   the heartbeat (pool.py 82-92, 283-298, 369-436; base.py 316-321; system.py 650-657). *)
THEOREM AccountedAlways == Spec => []Accounted
<1>1. Inv => Accounted
  BY DEF Inv, Accounted
<1> QED BY <1>1, Invariance, PTL

-----------------------------------------------------------------------------
(* The pool implements TaskDelivery.                                       *)

\* A message in a run waits nowhere, and one of a pending job is nowhere.
LEMMA RunsOrWaits ==
  ASSUME TypeOK, Inv, NEW t \in Tasks
  PROVE  /\ InRun(t) => ~ToStart(t)
         /\ status[t] = "pending" => ~InRun(t) /\ ~ToStart(t)
<1>1. ASSUME NEW p \in Pids, task[p] = t PROVE t \in Held(p)
  BY <1>1, PoolAssumption DEF Held
<1>2. ASSUME InRun(t), ToStart(t) PROVE FALSE
  <2>1. PICK p \in Pids : proc[p] \in InRunPhases /\ task[p] = t
    BY <1>2 DEF InRun
  <2>2. t \in Held(p) /\ t \notin bus \cup orphaned /\ t \notin Messages(p)
    BY <2>1, <1>1 DEF Inv, SingleCopy
  <2>3. PICK q \in Pids : t \in Messages(q) \/ (proc[q] = "starting" /\ task[q] = t)
    BY <1>2, <2>2 DEF ToStart
  <2>4. t \in Held(q)
    BY <2>3, <1>1 DEF Held
  <2>5. q = p
    BY <2>2, <2>4 DEF Inv, SingleCopy
  <2> QED BY <2>1, <2>2, <2>3, <2>5 DEF InRunPhases
<1>3. ASSUME status[t] = "pending" PROVE ~InRun(t) /\ ~ToStart(t)
  <2>1. t \notin bus \cup orphaned /\ \A p \in Pids : t \notin Held(p)
    BY <1>3 DEF Inv, Unsent
  <2>2. \A p \in Pids : task[p] # t /\ t \notin Messages(p)
    BY <2>1, <1>1 DEF Held
  <2> QED BY <2>1, <2>2 DEF InRun, ToStart
<1> QED BY <1>2, <1>3

\* No job becomes pending, and a pending one is left so until it is sent.
Decided ==
  \A t \in Tasks : /\ status'[t] = "pending" => status[t] = "pending"
                   /\ status[t] = "pending" => status'[t] = "pending" \/ t \in bus'

\* What each step does to the places of a message.
Onward ==
  /\ Decided
  /\ \A t \in Tasks : /\ InRun(t)' => InRun(t) \/ ToStart(t)
                      /\ ToStart(t)' => ToStart(t) \/ status[t] = "pending"

LEMMA OnwardBy ==
  ASSUME Decided,
         \A t \in bus' \cup orphaned' : ToStart(t) \/ status[t] = "pending",
         \A p \in Pids : \A t \in Messages(p)' : ToStart(t),
         \A p \in Pids : proc'[p] = "starting" => ToStart(task'[p]),
         \A p \in Pids : proc'[p] \in InRunPhases => InRun(task'[p]) \/ ToStart(task'[p])
  PROVE  Onward
<1>1. ASSUME NEW t \in Tasks, InRun(t)' PROVE InRun(t) \/ ToStart(t)
  <2>1. PICK p \in Pids : proc'[p] \in InRunPhases /\ task'[p] = t
    BY <1>1 DEF InRun
  <2> QED BY <2>1
<1>2. ASSUME NEW t \in Tasks, ToStart(t)' PROVE ToStart(t) \/ status[t] = "pending"
  <2>1. \/ t \in bus' \cup orphaned'
        \/ \E p \in Pids : t \in Messages(p)' \/ (proc'[p] = "starting" /\ task'[p] = t)
    BY <1>2 DEF ToStart
  <2> QED BY <2>1
<1> QED BY <1>1, <1>2 DEF Onward

\* The places a message can be in.
LEMMA Places ==
  /\ \A t \in bus \cup orphaned : ToStart(t)
  /\ \A p \in Pids : \A t \in Messages(p) : ToStart(t)
  /\ \A p \in Pids : proc[p] = "starting" => ToStart(task[p])
  /\ \A p \in Pids : proc[p] \in InRunPhases => InRun(task[p])
BY DEF ToStart, InRun

\* Steps of the loop that write no message, and kills.
LEMMA StillOnward ==
  ASSUME bus' \cup orphaned' \subseteq bus \cup orphaned,
         Decided,
         \A p \in Pids : /\ Messages(p)' \subseteq Messages(p)
                         /\ proc'[p] \in {"starting"} \cup InRunPhases => proc'[p] = proc[p] /\ task'[p] = task[p]
  PROVE  Onward
BY OnwardBy, Places

LEMMA KilledOnward ==
  ASSUME NEW ps, Killed(ps), UNCHANGED <<bus, orphaned, task, status>>
  PROVE  Onward
<1>1. \A p \in Pids : /\ queue'[p] \in {queue[p], <<>>}
                      /\ proc'[p] \in {"starting"} \cup InRunPhases => proc'[p] = proc[p]
  BY DEF Killed, InRunPhases
<1>2. \A p \in Pids : Messages(p)' \subseteq Messages(p)
  BY <1>1, EmptyFacts DEF Messages
<1> QED BY <1>1, <1>2, StillOnward DEF Decided

LEMMA WriteOnward ==
  ASSUME TypeOK, NEW m \in bus \cup orphaned, Write(m), UNCHANGED <<task, status>>,
         bus' \cup orphaned' \subseteq bus \cup orphaned
  PROVE  Onward
<1>1. PICK recorded, receivers : Put(m, recorded, receivers)
  BY DEF Write
<1>2. ASSUME NEW p \in Pids PROVE Messages(p)' \subseteq Messages(p) \cup {m}
  <2>1. m \in Tasks \cup {QUIT} /\ queue[p] \in Seq(Tasks \cup {QUIT})
    BY DEF TypeOK
  <2>2. ToSet(Append(queue[p], m)) = ToSet(queue[p]) \cup {m}
    BY <2>1, AppendFacts
  <2> QED BY <1>1, <2>2 DEF Put, Messages
<1>3. \A p \in Pids : proc'[p] = proc[p] \/ proc'[p] = "idle"
  BY DEF Write
<1> QED BY <1>2, <1>3, OnwardBy, Places DEF Decided, InRunPhases

LEMMA QuitOnward ==
  ASSUME TypeOK, NEW w \in Pids, queue' = [queue EXCEPT ![w] = Append(@, QUIT)],
         UNCHANGED <<bus, orphaned, proc, task, status>>
  PROVE  Onward
<1>1. ASSUME NEW p \in Pids PROVE Messages(p)' = Messages(p)
  <2>1. queue[w] \in Seq(Tasks \cup {QUIT}) /\ QUIT \in Tasks \cup {QUIT}
    BY DEF TypeOK
  <2>2. ToSet(Append(queue[w], QUIT)) = ToSet(queue[w]) \cup {QUIT}
    BY <2>1, AppendFacts
  <2> QED BY <2>2 DEF Messages, TypeOK
<1> QED BY <1>1, StillOnward DEF Decided

LEMMA WorkerOnward ==
  ASSUME TypeOK, Inv, NEW p \in Pids, Worker(p) \/ Raise(p)
  PROVE  Onward
<1> USE DEF mainVars, procVars, dbVars, InRunPhases
<1>1. UNCHANGED <<bus, orphaned>> /\ \A q \in Pids \ {p} : UNCHANGED <<queue[q], task[q], proc[q]>>
  BY DEF Worker, Take, Refuse, ReadRow, Begin, Finish, Raise, Done, TypeOK
<1>2. \A q \in Pids \ {p} : Messages(q)' = Messages(q)
  BY <1>1 DEF Messages
<1>3. CASE Take(p)
  <2>1. queue[p] # <<>> /\ queue[p] \in Seq(Tasks \cup {QUIT}) /\ task[p] = None
    BY <1>3 DEF Take, TypeOK, Inv, Working
  <2>2. ToSet(queue[p]) = {Head(queue[p])} \cup ToSet(Tail(queue[p]))
    BY <2>1, TailFacts
  <2>3. /\ queue'[p] \in {Tail(queue[p]), <<>>} /\ proc'[p] \notin InRunPhases
        /\ proc'[p] = "starting" => task'[p] = Head(queue[p]) /\ Head(queue[p]) # QUIT
    BY <1>3 DEF Take, TypeOK
  <2>4. Messages(p)' \subseteq Messages(p) /\ (proc'[p] = "starting" => task'[p] \in Messages(p))
    BY <2>2, <2>3, EmptyFacts DEF Messages
  <2>5. UNCHANGED status
    BY <1>3 DEF Take
  <2> QED BY <1>1, <1>2, <2>3, <2>4, <2>5, OnwardBy, Places DEF Decided
<1>4. ASSUME task[p] \in Tasks
      PROVE  status[task[p]] # "pending"
  <2>1. task[p] \in Held(p)
    BY <1>4, PoolAssumption DEF Held
  <2> QED BY <1>4, <2>1 DEF Inv, Unsent
<1>5. CASE ReadRow(p) \/ Begin(p)
  <2>1. /\ UNCHANGED <<queue, task>> /\ proc[p] \in {"starting", "read"} /\ proc'[p] \in InRunPhases
        /\ \A t \in Tasks : status'[t] = status[t] \/ (t = task[p] /\ status'[t] = "running")
    BY <1>5 DEF ReadRow, Begin, TypeOK
  <2>2. ToStart(task[p]) \/ InRun(task[p])
    BY <2>1, Places
  <2>3. Decided
    BY <2>1, <1>4 DEF Decided
  <2> QED BY <1>1, <2>1, <2>2, <2>3, OnwardBy, Places DEF Messages
<1>6. CASE Refuse(p) \/ Finish(p) \/ Raise(p)
  <2>1. UNCHANGED queue /\ proc'[p] = "idle"
    BY <1>6 DEF Refuse, Finish, Raise, Done, TypeOK
  <2>2. \A t \in Tasks : status'[t] = status[t] \/ (t = task[p] /\ status'[t] \in Terminal)
    BY <1>6 DEF Refuse, Finish, Raise, Terminal, TypeOK
  <2>3. Decided
    BY <2>2, <1>4 DEF Decided, Terminal
  <2> QED BY <1>1, <2>1, <2>3, StillOnward DEF Messages
<1> QED BY <1>3, <1>5, <1>6 DEF Worker

LEMMA CleanupDeadOnward ==
  ASSUME TypeOK, NEW w \in Pids, CleanupDead(w)
  PROVE  Onward
<1>1. \A t \in Tasks : status'[t] = status[t] \/ (status[t] # "pending" /\ status'[t] = "failed")
  BY DEF CleanupDead
<1>2. bus' = bus /\ proc' = proc /\ orphaned' \subseteq orphaned \cup Messages(w)
      /\ proc[w] \notin {"starting"} \cup InRunPhases
  BY DEF CleanupDead, Recovered, IsAlive, Alive, InRunPhases
<1>3. ASSUME NEW p \in Pids PROVE Messages(p)' \subseteq Messages(p) /\ (p # w => task'[p] = task[p])
  <2>1. queue'[p] \in {queue[p], <<>>} /\ (p # w => task'[p] = task[p])
    BY DEF CleanupDead, TypeOK
  <2> QED BY <2>1, EmptyFacts DEF Messages
<1> QED BY <1>1, <1>2, <1>3, OnwardBy, Places DEF Decided

LEMMA MainLoopOnward == ASSUME TypeOK, Inv, MainLoop PROVE Onward
<1> USE DEF mainVars, procVars, dbVars
<1>1. ASSUME NEW t \in Tasks, Dispatch(t) \/ Redispatch(t) PROVE Onward
  BY <1>1, WriteOnward DEF Dispatch, Redispatch
<1>2. ASSUME NEW c \in Tasks \X {1, 2}, ControlCancel(c) PROVE Onward
  <2>1. \E ps : Killed(ps)
    BY <1>2 DEF ControlCancel
  <2> QED BY <1>2, <2>1, KilledOnward DEF ControlCancel
<1>3. ASSUME NEW w \in Pids, ReloadWorker(w) \/ CleanupIdle(w) PROVE Onward
  BY <1>3, QuitOnward DEF ReloadWorker, CleanupIdle
<1>4. ASSUME NEW w \in Pids, CleanupDead(w) PROVE Onward
  BY <1>4, CleanupDeadOnward
<1>5. ASSUME NEW w \in Pids, CleanupKeep(w) PROVE Onward
  BY <1>5, StillOnward DEF CleanupKeep, Messages, Decided
<1>6. CASE CleanupScanned \/ CleanupEnd \/ Respawn
  BY <1>6, StillOnward DEF CleanupScanned, CleanupEnd, Respawn, Messages, Decided, InRunPhases
<1> QED BY <1>1, <1>2, <1>3, <1>4, <1>5, <1>6 DEF MainLoop

LEMMA NextOnward == ASSUME TypeOK, Inv, [Next]_vars PROVE Onward
<1> USE DEF mainVars, procVars, dbVars
<1>1. ASSUME NEW t \in Tasks, Submit(t) PROVE Onward
  <2>1. /\ bus' = bus \cup {t} /\ status[t] = "pending" /\ UNCHANGED <<orphaned, queue, proc, task>>
        /\ \A u \in Tasks : status'[u] = IF u = t THEN "waiting" ELSE status[u]
    BY <1>1 DEF Submit, TypeOK
  <2> QED BY <2>1, OnwardBy, Places DEF Messages, Decided
<1>2. ASSUME NEW t \in Tasks, RequestCancel(t) PROVE Onward
  BY <1>2, StillOnward DEF RequestCancel, Messages, Decided
<1>21. ASSUME NEW t \in Tasks, SaveCanceled(t) PROVE Onward
  <2>1. status[t] # "pending"
    BY <1>21 DEF SaveCanceled, Inv, Unsent
  <2>2. Decided
    BY <1>21, <2>1 DEF SaveCanceled, Decided, TypeOK
  <2> QED BY <1>21, <2>2, StillOnward DEF SaveCanceled, Messages
<1>3. ASSUME NEW p \in Pids, Worker(p) \/ Raise(p) PROVE Onward
  BY <1>3, WorkerOnward
<1>4. ASSUME NEW p \in Pids, Flush(p) PROVE Onward
  BY <1>4, StillOnward DEF Flush, Messages, Decided
<1>5. ASSUME NEW p \in Pids, Crash(p) PROVE Onward
  BY <1>5, KilledOnward DEF Crash
<1>6. CASE MainLoop
  BY <1>6, MainLoopOnward
<1>7. CASE Cleanup \/ Reload \/ UNCHANGED vars
  BY <1>7, StillOnward DEF Cleanup, Reload, vars, Messages, Decided
<1> QED BY <1>1, <1>2, <1>21, <1>3, <1>4, <1>5, <1>6, <1>7 DEF Next

LEMMA DeliveryStep ==
  TypeOK /\ Inv /\ [Next]_vars => [Delivery!TaskNext]_[t \in Tasks |-> Fate(t)]
<1> SUFFICES ASSUME TypeOK, Inv, [Next]_vars PROVE Delivery!TaskNext
  OBVIOUS
<1>1. ASSUME NEW t \in Tasks
      PROVE  Fate(t)' = Fate(t) \/ <<Fate(t), Fate(t)'>> \in Delivery!Moves
  <2>1. /\ status'[t] = "pending" => status[t] = "pending"
        /\ status[t] = "pending" => status'[t] = "pending" \/ ToStart(t)'
        /\ InRun(t)' => InRun(t) \/ ToStart(t)
        /\ ToStart(t)' => ToStart(t) \/ status[t] = "pending"
    BY NextOnward DEF Onward, Decided, ToStart
  <2>2. /\ InRun(t) => ~ToStart(t)
        /\ status[t] = "pending" => ~InRun(t) /\ ~ToStart(t)
    BY RunsOrWaits
  <2> QED BY <2>1, <2>2 DEF Fate, Delivery!Moves
<1>2. \A t \in Tasks : Fate(t)' \in Delivery!Fates
  BY DEF Fate, Delivery!Fates
<1>3. [t \in Tasks |-> Fate(t)]' = [t \in Tasks |-> Fate(t)']
  OBVIOUS
<1> QED BY <1>1, <1>2, <1>3 DEF Delivery!TaskNext

(* The pool keeps what TaskDelivery promises: however its processes die, whatever it
   recovers, writes again or drops, and whatever becomes of the job's row, a message only
   moves forward, and is taken into a run() once at most (pool.py 160-182, 283-298,
   369-436, 464-486; jobs.py 471-484). *)
THEOREM DeliversOnceAlways == Spec => DeliversOnce
<1>1. Init => Delivery!TaskInit
  BY DEF Init, Fate, Delivery!TaskInit
<1> QED BY <1>1, Invariance, DeliveryStep, PTL DEF Spec, DeliversOnce, Delivery!TaskSpec
=============================================================================
