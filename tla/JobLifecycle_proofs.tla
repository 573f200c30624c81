------------------------ MODULE JobLifecycle_proofs ------------------------
(***************************************************************************)
(* Safety of JobLifecycle for any number of jobs, task managers, users,    *)
(* messages and deaths and under every fault: no job is handled twice. And *)
(* where the faults named in a theorem's premise do not happen, a job that *)
(* waits or runs is somebody's, and the heartbeat spares a live run().     *)
(***************************************************************************)
EXTENDS JobLifecycle, TLAPS

Stages == InRun \cup {"none", "bus", "pool", "gone", "lost", "stranded", "dead"}
Unsent == {"new", "pending"}

(* No message of a job is on its way or being run. *)
Resting(j) == \A k \in 1 .. MaxRuns : ~Live(<<j, k>>)

(* A job is sent only when it is pending, and who may send it has read so under
   the lock: what it read still means that nobody handles the job. *)
AtRest == \A j \in Jobs : row[j].status \in Unsent => Resting(j)
Held == \A t \in Managers : seen[t] # None =>
          /\ lock = t
          /\ \A j \in Jobs : seen[t][j].status = "pending" => Resting(j)

Safe == OneRun /\ AtRest /\ Held
IInv == TypeOK /\ Safe

-----------------------------------------------------------------------------
(* Steps that send nothing.                                                 *)

(* No message comes to life, and a job becomes pending only at rest. *)
Calmer ==
  /\ \A m \in Messages : Live(m)' => Live(m)
  /\ \A j \in Jobs : row'[j].status \in Unsent => row[j].status \in Unsent \/ Resting(j)'

LEMMA CalmerRests ==
  ASSUME Calmer, NEW j \in Jobs, Resting(j)
  PROVE  Resting(j)'
  BY DEF Calmer, Resting, Messages

LEMMA CalmerSafe ==
  ASSUME Safe, Calmer, UNCHANGED <<lock, seen>>
  PROVE  Safe'
<1>. USE DEF Safe
<1>1. OneRun'
  BY DEF OneRun, Calmer, Messages
<1>2. AtRest'
  BY CalmerRests DEF AtRest, Calmer
<1>3. Held'
  BY CalmerRests DEF Held
<1>. QED  BY <1>1, <1>2, <1>3

(* A run() that leaves with any status leaves its job at rest. *)
LEMMA LeaveRests ==
  ASSUME TypeOK, OneRun, NEW m \in Messages, Live(m), Leave(m, "gone")
  PROVE  Resting(m[1])'
<1>1. m = <<m[1], m[2]>> /\ m[1] \in Jobs /\ m[2] \in 1 .. MaxRuns
  BY DEF Messages
<1>2. stage' = [stage EXCEPT ![m] = "gone"]
  BY DEF Leave, RunStep
<1>3. ASSUME NEW k \in 1 .. MaxRuns
      PROVE  ~Live(<<m[1], k>>)'
  <2>1. CASE k = m[2]
    BY <1>1, <1>2, <2>1 DEF Live, Queued, InRun, TypeOK
  <2>2. CASE k # m[2]
    <3>1. ~Live(<<m[1], k>>)
      BY <1>1, <2>2 DEF OneRun
    <3>2. stage'[<<m[1], k>>] = stage[<<m[1], k>>]
      BY <1>1, <1>2, <2>2 DEF TypeOK, Messages
    <3>. QED  BY <3>1, <3>2 DEF Live
  <2>. QED  BY <2>1, <2>2
<1>. QED  BY <1>3 DEF Resting

LEMMA InitHolds ==
  ASSUME Init PROVE IInv
<1>1. TypeOK
  BY JobAssumption DEF Init, TypeOK, Row, CanCancel, Terminal, InRun, Idle, NoBeat
<1>2. OneRun /\ AtRest /\ Held
  BY DEF Init, OneRun, AtRest, Held, Resting, Live, Queued, InRun, Messages
<1>. QED  BY <1>1, <1>2 DEF IInv, Safe

-----------------------------------------------------------------------------
(* Task managers.                                                           *)

LEMMA SignalStartStep ==
  ASSUME IInv, NEW j \in Jobs, SignalStart(j)
  PROVE  IInv'
<1>. USE DEF IInv
<1>1. TypeOK'
  BY DEF TypeOK, SignalStart, Row, CanCancel, runs, pool
<1>2. Calmer /\ UNCHANGED <<lock, seen>>
  BY DEF TypeOK, Calmer, SignalStart, Unsent, Live
<1>. QED  BY <1>1, <1>2, CalmerSafe

LEMMA ReadRowsStep ==
  ASSUME IInv, NEW t \in Managers, ReadRows(t)
  PROVE  IInv'
<1>. USE DEF IInv, Safe
<1>1. TypeOK'
  BY DEF TypeOK, ReadRows, runs, pool
<1>2. UNCHANGED <<row, stage>>
  BY DEF ReadRows
<1>3. OneRun' /\ AtRest'
  BY <1>2 DEF OneRun, AtRest, Resting, Live
<1>4. Held'
  <2>1. \A o \in Managers \ {t} : seen'[o] = None
    BY JobAssumption DEF ReadRows, Held, TypeOK
  <2>2. seen'[t] = row /\ lock' = t
    BY DEF ReadRows, TypeOK
  <2>3. \A j \in Jobs : row[j].status = "pending" => Resting(j)'
    BY <1>2 DEF AtRest, Resting, Live, Unsent
  <2>. QED  BY <2>1, <2>2, <2>3 DEF Held
<1>. QED  BY <1>1, <1>3, <1>4

LEMMA AbortStep ==
  ASSUME IInv, NEW t \in Managers, Abort(t)
  PROVE  IInv'
<1>. USE DEF IInv, Safe
<1>1. TypeOK'
  BY DEF TypeOK, Abort, runs, pool
<1>2. UNCHANGED <<row, stage>>
  BY DEF Abort
<1>3. OneRun' /\ AtRest'
  BY <1>2 DEF OneRun, AtRest, Resting, Live
<1>4. \A o \in Managers : seen'[o] = None
  BY DEF Abort, Held, TypeOK
<1>. QED  BY <1>1, <1>3, <1>4 DEF Held

(* A message that was never sent is taken for each job that is sent. *)
LEMMA CommitStep ==
  ASSUME IInv, NEW t \in Managers, Commit(t)
  PROVE  IInv'
<1>. USE DEF IInv, Safe
<1>1. PICK sent, refused, dependent \in SUBSET {j \in Jobs : seen[t][j].status = "pending"} :
        /\ sent \cap refused = {} /\ (sent \cup refused) \cap dependent = {}
        /\ \A j \in sent : Unused(j) # {}
        /\ row' = [j \in Jobs |-> Saved(t, j, sent, refused, dependent)]
        /\ stage' = [m \in Messages |-> IF m[1] \in sent /\ m[2] = NextRun(m[1])
                                        THEN IF phase = "down" THEN "lost" ELSE "bus"
                                        ELSE stage[m]]
  BY DEF Commit
<1>2. seen[t] \in [Jobs -> Row] /\ \A j \in sent : Resting(j)
  BY <1>1 DEF Commit, TypeOK, Held
<1>3. \A j \in sent : NextRun(j) \in 1 .. MaxRuns
  BY <1>1 DEF NextRun, Unused
<1>4. TypeOK'
  <2>1. row' \in [Jobs -> Row]
    <3>1. ASSUME NEW j \in Jobs
          PROVE  Saved(t, j, sent, refused, dependent) \in Row
      <4>1. row[j] \in Row /\ seen[t][j] \in Row
        BY <1>2 DEF TypeOK
      <4>2. CASE j \in sent
        <5>1. NextRun(j) \in 0 .. MaxRuns
          BY <1>3, <4>2
        <5>2. [seen[t][j] EXCEPT !.status = "waiting", !.run = NextRun(j)] \in Row
          BY <4>1, <5>1 DEF Row, CanCancel
        <5>. QED  BY <1>1, <4>2, <5>2 DEF Saved
      <4>3. CASE j \notin sent
        <5>1. [row[j] EXCEPT !.status = "failed"] \in Row
              /\ [seen[t][j] EXCEPT !.status = "failed"] \in Row
          BY <4>1 DEF Row, Terminal
        <5>. QED  BY <1>1, <4>1, <4>3, <5>1 DEF Saved
      <4>. QED  BY <4>2, <4>3
    <3>. QED  BY <1>1, <3>1
  <2>2. stage' \in [Messages -> Stages]
    BY <1>1 DEF TypeOK, Stages
  <2>3. UNCHANGED <<user, runs, pool, doomed, beat>> /\ lock' = None
        /\ seen' = [seen EXCEPT ![t] = None]
    BY DEF Commit
  <2>. QED  BY <2>1, <2>2, <2>3 DEF TypeOK, Stages, runs, pool
<1>5. ASSUME NEW j \in Jobs, NEW k \in 1 .. MaxRuns, Live(<<j, k>>)'
      PROVE  Live(<<j, k>>) \/ (j \in sent /\ k = NextRun(j))
  BY <1>1, <1>5 DEF Live, Messages
<1>6. OneRun'
  <2>1. ASSUME NEW j \in Jobs, NEW k \in 1 .. MaxRuns, NEW i \in 1 .. MaxRuns,
               Live(<<j, k>>)', Live(<<j, i>>)'
        PROVE  k = i
    <3>1. CASE j \in sent
      BY <1>2, <1>5, <2>1, <3>1 DEF Resting
    <3>2. CASE j \notin sent
      BY <1>5, <2>1, <3>2 DEF OneRun
    <3>. QED  BY <3>1, <3>2
  <2>. QED  BY <2>1 DEF OneRun
<1>7. AtRest'
  <2>1. ASSUME NEW j \in Jobs, row'[j].status \in Unsent
        PROVE  Resting(j)'
    <3>1. row'[j] = Saved(t, j, sent, refused, dependent)
      BY <1>1
    <3>2. j \notin sent /\ row[j].status \in Unsent
      <4>1. row[j] \in Row /\ seen[t][j] \in Row
        BY <1>2 DEF TypeOK
      <4>2. CASE j \in sent
        BY <1>1, <2>1, <3>1, <4>1, <4>2 DEF Saved, Unsent, Row
      <4>3. CASE j \in refused \cup dependent
        BY <1>1, <2>1, <3>1, <4>1, <4>3 DEF Saved, Unsent, Row
      <4>4. CASE j \notin sent \cup refused \cup dependent
        BY <2>1, <3>1, <4>4 DEF Saved
      <4>. QED  BY <4>2, <4>3, <4>4
    <3>3. Resting(j)
      BY <3>2 DEF AtRest
    <3>. QED  BY <1>5, <3>2, <3>3 DEF Resting
  <2>. QED  BY <2>1 DEF AtRest
<1>8. \A o \in Managers : seen'[o] = None
  BY DEF Commit, Held, TypeOK
<1>. QED  BY <1>4, <1>6, <1>7, <1>8 DEF Held

-----------------------------------------------------------------------------
(* Users.                                                                   *)

LEMMA UserKnows ==
  ASSUME TypeOK, NEW u \in Users, user[u].at \in {"open", "asked", "unanswered", "canceled"}
  PROVE  user[u] \in [at : {"open", "asked", "unanswered", "canceled"}, job : Jobs, seen : Row]
  BY DEF TypeOK

(* What a user writes is a flag, or a status that is not to be sent. *)
LEMMA UserStep ==
  ASSUME IInv, NEW u \in Users, Canceling(u) \/ CancelInTransaction(u) \/ \E j \in Jobs : Open(u, j)
  PROVE  IInv'
<1>. USE DEF IInv
<1>. DEFINE Knowing == [at : {"open", "asked", "unanswered", "canceled"}, job : Jobs, seen : Row]
            Users0  == [at : {"idle", "done"}, job : {None}, seen : {None}] \cup Knowing
<1>1. UNCHANGED <<lock, seen, stage, runs, managed, ghosts, phase, toReap, deaths, doomed, beat>>
  BY DEF Canceling, CancelInTransaction, Open, SaveFlag, ReplyTimeout, SaveCanceled, FallbackCancel, pool
<1>2. user \in [Users -> Users0] /\ row \in [Jobs -> Row] /\ Done \in Users0
  BY DEF TypeOK, Done, Idle
<1>3. user' \in [Users -> Users0]
  <2>1. CASE \E j \in Jobs : Open(u, j)
    BY <1>2, <2>1 DEF Open
  <2>2. CASE SaveFlag(u)
    BY <1>2, <2>2, UserKnows DEF SaveFlag
  <2>3. CASE ReplyTimeout(u)
    BY <1>2, <2>3, UserKnows DEF ReplyTimeout
  <2>4. CASE SaveCanceled(u)
    BY <1>2, <2>4, UserKnows DEF SaveCanceled
  <2>5. CASE FallbackCancel(u) \/ CancelInTransaction(u)
    BY <1>2, <2>5 DEF FallbackCancel, CancelInTransaction
  <2>. QED  BY <2>1, <2>2, <2>3, <2>4, <2>5 DEF Canceling
<1>4. row' \in [Jobs -> Row] /\
        \A j \in Jobs : row'[j].status = row[j].status \/ row'[j].status = "canceled"
  <2>1. CASE SaveFlag(u)
    <3>1. user[u] \in Knowing
      BY <2>1, UserKnows DEF SaveFlag
    <3>2. /\ [row[user[u].job] EXCEPT !.flag = TRUE] \in Row
          /\ [row[user[u].job] EXCEPT !.flag = TRUE].status = row[user[u].job].status
      BY <1>2, <3>1 DEF Row
    <3>3. \/ row' = row
          \/ row' = [row EXCEPT ![user[u].job] = [row[user[u].job] EXCEPT !.flag = TRUE]]
      BY <1>2, <2>1, <3>1 DEF SaveFlag
    <3>4. user[u].job \in Jobs
      BY <3>1
    <3>5. CASE row' = row
      BY <1>2, <3>5
    <3>6. CASE row' = [row EXCEPT ![user[u].job] = [row[user[u].job] EXCEPT !.flag = TRUE]]
      <4>. HIDE DEF Knowing
      <4>. QED  BY <1>2, <3>2, <3>4, <3>6
    <3>. QED  BY <3>3, <3>5, <3>6
  <2>2. CASE SaveCanceled(u)
    BY <1>2, <2>2, UserKnows DEF SaveCanceled, Row, Terminal
  <2>3. CASE CancelInTransaction(u)
    <3>1. user[u] \in Knowing
      BY <2>3, UserKnows DEF CancelInTransaction
    <3>2. PICK flag \in BOOLEAN, status \in Terminal \cup CanCancel :
            /\ row' = [row EXCEPT ![user[u].job].flag = flag, ![user[u].job].status = status]
            /\ status = row[user[u].job].status \/ status = "canceled"
      BY <1>2, <2>3, <3>1 DEF CancelInTransaction, Row, Terminal
    <3>. QED  BY <1>2, <3>1, <3>2 DEF Row
  <2>4. CASE UNCHANGED row
    BY <1>2, <2>4
  <2>. QED  BY <2>1, <2>2, <2>3, <2>4 DEF Canceling, Open, ReplyTimeout, FallbackCancel
<1>5. control' \subseteq Messages
  <2>1. \A k \in 0 .. MaxRuns : k # 0 => k \in 1 .. MaxRuns
    BY JobAssumption
  <2>2. CASE SaveFlag(u)
    BY <1>2, <2>1, <2>2, UserKnows DEF SaveFlag, Notify, Messages, Row, TypeOK
  <2>3. CASE FallbackCancel(u)
    BY <1>2, <2>1, <2>3, UserKnows DEF FallbackCancel, Uuid, Notify, Messages, Row, TypeOK
  <2>4. CASE CancelInTransaction(u)
    BY <1>2, <2>1, <2>4, UserKnows DEF CancelInTransaction, Uuid, Notify, Messages, Row, TypeOK
  <2>5. CASE UNCHANGED control
    BY <2>5 DEF TypeOK
  <2>. QED  BY <2>2, <2>3, <2>4, <2>5 DEF Canceling, Open, ReplyTimeout, SaveCanceled, pool
<1>6. TypeOK'
  BY <1>1, <1>3, <1>4, <1>5 DEF TypeOK, runs
<1>7. Calmer
  BY <1>1, <1>4 DEF Calmer, Live, Unsent
<1>. QED  BY <1>1, <1>6, <1>7, CalmerSafe

-----------------------------------------------------------------------------
(* The dispatcher, the heartbeat and the reapers.                           *)

Loop(m) == \/ Deliver(m) \/ Drop(m) \/ ControlCancel(m)
           \/ Cleanup(m) \/ Requeue(m) \/ CleanupGhost(m)

(* Where the dispatcher's loop takes a message. *)
Moved(m, to) == stage' = [stage EXCEPT ![m] = to]

LEMMA LoopMoves ==
  ASSUME TypeOK, NEW m \in Messages, Loop(m), NEW i \in Messages
  PROVE  \/ stage'[i] = stage[i]
         \/ i = m /\ Deliver(m) /\ stage[i] = "bus" /\ stage'[i] = "pool"
         \/ i = m /\ Drop(m) /\ stage[i] = "bus" /\ stage'[i] = "lost"
         \/ ControlCancel(m) /\ i \in managed /\ stage[i] = "pool" /\ stage'[i] \in {"dead", "stranded"}
         \/ /\ i = m /\ Requeue(m) /\ stage[i] = "stranded"
            /\ \/ stage'[i] = "pool" /\ managed' = managed
               \/ stage'[i] = "lost" /\ ("drop" \in Faults \/ "wedge" \in Faults)
<1>1. CASE Deliver(m)
  BY <1>1 DEF Deliver, TypeOK
<1>2. CASE Drop(m)
  BY <1>2 DEF Drop, TypeOK
<1>3. CASE ControlCancel(m)
  <2>1. PICK hit \in SUBSET {n \in managed : stage[n] \in {"pool"} \cup InRun},
             stranded \in SUBSET {n \in managed : stage[n] = "pool"} :
          stage' = [n \in Messages |-> IF n \in stranded THEN "stranded"
                                       ELSE IF n \in hit /\ stage[n] = "pool" THEN "dead" ELSE stage[n]]
    BY <1>3 DEF ControlCancel
  <2>. QED  BY <1>3, <2>1
<1>4. CASE Cleanup(m) \/ CleanupGhost(m)
  BY <1>4 DEF Cleanup, CleanupGhost
<1>5. CASE Requeue(m)
  <2>1. stage[m] = "stranded" /\ \A n \in Messages \ {m} : stage'[n] = stage[n]
    BY <1>5 DEF Requeue, TypeOK
  <2>2. \/ stage'[m] = "pool" /\ managed' = managed
        \/ stage'[m] = "lost" /\ ("drop" \in Faults \/ "wedge" \in Faults)
    BY <1>5 DEF Requeue, TypeOK
  <2>. QED  BY <1>5, <2>1, <2>2
<1>. QED  BY <1>1, <1>2, <1>3, <1>4, <1>5 DEF Loop

LEMMA DispatcherStep ==
  ASSUME IInv, NEW m \in Messages, Loop(m)
  PROVE  IInv'
<1>. USE DEF IInv
<1>0. m[1] \in Jobs /\ \A n \in Messages : n[1] \in Jobs
  BY DEF Messages
<1>1. UNCHANGED <<row, lock, seen, saw, result, phase, toReap, deaths, beat>>
  BY DEF Loop, Deliver, Drop, ControlCancel, Cleanup, Requeue, CleanupGhost, pool, runs
<1>2. stage' \in [Messages -> Stages] /\ \A i \in Messages : Live(i)' => Live(i)
  <2>1. \E f : stage' = [n \in Messages |-> f[n]]
    <3>1. CASE ControlCancel(m)
      <4>1. PICK hit, stranded :
              stage' = [n \in Messages |-> IF n \in stranded THEN "stranded"
                                           ELSE IF n \in hit /\ stage[n] = "pool" THEN "dead" ELSE stage[n]]
        BY <3>1 DEF ControlCancel
      <4>. QED  BY <4>1
    <3>2. CASE UNCHANGED stage \/ \E to \in Stages : Moved(m, to)
      BY <3>2 DEF Moved, TypeOK
    <3>3. Deliver(m) \/ Drop(m) \/ Requeue(m) => \E to \in Stages : Moved(m, to)
      BY DEF Deliver, Drop, Requeue, Moved, Stages
    <3>. QED  BY <3>1, <3>2, <3>3 DEF Loop, Cleanup, CleanupGhost
  <2>2. \A i \in Messages : stage'[i] \in Stages /\ (Live(i)' => Live(i))
    BY LoopMoves DEF TypeOK, Stages, Live, Queued, InRun
  <2>. QED  BY <2>1, <2>2
<1>3. user' \in [Users -> [at : {"idle", "done"}, job : {None}, seen : {None}] \cup
                          [at : {"open", "asked", "unanswered", "canceled"},
                           job : Jobs, seen : Row]]
  <2>1. CASE UNCHANGED user
    BY <2>1 DEF TypeOK
  <2>2. CASE \E acked \in BOOLEAN : Reply(m, acked)
    <3>1. PICK acked \in BOOLEAN : Reply(m, acked)
      BY <2>2
    <3>. QED  BY <3>1, UserKnows DEF Reply, TypeOK, Done, Idle
  <2>. QED  BY <2>1, <2>2 DEF Loop, Deliver, Drop, ControlCancel, Cleanup, Requeue, CleanupGhost
<1>4. term' \in [Messages -> BOOLEAN]
  <2>1. CASE ControlCancel(m)
    <3>1. PICK hit : term' = [n \in Messages |-> term[n] \/ (n \in hit /\ stage[n] \in InRun)]
      BY <2>1 DEF ControlCancel
    <3>. QED  BY <3>1
  <2>2. CASE UNCHANGED term
    BY <2>2 DEF TypeOK
  <2>. QED  BY <2>1, <2>2 DEF Loop, Deliver, Drop, Cleanup, Requeue, CleanupGhost, runs
<1>5. managed' \subseteq Messages /\ ghosts' \subseteq Messages /\ control' \subseteq Messages
  <2>1. CASE Deliver(m) \/ Drop(m) \/ ControlCancel(m)
    BY <2>1 DEF TypeOK, Deliver, Drop, ControlCancel, pool
  <2>2. CASE Cleanup(m) \/ Requeue(m) \/ CleanupGhost(m)
    BY <2>2 DEF TypeOK, Cleanup, Requeue, CleanupGhost, pool
  <2>. QED  BY <2>1, <2>2 DEF Loop
<1>6. doomed' \subseteq Jobs
  <2>1. Fronts(m) \subseteq Messages
    BY DEF Fronts, Late, TypeOK
  <2>2. \A n \in Messages : Reaped(n) \subseteq Jobs
    BY <1>0 DEF Reaped
  <2>. QED  BY <2>1, <2>2 DEF TypeOK, Loop, Deliver, Drop, ControlCancel, Cleanup, Requeue, CleanupGhost, pool
<1>7. TypeOK'
  BY <1>1, <1>2, <1>3, <1>4, <1>5, <1>6 DEF TypeOK, Stages
<1>8. Calmer
  BY <1>1, <1>2 DEF Calmer
<1>. QED  BY <1>1, <1>7, <1>8, CalmerSafe

LEMMA ReaperStep ==
  ASSUME IInv,
         \/ (\E short \in BOOLEAN : BindHeartbeat(short)) \/ HeartbeatEnd
         \/ \E j \in Jobs : ReapSave(j) \/ HeartbeatReap(j)
  PROVE  IInv'
<1>. USE DEF IInv
<1>1. UNCHANGED <<lock, seen, user, stage, runs, pool>>
  BY DEF BindHeartbeat, HeartbeatEnd, ReapSave, HeartbeatReap
<1>2. row' \in [Jobs -> Row] /\ doomed' \subseteq Jobs /\
        \A j \in Jobs : row'[j].status = row[j].status \/ row'[j].status = "failed"
  <2>1. CASE \E j \in Jobs : ReapSave(j)
    BY <2>1 DEF TypeOK, ReapSave, Row, Terminal
  <2>2. CASE UNCHANGED row
    BY <2>2 DEF TypeOK, BindHeartbeat, HeartbeatEnd, ReapSave, HeartbeatReap
  <2>. QED  BY <2>1, <2>2 DEF BindHeartbeat, HeartbeatEnd, HeartbeatReap
<1>3. beat' \in [on : BOOLEAN, excluded : SUBSET Messages, begun : SUBSET Jobs,
                waiting : SUBSET (Jobs \X (0 .. MaxRuns))]
  <2>1. CASE \E short \in BOOLEAN : BindHeartbeat(short)
    <3>1. \A j \in Jobs : Current(j) \in Jobs \X (0 .. MaxRuns)
      BY DEF TypeOK, Current, Row
    <3>2. Late \subseteq Messages
      BY DEF Late
    <3>3. PICK short \in BOOLEAN, late \in SUBSET Late :
            beat' = [on |-> TRUE, excluded |-> managed \cup ghosts \cup late,
                     begun |-> {j \in Jobs : row[j].started},
                     waiting |-> {Current(j) : j \in {i \in Jobs : short /\ row[i].status = "waiting"}}]
      BY <2>1 DEF BindHeartbeat
    <3>. QED  BY <3>1, <3>2, <3>3 DEF TypeOK
  <2>2. CASE HeartbeatEnd
    BY <2>2 DEF HeartbeatEnd, NoBeat
  <2>3. CASE UNCHANGED beat
    BY <2>3 DEF TypeOK
  <2>. QED  BY <2>1, <2>2, <2>3 DEF ReapSave, HeartbeatReap
<1>4. TypeOK'
  BY <1>1, <1>2, <1>3 DEF TypeOK, runs, pool
<1>5. Calmer
  BY <1>1, <1>2 DEF Calmer, Live, Unsent
<1>. QED  BY <1>1, <1>4, <1>5, CalmerSafe

LEMMA RestartStep ==
  ASSUME IInv, DispatcherDies \/ Startup
  PROVE  IInv'
<1>. USE DEF IInv
<1>1. UNCHANGED <<row, lock, seen, user, runs, beat>>
  BY DEF DispatcherDies, Startup, Listen, StartupRunning, StartupWaiting, StartupEnd, StartupReap
<1>2. stage' \in [Messages -> Stages] /\ \A i \in Messages : Live(i)' => Live(i)
  <2>1. CASE DispatcherDies
    BY <2>1 DEF TypeOK, Stages, Live, Queued, InRun, DispatcherDies
  <2>2. CASE UNCHANGED stage
    BY <2>2 DEF TypeOK, Stages, Live
  <2>. QED  BY <2>1, <2>2 DEF Startup, Listen, StartupRunning, StartupWaiting, StartupEnd, StartupReap
<1>3. /\ managed' \subseteq Messages /\ ghosts' \subseteq Messages /\ control' \subseteq Messages
      /\ phase' \in {"down", "boot", "reapRunning", "reapWaiting", "up"}
      /\ toReap' \subseteq Jobs /\ doomed' \subseteq Jobs /\ deaths' \in 0 .. MaxDeaths
  <2>1. CASE DispatcherDies
    BY <2>1, JobAssumption DEF TypeOK, DispatcherDies
  <2>2. CASE Startup
    BY <2>2 DEF TypeOK, Startup, Listen, StartupRunning, StartupWaiting, StartupEnd, StartupReap
  <2>. QED  BY <2>1, <2>2
<1>4. TypeOK'
  BY <1>1, <1>2, <1>3 DEF TypeOK, Stages, runs
<1>5. Calmer
  BY <1>1, <1>2 DEF Calmer
<1>. QED  BY <1>1, <1>4, <1>5, CalmerSafe

-----------------------------------------------------------------------------
(* run() in a worker.                                                       *)

(* A run() goes on, or ends: no message comes to life. *)
LEMMA RunStepFacts ==
  ASSUME TypeOK, NEW m \in Messages, NEW s \in Stages, RunStep(m, s), Live(m) \/ s \notin InRun \cup Queued
  PROVE  /\ stage' \in [Messages -> Stages] /\ managed' \subseteq Messages
         /\ \A i \in Messages : Live(i)' => Live(i)
         /\ UNCHANGED <<lock, seen, user, ghosts, control, phase, toReap, deaths, doomed, beat>>
<1>1. stage' = [stage EXCEPT ![m] = s]
  BY DEF RunStep
<1>2. stage' \in [Messages -> Stages]
  BY <1>1 DEF TypeOK, Stages
<1>3. \A i \in Messages : Live(i)' => Live(i)
  BY <1>1 DEF TypeOK, Live
<1>. QED  BY <1>2, <1>3 DEF RunStep, TypeOK

LEMMA LeaveFacts ==
  ASSUME TypeOK, NEW m \in Messages, Leave(m, "gone") \/ Leave(m, "dead")
  PROVE  /\ stage' \in [Messages -> Stages] /\ managed' \subseteq Messages
         /\ \A i \in Messages : Live(i)' => Live(i)
         /\ saw' \in [Messages -> Row \cup {None}] /\ term' \in [Messages -> BOOLEAN]
         /\ result' \in [Messages -> Terminal \cup CanCancel]
         /\ UNCHANGED <<lock, seen, user, ghosts, control, phase, toReap, deaths, doomed, beat>>
<1>1. PICK s \in {"gone", "dead"} : Leave(m, s)
  OBVIOUS
<1>2. RunStep(m, s) /\ s \in Stages /\ s \notin InRun \cup Queued
  BY <1>1 DEF Leave, Stages, InRun, Queued
<1>3. saw' \in [Messages -> Row \cup {None}] /\ term' \in [Messages -> BOOLEAN]
      /\ result' \in [Messages -> Terminal \cup CanCancel]
  BY <1>1 DEF Leave, TypeOK, Terminal
<1>. QED  BY <1>2, <1>3, RunStepFacts

(* It leaves the row as it is, or saves a status that is not to be sent. *)
LEMMA GoesOn ==
  ASSUME IInv, NEW m \in Messages, NEW s \in InRun \cup {"stranded"}, Live(m), RunStep(m, s),
         row' \in [Jobs -> Row],
         \A j \in Jobs : row'[j].status = row[j].status \/ row'[j].status \notin Unsent,
         saw' \in [Messages -> Row \cup {None}], term' \in [Messages -> BOOLEAN],
         result' \in [Messages -> Terminal \cup CanCancel]
  PROVE  IInv'
<1>. USE DEF IInv
<1>1. /\ stage' \in [Messages -> Stages] /\ managed' \subseteq Messages
      /\ \A i \in Messages : Live(i)' => Live(i)
      /\ UNCHANGED <<lock, seen, user, ghosts, control, phase, toReap, deaths, doomed, beat>>
  BY RunStepFacts DEF Stages
<1>2. TypeOK'
  BY <1>1 DEF TypeOK, Stages
<1>3. Calmer
  BY <1>1 DEF Calmer
<1>. QED  BY <1>1, <1>2, <1>3, CalmerSafe

(* It leaves: whatever status it saves, its job is at rest. *)
LEMMA Leaves ==
  ASSUME IInv, NEW m \in Messages,
         \/ Leave(m, "gone") /\ Live(m) /\ \E s \in Terminal \cup CanCancel : SetStatus(m, s)
         \/ (Leave(m, "gone") \/ Leave(m, "dead")) /\ UNCHANGED row
  PROVE  IInv'
<1>. USE DEF IInv
<1>1. Leave(m, "gone") \/ Leave(m, "dead")
  OBVIOUS
<1>2. /\ stage' \in [Messages -> Stages] /\ managed' \subseteq Messages
      /\ \A i \in Messages : Live(i)' => Live(i)
      /\ saw' \in [Messages -> Row \cup {None}] /\ term' \in [Messages -> BOOLEAN]
      /\ result' \in [Messages -> Terminal \cup CanCancel]
      /\ UNCHANGED <<lock, seen, user, ghosts, control, phase, toReap, deaths, doomed, beat>>
  BY <1>1, LeaveFacts
<1>3. row' \in [Jobs -> Row] /\ \A j \in Jobs : row'[j].status # row[j].status => Resting(j)'
  <2>1. CASE UNCHANGED row
    BY <2>1 DEF TypeOK
  <2>2. CASE Leave(m, "gone") /\ Live(m) /\ \E s \in Terminal \cup CanCancel : SetStatus(m, s)
    <3>1. PICK s \in Terminal \cup CanCancel : SetStatus(m, s)
      BY <2>2
    <3>2. m[1] \in Jobs
      BY DEF Messages
    <3>3. row' \in [Jobs -> Row] /\ \A j \in Jobs \ {m[1]} : row'[j] = row[j]
      <4>1. row' = [row EXCEPT ![m[1]] = [row[m[1]] EXCEPT !.status = s]]
        BY <3>1, <3>2 DEF SetStatus, TypeOK
      <4>2. [row[m[1]] EXCEPT !.status = s] \in Row
        BY <3>2 DEF TypeOK, Row
      <4>3. row \in [Jobs -> Row]
        BY DEF TypeOK
      <4>4. PICK r \in Row : row' = [row EXCEPT ![m[1]] = r]
        BY <4>1, <4>2
      <4>. QED  BY <3>2, <4>3, <4>4
    <3>4. Resting(m[1])'
      BY <2>2, LeaveRests DEF Safe
    <3>. QED  BY <3>3, <3>4
  <2>. QED  BY <2>1, <2>2
<1>4. TypeOK'
  BY <1>2, <1>3 DEF TypeOK, Stages
<1>5. Calmer
  BY <1>2, <1>3 DEF Calmer
<1>. QED  BY <1>2, <1>4, <1>5, CalmerSafe

LEMMA CanceledRow ==
  ASSUME TypeOK, NEW m \in Messages, SetStatus(m, "canceled")
  PROVE  /\ row' \in [Jobs -> Row]
         /\ \A j \in Jobs : row'[j].status = row[j].status \/ row'[j].status \notin Unsent
<1>0. row \in [Jobs -> Row]
  BY DEF TypeOK
<1>1. m[1] \in Jobs
  BY DEF Messages
<1>2. row' = [row EXCEPT ![m[1]] = [row[m[1]] EXCEPT !.status = "canceled"]]
  BY <1>1 DEF SetStatus, TypeOK
<1>3. [row[m[1]] EXCEPT !.status = "canceled"] \in Row
  <2>1. row[m[1]] \in Row /\ "canceled" \in Terminal
    BY <1>0, <1>1 DEF Terminal
  <2>. QED  BY <2>1 DEF Row
<1>4. [row[m[1]] EXCEPT !.status = "canceled"].status = "canceled"
  BY <1>0, <1>1 DEF Row
<1>5. PICK r \in Row : row' = [row EXCEPT ![m[1]] = r] /\ r.status = "canceled"
  BY <1>2, <1>3, <1>4
<1>6. row' \in [Jobs -> Row] /\ row'[m[1]] = r /\ \A j \in Jobs \ {m[1]} : row'[j] = row[j]
  BY <1>0, <1>1, <1>5
<1>7. r.status \notin Unsent
  BY <1>5 DEF Unsent
<1>. QED  BY <1>6, <1>7

LEMMA EndedStep ==
  ASSUME IInv, NEW m \in Messages, stage[m] \in {"exec", "prep", "stop"},
         NEW s \in Terminal \cup CanCancel, Ended(m, s)
  PROVE  IInv'
<1>1. Live(m) /\ "ended" \in InRun
  BY DEF Live, Queued, InRun
<1>2. /\ saw' \in [Messages -> Row \cup {None}] /\ UNCHANGED <<row, term>>
      /\ result' \in [Messages -> Terminal \cup CanCancel]
  BY DEF IInv, TypeOK, Ended
<1>. QED  BY <1>1, <1>2, GoesOn DEF IInv, TypeOK, Ended

LEMMA RunStepHolds ==
  ASSUME IInv, NEW m \in Messages, Run(m)
  PROVE  IInv'
<1>. USE DEF IInv
<1>0. m[1] \in Jobs
  BY DEF Messages
<1>1. CASE Take(m)
  BY <1>1, GoesOn DEF Take, TypeOK, runs, Live, Queued, InRun
<1>2. CASE Load(m)
  <2>1. CASE Leave(m, "gone")
    BY <1>2, <2>1, Leaves DEF Load
  <2>2. CASE \E s \in {"cancel", "read"} : RunStep(m, s) /\ UNCHANGED runs
    <3>1. PICK s \in {"cancel", "read"} : RunStep(m, s) /\ UNCHANGED runs
      BY <2>2
    <3>. QED  BY <1>2, <3>1, GoesOn DEF Load, TypeOK, runs, Live, Queued, InRun
  <2>. QED  BY <1>2, <2>1, <2>2 DEF Load
<1>3. CASE CancelBeforeRun(m)
  BY <1>3, Leaves DEF CancelBeforeRun, Live, Queued, InRun, Terminal
<1>4. CASE MarkRunning(m)
  <2>1. row' \in [Jobs -> Row] /\ row'[m[1]] \in Row
        /\ \A j \in Jobs : row'[j].status = row[j].status \/ row'[j].status \notin Unsent
    <3>1. row' = [row EXCEPT ![m[1]] = [row[m[1]] EXCEPT !.status = "running", !.started = TRUE]]
      BY <1>0, <1>4 DEF MarkRunning, TypeOK
    <3>2. [row[m[1]] EXCEPT !.status = "running", !.started = TRUE] \in Row
      <4>1. row[m[1]] \in Row
        BY <1>0 DEF TypeOK
      <4>2. "running" \in Terminal \cup CanCancel
        BY DEF CanCancel
      <4>. QED  BY <4>1, <4>2 DEF Row
    <3>. QED  BY <1>0, <3>1, <3>2 DEF TypeOK, Row, Unsent
  <2>2. saw' \in [Messages -> Row \cup {None}] /\ UNCHANGED <<term, result>>
    BY <1>4, <2>1 DEF MarkRunning, TypeOK
  <2>3. RunStep(m, "prep") /\ Live(m)
    BY <1>4 DEF MarkRunning, Live, Queued, InRun
  <2>. QED  BY <2>1, <2>2, <2>3, GoesOn DEF TypeOK, InRun
<1>5. CASE Check(m)
  <2>1. /\ UNCHANGED row \/ SetStatus(m, "canceled")
        /\ RunStep(m, "stop") \/ RunStep(m, "exec")
    BY <1>5 DEF Check
  <2>2. row' \in [Jobs -> Row]
        /\ \A j \in Jobs : row'[j].status = row[j].status \/ row'[j].status \notin Unsent
    BY <1>0, <2>1, CanceledRow DEF TypeOK
  <2>3. saw' \in [Messages -> Row \cup {None}] /\ UNCHANGED <<term, result>> /\ Live(m)
    BY <1>5 DEF Check, TypeOK, Live, Queued, InRun
  <2>. QED  BY <2>1, <2>2, <2>3, GoesOn DEF TypeOK, InRun
<1>6. CASE Reread(m)
  <2>1. row[m[1]].status \in Terminal \cup CanCancel
    BY <1>0 DEF TypeOK, Row
  <2>. QED  BY <1>6, <2>1, EndedStep DEF Reread
<1>7. CASE SaveResult(m)
  <2>1. result[m] \in Terminal \cup CanCancel
    BY DEF TypeOK
  <2>. QED  BY <1>7, <2>1, Leaves DEF SaveResult, Live, Queued, InRun
<1>. QED  BY <1>1, <1>2, <1>3, <1>4, <1>5, <1>6, <1>7 DEF Run

LEMMA FaultStep ==
  ASSUME IInv, NEW m \in Messages,
         \/ Execute(m) \/ Interrupted(m) \/ Break(m) \/ ExceededQuota(m)
         \/ DatabaseFails(m) \/ Die(m) \/ Strand(m) \/ ShutdownSignal(m)
  PROVE  IInv'
<1>. USE DEF IInv
<1>1. CASE Execute(m) \/ Interrupted(m) \/ Break(m)
  <2>1. \E s \in Terminal : Ended(m, s)
    BY <1>1 DEF Execute, Interrupted, Break, Terminal
  <2>2. stage[m] \in {"exec", "prep"}
    BY <1>1 DEF Execute, Interrupted, Break
  <2>. QED  BY <2>1, <2>2, EndedStep
<1>2. CASE ExceededQuota(m)
  BY <1>2, Leaves DEF ExceededQuota, Live, Queued, InRun, CanCancel
<1>3. CASE DatabaseFails(m) \/ Die(m)
  BY <1>3, Leaves DEF DatabaseFails, Die
<1>4. CASE ShutdownSignal(m)
  <2>1. TypeOK'
    BY <1>4 DEF TypeOK, ShutdownSignal, pool
  <2>2. Calmer /\ UNCHANGED <<lock, seen>>
    BY <1>4 DEF ShutdownSignal, Calmer, Live
  <2>. QED  BY <2>1, <2>2, CalmerSafe
<1>5. CASE Strand(m)
  BY <1>5, GoesOn DEF Strand, TypeOK, runs, Live, Queued
<1>. QED  BY <1>1, <1>2, <1>3, <1>4, <1>5

LEMMA Invariance ==
  ASSUME IInv, [Next]_vars
  PROVE  IInv'
<1>1. ASSUME NEW j \in Jobs, SignalStart(j)
      PROVE  IInv'
  BY <1>1, SignalStartStep
<1>2. CASE \/ (\E short \in BOOLEAN : BindHeartbeat(short)) \/ HeartbeatEnd
           \/ \E j \in Jobs : ReapSave(j) \/ HeartbeatReap(j)
  BY <1>2, ReaperStep
<1>3. ASSUME NEW t \in Managers, ReadRows(t) \/ Commit(t) \/ Abort(t)
      PROVE  IInv'
  BY <1>3, ReadRowsStep, CommitStep, AbortStep
<1>4. ASSUME NEW u \in Users, Canceling(u) \/ CancelInTransaction(u) \/ \E j \in Jobs : Open(u, j)
      PROVE  IInv'
  BY <1>4, UserStep
<1>5. ASSUME NEW m \in Messages, Loop(m)
      PROVE  IInv'
  BY <1>5, DispatcherStep
<1>6. ASSUME NEW m \in Messages, Run(m)
      PROVE  IInv'
  BY <1>6, RunStepHolds
<1>7. ASSUME NEW m \in Messages,
             \/ Execute(m) \/ Interrupted(m) \/ Break(m) \/ ExceededQuota(m)
             \/ DatabaseFails(m) \/ Die(m) \/ Strand(m) \/ ShutdownSignal(m)
      PROVE  IInv'
  BY <1>7, FaultStep
<1>8. CASE DispatcherDies \/ Startup
  BY <1>8, RestartStep
<1>9. CASE UNCHANGED vars
  <2>1. TypeOK'
    BY <1>9 DEF IInv, TypeOK, vars
  <2>2. Calmer /\ UNCHANGED <<lock, seen>>
    BY <1>9 DEF Calmer, Live, vars
  <2>. QED  BY <2>1, <2>2, CalmerSafe DEF IInv
<1>. QED  BY <1>1, <1>2, <1>3, <1>4, <1>5, <1>6, <1>7, <1>8, <1>9 DEF Next, Loop

LEMMA Inductive == Spec => []IInv
<1>. QED  BY InitHolds, Invariance, PTL DEF Spec

-----------------------------------------------------------------------------
(* Every variable keeps its type, whatever fails. *)
THEOREM TypeCorrect == Spec => []TypeOK
<1>1. IInv => TypeOK
  BY DEF IInv
<1>. QED  BY <1>1, Inductive, PTL

(* For any number of jobs, messages, task managers and users, and under every
   fault: of a job's messages at most one is on its way or being run
   (task_manager.py 135-160, 471-525). *)
THEOREM OneRunAlways == Spec => []OneRun
<1>1. IInv => OneRun
  BY DEF IInv, Safe
<1>. QED  BY <1>1, Inductive, PTL
-----------------------------------------------------------------------------
(* Whose a job is. The live message of a job is the one that its row names, a job that
   waits or runs was sent, and a run() knows how far it is. Without workers that survive
   their dispatcher, each of them is in the pool of one that is up.         *)

Begun == {"prep", "stop", "exec", "ended"}

Latest == \A m \in Messages : Live(m) => row[m[1]].run = m[2]
Sent == \A j \in Jobs : Reapable(j) => row[j].run \in 1 .. MaxRuns
StageOK(m) ==
  /\ stage[m] \in Begun => row[m[1]].status # "waiting"
  /\ stage[m] = "prep" => saw[m].status = "running"
  /\ stage[m] = "stop" => row[m[1]].status \in Terminal
  /\ stage[m] = "ended" => result[m] \in Terminal
Placed == \A m \in Messages : stage[m] \in InRun \cup {"pool", "stranded"} => phase = "up" /\ m \in managed
UpClear == phase = "up" => toReap = {}

NoSurvivor == "survive" \notin Faults
BInv == /\ IInv /\ NoSurvivor /\ Latest /\ Sent /\ Placed /\ UpClear
        /\ \A m \in Messages : StageOK(m)

(* Owned, and what it is before the start of the dispatcher has listed the waiting. *)
Cared(j) ==
  \/ Live(Current(j))
  \/ stage[Current(j)] = "dead" /\ Current(j) \in managed
  \/ j \in toReap \cup doomed
Watched(j) ==
  \/ phase \in {"reapWaiting", "up"} /\ Reapable(j)
  \/ phase = "reapRunning" /\ row[j].status = "running"
OwnedNow == \A j \in Jobs : Watched(j) => Cared(j)
NoLoss == {"error", "full", "drop", "lag", "wedge"} \cap Faults = {}
Clear == NoLoss => ghosts = {}

(* What the heartbeat was bound with: a job that had started then is not sent again, so
   that its run() is among the excluded messages, or gone. *)
Fresh == \A j \in Jobs : row[j].started => row[j].status \in {"running"} \cup Terminal
HeldFresh ==
  \A t \in Managers : seen[t] # None =>
    \A j \in Jobs : seen[t][j].status = "pending" => ~seen[t][j].started /\ ~row[j].started
Started == \A m \in Messages : Live(m) /\ row[m[1]].started => stage[m] \in Begun
Bound ==
  beat.on => \A j \in beat.begun :
    row[j].started /\ \A k \in 1 .. MaxRuns : Live(<<j, k>>) => <<j, k>> \in beat.excluded
NoRetry == "quota" \notin Faults
Spares == NoRetry /\ Fresh /\ HeldFresh /\ Started /\ Bound

Keeps == BInv' /\ (NoLoss /\ OwnedNow => OwnedNow') /\ (Spares => Spares')

(* Steps that send nothing, start no run(), and end none unless its job is over. *)
RowCalm ==
  \A j \in Jobs : /\ row'[j].run = row[j].run /\ row'[j].started = row[j].started
                  /\ row'[j].status = row[j].status \/ row'[j].status \in Terminal \cup Unsent
StaysFresh ==
  \A j \in Jobs : row[j].started /\ row'[j].status \in Unsent => row[j].status \in Unsent

LEMMA MessageOf ==
  ASSUME NEW m \in Messages
  PROVE  m = <<m[1], m[2]>> /\ m[1] \in Jobs /\ m[2] \in 1 .. MaxRuns
  BY DEF Messages

LEMMA RunIsOf ==
  ASSUME TypeOK, NEW m \in Messages
  PROVE  row[m[1]] \in Row /\ stage[m] \in Stages /\ (stage[m] \in InRun => Live(m))
  BY MessageOf DEF TypeOK, Stages, Live

LEMMA BasisKept ==
  ASSUME BInv, IInv', RowCalm, \A m \in Messages : Live(m)' => Live(m),
         \A m \in Messages : StageOK(m)' \/ (stage'[m] = stage[m] /\ saw'[m] = saw[m] /\ result'[m] = result[m]),
         \A m \in Messages : stage'[m] \in InRun \cup {"pool", "stranded"} => phase' = "up" /\ m \in managed',
         phase' = "up" => toReap' = {}
  PROVE  BInv'
<1>. USE DEF BInv
<1>1. Latest'
  BY MessageOf DEF Latest, RowCalm
<1>2. Sent'
  BY DEF Sent, RowCalm, Reapable, Terminal, Unsent
<1>3. ASSUME NEW m \in Messages, stage'[m] = stage[m], saw'[m] = saw[m], result'[m] = result[m]
      PROVE  StageOK(m)'
  <2>1. /\ m = <<m[1], m[2]>> /\ m[1] \in Jobs /\ m[2] \in 1 .. MaxRuns
        /\ StageOK(m)
    BY MessageOf
  <2>2. stage'[m] \in Begun => Live(m)'
    BY DEF Begun, Live, Queued, InRun
  <2>3. stage'[m] \in Begun => row'[m[1]].status \notin Unsent
    BY <2>1, <2>2 DEF IInv, Safe, AtRest, Resting
  <2>4. stage'[m] \in Begun => row'[m[1]].status = row[m[1]].status \/ row'[m[1]].status \in Terminal
    BY <2>1, <2>3 DEF RowCalm
  <2>. QED  BY <1>3, <2>1, <2>4 DEF StageOK, Terminal, Begun
<1>4. Placed' /\ UpClear' /\ NoSurvivor'
  BY DEF Placed, UpClear, NoSurvivor
<1>. QED  BY <1>1, <1>2, <1>3, <1>4

LEMMA SparesKept ==
  ASSUME Spares, RowCalm, StaysFresh, UNCHANGED <<seen, beat>>, IInv,
         \A m \in Messages : Live(m)' => Live(m) /\ (stage[m] \in Begun => stage'[m] \in Begun)
  PROVE  Spares'
<1>. USE DEF Spares
<1>1. Fresh'
  BY DEF Fresh, RowCalm, StaysFresh, Unsent, Terminal
<1>2. HeldFresh'
  BY DEF HeldFresh, RowCalm
<1>3. Started'
  BY MessageOf DEF Started, RowCalm
<1>4. Bound'
  BY DEF Bound, RowCalm, Messages, IInv, TypeOK
<1>. QED  BY <1>1, <1>2, <1>3, <1>4 DEF NoRetry

(* Steps that leave the runs and the pool alone. *)
LEMMA QuietKeeps ==
  ASSUME BInv, IInv', RowCalm, UNCHANGED <<stage, saw, result, managed, phase>>,
         toReap' \subseteq toReap,
         \A j \in Jobs : j \in toReap \cup doomed => j \in toReap' \cup doomed' \/ ~Reapable(j)'
  PROVE  /\ BInv' /\ (OwnedNow => OwnedNow')
         /\ StaysFresh /\ UNCHANGED <<seen, beat>> /\ Spares => Spares'
<1>1. \A m \in Messages : Live(m)' <=> Live(m)
  BY DEF Live
<1>2. BInv'
  BY <1>1, BasisKept DEF BInv, Placed, UpClear
<1>3. ASSUME OwnedNow, NEW j \in Jobs, Watched(j)'
      PROVE  Cared(j)'
  <2>1. Reapable(j)' /\ row'[j].status = row[j].status /\ Current(j)' = Current(j)
    BY <1>3 DEF RowCalm, Watched, Reapable, Terminal, Unsent, Current
  <2>2. Watched(j)
    BY <1>3, <2>1 DEF Watched, Reapable
  <2>. QED  BY <1>3, <2>1, <2>2 DEF OwnedNow, Cared, Live
<1>4. StaysFresh /\ UNCHANGED <<seen, beat>> /\ Spares => Spares'
  BY <1>1, SparesKept DEF BInv
<1>. QED  BY <1>2, <1>3, <1>4 DEF OwnedNow

LEMMA StatusSet ==
  ASSUME TypeOK, NEW j \in Jobs, NEW s \in Terminal \cup Unsent, row' = [row EXCEPT ![j].status = s]
  PROVE  RowCalm /\ row'[j].status = s /\ \A i \in Jobs \ {j} : row'[i] = row[i]
<1>1. row' = [row EXCEPT ![j] = [row[j] EXCEPT !.status = s]] /\ row[j] \in Row
  BY DEF TypeOK
<1>2. /\ [row[j] EXCEPT !.status = s].run = row[j].run /\ [row[j] EXCEPT !.status = s].status = s
      /\ [row[j] EXCEPT !.status = s].started = row[j].started
  BY <1>1 DEF Row
<1>3. row'[j] = [row[j] EXCEPT !.status = s] /\ \A i \in Jobs \ {j} : row'[i] = row[i]
  BY <1>1 DEF TypeOK
<1>. QED  BY <1>2, <1>3 DEF RowCalm

LEMMA SignalStartKeeps ==
  ASSUME BInv, IInv', NEW j \in Jobs, SignalStart(j)
  PROVE  Keeps
<1>1. RowCalm /\ row'[j].status = "pending" /\ \A i \in Jobs \ {j} : row'[i] = row[i]
  BY StatusSet DEF SignalStart, BInv, IInv, Unsent
<1>2. UNCHANGED <<stage, saw, result, managed, phase, toReap, doomed, seen, beat>>
  BY DEF SignalStart, runs, pool
<1>3. StaysFresh
  BY <1>1 DEF StaysFresh, SignalStart, Unsent
<1>4. \A i \in Jobs : i \in toReap \cup doomed => i \in toReap' \cup doomed' \/ ~Reapable(i)'
  BY <1>2
<1>. QED  BY <1>1, <1>2, <1>3, <1>4, QuietKeeps DEF Keeps

LEMMA UserKeeps ==
  ASSUME BInv, IInv', NEW u \in Users, Canceling(u) \/ CancelInTransaction(u) \/ \E j \in Jobs : Open(u, j)
  PROVE  Keeps
<1>1. UNCHANGED <<stage, saw, result, managed, phase, toReap, doomed, seen, beat>>
  BY DEF Canceling, CancelInTransaction, Open, SaveFlag, ReplyTimeout, SaveCanceled, FallbackCancel, pool, runs
<1>2. \A j \in Jobs : row[j] \in Row
  BY DEF BInv, IInv, TypeOK
<1>3. \A j \in Jobs : /\ row'[j].run = row[j].run /\ row'[j].started = row[j].started
                      /\ row'[j].status = row[j].status \/ row'[j].status = "canceled"
  <2>1. CASE SaveFlag(u)
    <3>1. user[u].job \in Jobs
      BY <2>1, UserKnows DEF SaveFlag, BInv, IInv
    <3>2. \/ row' = row
          \/ row' = [row EXCEPT ![user[u].job] = [row[user[u].job] EXCEPT !.flag = TRUE]]
      BY <2>1 DEF SaveFlag
    <3>3. LET r == [row[user[u].job] EXCEPT !.flag = TRUE]
          IN  /\ r.run = row[user[u].job].run /\ r.started = row[user[u].job].started
              /\ r.status = row[user[u].job].status
      BY <1>2, <3>1 DEF Row
    <3>. QED  BY <3>1, <3>2, <3>3 DEF BInv, IInv, TypeOK
  <2>2. CASE SaveCanceled(u)
    <3>1. user[u].job \in Jobs
      BY <2>2, UserKnows DEF SaveCanceled, BInv, IInv
    <3>2. row' = [row EXCEPT ![user[u].job].status = "canceled"]
      BY <2>2 DEF SaveCanceled
    <3>3. RowCalm /\ row'[user[u].job].status = "canceled"
          /\ \A i \in Jobs \ {user[u].job} : row'[i] = row[i]
      BY <3>1, <3>2, StatusSet DEF BInv, IInv, Terminal
    <3>. QED  BY <3>1, <3>3 DEF RowCalm
  <2>3. CASE CancelInTransaction(u)
    <3>1. user[u].job \in Jobs
      BY <2>3, UserKnows DEF CancelInTransaction, BInv, IInv
    <3>2. PICK flag, status :
            /\ row' = [row EXCEPT ![user[u].job].flag = flag, ![user[u].job].status = status]
            /\ status = row[user[u].job].status \/ status = "canceled"
      BY <1>2, <2>3, <3>1 DEF CancelInTransaction
    <3>. QED  BY <1>2, <3>1, <3>2 DEF Row, BInv, IInv, TypeOK
  <2>4. CASE UNCHANGED row
    BY <2>4
  <2>. QED  BY <2>1, <2>2, <2>3, <2>4 DEF Canceling, Open, ReplyTimeout, FallbackCancel
<1>4. RowCalm
  BY <1>3 DEF RowCalm, Terminal
<1>5. StaysFresh
  BY <1>3 DEF StaysFresh, Unsent
<1>6. \A i \in Jobs : i \in toReap \cup doomed => i \in toReap' \cup doomed' \/ ~Reapable(i)'
  BY <1>1
<1>. QED  BY <1>1, <1>4, <1>5, <1>6, QuietKeeps DEF Keeps

LEMMA ReapSaveKeeps ==
  ASSUME BInv, IInv', NEW j \in Jobs, ReapSave(j)
  PROVE  Keeps
<1>1. RowCalm /\ row'[j].status = "failed" /\ \A i \in Jobs \ {j} : row'[i] = row[i]
  BY StatusSet DEF ReapSave, BInv, IInv, Terminal
<1>2. UNCHANGED <<stage, saw, result, managed, phase, toReap, seen, beat>> /\ doomed' = doomed \ {j}
  BY DEF ReapSave, runs, pool
<1>3. StaysFresh
  BY <1>1 DEF StaysFresh, Unsent
<1>4. \A i \in Jobs : i \in toReap \cup doomed => i \in toReap' \cup doomed' \/ ~Reapable(i)'
  BY <1>1, <1>2 DEF Reapable
<1>. QED  BY <1>1, <1>2, <1>3, <1>4, QuietKeeps DEF Keeps

(* The heartbeat; what it is bound with are the messages of the pool. *)
LEMMA HeartbeatKeeps ==
  ASSUME BInv, IInv', (\E short \in BOOLEAN : BindHeartbeat(short)) \/ HeartbeatEnd \/ \E j \in Jobs : HeartbeatReap(j)
  PROVE  Keeps
<1>1. UNCHANGED <<row, stage, saw, result, managed, phase, toReap, seen>> /\ doomed \subseteq doomed'
  BY DEF BindHeartbeat, HeartbeatEnd, HeartbeatReap, runs, pool
<1>2. RowCalm /\ StaysFresh
  BY <1>1 DEF RowCalm, StaysFresh
<1>3. \A i \in Jobs : i \in toReap \cup doomed => i \in toReap' \cup doomed' \/ ~Reapable(i)'
  BY <1>1
<1>4. BInv' /\ (OwnedNow => OwnedNow') /\ (UNCHANGED beat /\ Spares => Spares')
  BY <1>1, <1>2, <1>3, QuietKeeps
<1>5. ASSUME Spares  PROVE Spares'
  <2>1. Fresh' /\ HeldFresh' /\ Started'
    BY <1>1, <1>5 DEF Spares, Fresh, HeldFresh, Started, Live
  <2>2. Bound'
    <3>1. CASE \E short \in BOOLEAN : BindHeartbeat(short)
      <4>1. beat'.begun = {j \in Jobs : row[j].started} /\ managed \subseteq beat'.excluded
        BY <3>1 DEF BindHeartbeat
      <4>2. ASSUME NEW j \in Jobs, row[j].started, NEW k \in 1 .. MaxRuns, Live(<<j, k>>)
            PROVE  <<j, k>> \in managed
        <5>1. <<j, k>> \in Messages /\ <<j, k>>[1] = j
          BY DEF Messages
        <5>2. stage[<<j, k>>] \in InRun
          BY <1>5, <4>2, <5>1 DEF Spares, Started, Begun, InRun
        <5>. QED  BY <5>1, <5>2 DEF BInv, Placed
      <4>. QED  BY <1>1, <4>1, <4>2 DEF Bound, Live
    <3>2. CASE HeartbeatEnd
      BY <3>2 DEF HeartbeatEnd, NoBeat, Bound
    <3>3. CASE UNCHANGED beat
      BY <1>1, <1>5, <3>3 DEF Spares, Bound, Live
    <3>. QED  BY <3>1, <3>2, <3>3 DEF HeartbeatReap
  <2>. QED  BY <1>5, <2>1, <2>2 DEF Spares, NoRetry
<1>. QED  BY <1>4, <1>5 DEF Keeps

(* Task managers. *)
LEMMA LockKeeps ==
  ASSUME BInv, IInv', NEW t \in Managers, ReadRows(t) \/ Abort(t)
  PROVE  Keeps
<1>1. UNCHANGED <<row, stage, saw, result, managed, phase, toReap, doomed, beat>>
  BY DEF ReadRows, Abort, runs, pool
<1>2. RowCalm
  BY <1>1 DEF RowCalm
<1>3. \A i \in Jobs : i \in toReap \cup doomed => i \in toReap' \cup doomed' \/ ~Reapable(i)'
  BY <1>1
<1>4. BInv' /\ (OwnedNow => OwnedNow')
  BY <1>1, <1>2, <1>3, QuietKeeps
<1>5. ASSUME Spares  PROVE Spares'
  <2>1. Fresh' /\ Started' /\ Bound'
    BY <1>1, <1>5 DEF Spares, Fresh, Started, Bound, Live
  <2>2. HeldFresh'
    <3>1. \A o \in Managers : seen'[o] = seen[o] \/ seen'[o] = None \/ (seen'[o] = row)
      BY DEF ReadRows, Abort, BInv, IInv, TypeOK
    <3>2. \A j \in Jobs : row[j].status = "pending" => ~row[j].started
      BY <1>5 DEF Spares, Fresh, Terminal
    <3>. QED  BY <1>1, <1>5, <3>1, <3>2 DEF Spares, HeldFresh
  <2>. QED  BY <1>5, <2>1, <2>2 DEF Spares, NoRetry
<1>. QED  BY <1>4, <1>5 DEF Keeps

(* The one step that sends: the job was at rest, and gets the message its row names. *)
LEMMA CommitKeeps ==
  ASSUME BInv, IInv', NEW t \in Managers, Commit(t)
  PROVE  Keeps
<1>. USE DEF BInv
<1>1. PICK sent, refused, dependent \in SUBSET {j \in Jobs : seen[t][j].status = "pending"} :
        /\ sent \cap refused = {} /\ (sent \cup refused) \cap dependent = {}
        /\ \A j \in sent : Unused(j) # {}
        /\ row' = [j \in Jobs |-> Saved(t, j, sent, refused, dependent)]
        /\ stage' = [m \in Messages |-> IF m[1] \in sent /\ m[2] = NextRun(m[1])
                                        THEN IF phase = "down" THEN "lost" ELSE "bus"
                                        ELSE stage[m]]
  BY DEF Commit
<1>2. /\ UNCHANGED <<saw, result, managed, phase, toReap, doomed, beat>>
      /\ \A o \in Managers : seen'[o] = None
  BY DEF Commit, runs, pool, IInv, Safe, Held, TypeOK
<1>3. \A j \in sent \cup refused \cup dependent : j \in Jobs /\ Resting(j) /\ seen[t][j] \in Row
  BY <1>1 DEF Commit, IInv, Safe, Held, TypeOK
<1>4. \A j \in sent : NextRun(j) \in 1 .. MaxRuns
  BY <1>1 DEF NextRun, Unused
<1>5. ASSUME NEW j \in sent
      PROVE  row'[j].status = "waiting" /\ row'[j].run = NextRun(j) /\ row'[j].started = seen[t][j].started
  <2>1. row'[j] = [seen[t][j] EXCEPT !.status = "waiting", !.run = NextRun(j)]
    BY <1>1 DEF Saved
  <2>. QED  BY <1>3, <2>1 DEF Row
<1>6. ASSUME NEW j \in refused \cup dependent
      PROVE  row'[j].status = "failed" /\ (j \in refused => row'[j].started = seen[t][j].started)
             /\ (j \in dependent => row'[j].started = row[j].started)
  <2>1. row'[j] = IF j \in refused THEN [seen[t][j] EXCEPT !.status = "failed"]
                                   ELSE [row[j] EXCEPT !.status = "failed"]
    BY <1>1, <1>3 DEF Saved
  <2>2. row[j] \in Row /\ seen[t][j] \in Row
    BY <1>3 DEF IInv, TypeOK
  <2>. QED  BY <1>1, <2>1, <2>2 DEF Row
<1>7. ASSUME NEW j \in Jobs \ (sent \cup refused \cup dependent)  PROVE row'[j] = row[j]
  BY <1>1 DEF Saved
<1>8. ASSUME NEW m \in Messages, m[1] \notin sent  PROVE stage'[m] = stage[m]
  BY <1>1, <1>8
<1>9. ASSUME NEW m \in Messages, m[1] \in sent
      PROVE  /\ ~Live(m) /\ stage'[m] \notin InRun \cup {"pool", "stranded"}
             /\ Live(m)' => m[2] = NextRun(m[1])
             /\ m[2] = NextRun(m[1]) /\ phase # "down" => Live(m)'
  <2>1. ~Live(m)
    BY <1>3, <1>9, MessageOf DEF Resting
  <2>2. stage'[m] = IF m[2] = NextRun(m[1]) THEN IF phase = "down" THEN "lost" ELSE "bus" ELSE stage[m]
    BY <1>1, <1>9
  <2>. QED  BY <2>1, <2>2 DEF Live, Queued, InRun
<1>10. ASSUME NEW m \in Messages, m[1] \in refused \cup dependent
       PROVE  ~Live(m)'
  <2>1. ~Live(m) /\ m[1] \notin sent
    BY <1>1, <1>3, <1>10, MessageOf DEF Resting
  <2>. QED  BY <1>8, <2>1 DEF Live
<1>11. BInv'
  <2>1. Latest'
    <3>. SUFFICES ASSUME NEW m \in Messages, Live(m)'  PROVE row'[m[1]].run = m[2]
      BY DEF Latest
    <3>1. CASE m[1] \in sent
      BY <1>5, <1>9, <3>1
    <3>2. CASE m[1] \notin sent
      <4>1. Live(m) /\ m[1] \in Jobs \ (sent \cup refused \cup dependent)
        BY <1>8, <1>10, <3>2, MessageOf DEF Live
      <4>. QED  BY <1>7, <4>1 DEF Latest
    <3>. QED  BY <3>1, <3>2
  <2>2. Sent'
    <3>. SUFFICES ASSUME NEW j \in Jobs, Reapable(j)'  PROVE row'[j].run \in 1 .. MaxRuns
      BY DEF Sent
    <3>1. j \notin refused \cup dependent
      BY <1>6 DEF Reapable
    <3>. QED  BY <1>4, <1>5, <1>7, <3>1 DEF Sent, Reapable
  <2>3. ASSUME NEW m \in Messages  PROVE StageOK(m)'
    <3>1. CASE Live(m)'
      <4>1. CASE m[1] \in sent
        BY <1>9, <4>1 DEF StageOK, Begun, InRun
      <4>2. CASE m[1] \notin sent
        <5>1. m[1] \in Jobs \ (sent \cup refused \cup dependent)
          BY <1>10, <3>1, <4>2, MessageOf
        <5>. QED  BY <1>2, <1>7, <1>8, <4>2, <5>1 DEF StageOK
      <4>. QED  BY <4>1, <4>2
    <3>2. CASE ~Live(m)'
      BY <3>2 DEF StageOK, Begun, Live, Queued, InRun
    <3>. QED  BY <3>1, <3>2
  <2>4. Placed' /\ UpClear' /\ NoSurvivor'
    BY <1>2, <1>8, <1>9 DEF Placed, UpClear, NoSurvivor
  <2>. QED  BY <2>1, <2>2, <2>3, <2>4
<1>12. ASSUME OwnedNow, NEW j \in Jobs, Watched(j)'  PROVE Cared(j)'
  <2>1. j \notin refused \cup dependent
    BY <1>6, <1>12 DEF Watched, Reapable
  <2>2. CASE j \in sent
    <3>1. PICK k \in 1 .. MaxRuns : k = NextRun(j)
      BY <1>4, <2>2
    <3>2. <<j, k>> \in Messages /\ <<j, k>>[1] = j /\ <<j, k>>[2] = k /\ phase # "down"
      BY <1>2, <1>12 DEF Messages, Watched
    <3>3. Current(j)' = <<j, k>>
      BY <1>5, <2>2, <3>1 DEF Current
    <3>4. Live(<<j, k>>)'
      BY <1>9, <2>2, <3>1, <3>2
    <3>5. stage'[<<j, k>>] \in Queued \cup InRun
      BY <3>4 DEF Live
    <3>. QED  BY <3>3, <3>5 DEF Cared, Live
  <2>3. CASE j \notin sent
    <3>1. row'[j] = row[j] /\ Watched(j)
      BY <1>2, <1>7, <1>12, <2>1, <2>3 DEF Watched, Reapable
    <3>2. Current(j) \in Messages /\ Current(j)[1] = j /\ Current(j)' = Current(j)
      BY <3>1 DEF Watched, Reapable, Sent, Current, Messages
    <3>3. stage'[Current(j)] = stage[Current(j)]
      BY <1>8, <2>3, <3>2
    <3>. QED  BY <1>2, <1>12, <3>1, <3>2, <3>3 DEF OwnedNow, Cared, Live
  <2>. QED  BY <2>2, <2>3
<1>13. ASSUME Spares  PROVE Spares'
  <2>1. \A j \in sent \cup refused \cup dependent : ~row[j].started /\ ~seen[t][j].started
    BY <1>1, <1>13 DEF Commit, Spares, HeldFresh
  <2>2. \A j \in sent \cup refused \cup dependent : ~row'[j].started
    BY <1>5, <1>6, <2>1
  <2>3. Fresh' /\ HeldFresh'
    BY <1>2, <1>7, <1>13, <2>2 DEF Spares, Fresh, HeldFresh
  <2>4. Started'
    BY <1>7, <1>8, <1>13, <2>2, MessageOf DEF Spares, Started, Live
  <2>5. Bound'
    <3>. SUFFICES ASSUME beat'.on, NEW j \in beat'.begun
                  PROVE  row'[j].started /\ \A k \in 1 .. MaxRuns : Live(<<j, k>>)' => <<j, k>> \in beat'.excluded
      BY DEF Bound
    <3>1. /\ j \in Jobs /\ row[j].started
          /\ \A k \in 1 .. MaxRuns : Live(<<j, k>>) => <<j, k>> \in beat.excluded
      BY <1>2, <1>13 DEF Spares, Bound, IInv, TypeOK
    <3>2. j \notin sent \cup refused \cup dependent
      BY <2>1, <3>1
    <3>3. \A k \in 1 .. MaxRuns : <<j, k>> \in Messages /\ stage'[<<j, k>>] = stage[<<j, k>>]
      BY <1>8, <3>1, <3>2 DEF Messages
    <3>. QED  BY <1>2, <1>7, <3>1, <3>2, <3>3 DEF Live
  <2>. QED  BY <1>13, <2>3, <2>4, <2>5 DEF Spares, NoRetry
<1>. QED  BY <1>11, <1>12, <1>13 DEF Keeps, OwnedNow

(* The dispatcher's loop. *)
LEMMA ClearKept ==
  ASSUME Clear, [Next]_vars
  PROVE  Clear'
<1>. SUFFICES ASSUME NoLoss, ghosts = {}  PROVE ghosts' = {}
  BY DEF Clear, NoLoss
<1>0. "full" \notin Faults /\ "drop" \notin Faults
  BY DEF NoLoss
<1>1. ASSUME NEW m \in Messages, Loop(m)  PROVE ghosts' = {}
  BY <1>0, <1>1 DEF Loop, Deliver, Drop, ControlCancel, Cleanup, Requeue, CleanupGhost
<1>2. ASSUME NEW m \in Messages, Run(m)  PROVE ghosts' = {}
  BY <1>2 DEF Run, Take, Load, CancelBeforeRun, MarkRunning, Check, Reread, SaveResult, Ended, Leave, RunStep
<1>3. ASSUME NEW m \in Messages,
             \/ Execute(m) \/ Interrupted(m) \/ Break(m) \/ ExceededQuota(m)
             \/ DatabaseFails(m) \/ Die(m) \/ Strand(m) \/ ShutdownSignal(m)
      PROVE  ghosts' = {}
  BY <1>3 DEF Execute, Interrupted, Break, ExceededQuota, DatabaseFails, Die, Strand, ShutdownSignal,
              Ended, Leave, RunStep, pool
<1>4. ASSUME NEW j \in Jobs, SignalStart(j) \/ ReapSave(j) \/ HeartbeatReap(j)  PROVE ghosts' = {}
  BY <1>4 DEF SignalStart, ReapSave, HeartbeatReap, pool
<1>5. ASSUME NEW t \in Managers, ReadRows(t) \/ Commit(t) \/ Abort(t)  PROVE ghosts' = {}
  BY <1>5 DEF ReadRows, Commit, Abort, pool
<1>6. ASSUME NEW u \in Users, Canceling(u) \/ CancelInTransaction(u) \/ \E j \in Jobs : Open(u, j)
      PROVE  ghosts' = {}
  BY <1>6 DEF Canceling, SaveFlag, ReplyTimeout, SaveCanceled, FallbackCancel, CancelInTransaction, Open, pool
<1>7. CASE (\E short \in BOOLEAN : BindHeartbeat(short)) \/ HeartbeatEnd \/ DispatcherDies \/ UNCHANGED vars
  BY <1>7 DEF BindHeartbeat, HeartbeatEnd, DispatcherDies, vars, pool
<1>8. CASE Startup
  BY <1>8 DEF Startup, Listen, StartupRunning, StartupWaiting, StartupEnd, StartupReap
<1>. QED  BY <1>1, <1>2, <1>3, <1>4, <1>5, <1>6, <1>7, <1>8 DEF Next, Loop

LEMMA LoopKeeps ==
  ASSUME BInv, Clear, IInv', NEW m \in Messages, Loop(m)
  PROVE  Keeps
<1>. USE DEF BInv
<1>1. UNCHANGED <<row, saw, result, phase, toReap, seen, beat>> /\ phase = "up"
  BY DEF Loop, Deliver, Drop, ControlCancel, Cleanup, Requeue, CleanupGhost, runs, pool
<1>2. doomed \subseteq doomed'
  BY DEF Loop, Deliver, Drop, ControlCancel, Cleanup, Requeue, CleanupGhost, runs, pool
<1>3. \A i \in Messages \ {m} : i \in managed => i \in managed'
  BY DEF Loop, Deliver, Drop, ControlCancel, Cleanup, Requeue, CleanupGhost, pool
<1>4. ASSUME NEW i \in Messages
      PROVE  \/ stage'[i] = stage[i] /\ (i \in managed => i \in managed')
             \/ stage[i] \in Queued /\ stage'[i] \in {"pool", "stranded", "dead"} /\ i \in managed'
             \/ stage[i] \in Queued /\ stage'[i] = "lost" /\ ~NoLoss
             \/ stage[i] = "dead" /\ stage'[i] = "dead" /\ i = m /\ Cleanup(m)
  <2>1. CASE Deliver(m) \/ Drop(m)
    BY <1>3, <2>1 DEF Deliver, Drop, Queued, NoLoss, IInv, TypeOK
  <2>2. CASE ControlCancel(m)
    <3>1. managed' = managed
      BY <2>2 DEF ControlCancel
    <3>2. ~Deliver(m) /\ ~Drop(m) /\ ~Requeue(m)
      <4>1. control' # control
        BY <2>2 DEF ControlCancel
      <4>. QED  BY <4>1 DEF Deliver, Drop, Requeue
    <3>3. \/ stage'[i] = stage[i]
          \/ i \in managed /\ stage[i] = "pool" /\ stage'[i] \in {"dead", "stranded"}
      BY <3>2, LoopMoves DEF IInv
    <3>. QED  BY <3>1, <3>3 DEF Queued
  <2>3. CASE Cleanup(m)
    BY <1>3, <2>3 DEF Cleanup
  <2>4. CASE CleanupGhost(m)
    BY <2>4 DEF CleanupGhost
  <2>5. CASE Requeue(m)
    <3>1. stage[m] = "stranded" /\ m \in managed
      BY <2>5 DEF Requeue, Placed
    <3>2. i # m => stage'[i] = stage[i]
      BY <2>5 DEF Requeue, IInv, TypeOK
    <3>3. \/ stage'[m] = "pool" /\ managed' = managed
          \/ stage'[m] = "lost" /\ ~NoLoss
      BY <2>5 DEF Requeue, NoLoss, IInv, TypeOK
    <3>. QED  BY <1>3, <3>1, <3>2, <3>3 DEF Queued
  <2>. QED  BY <2>1, <2>2, <2>3, <2>4, <2>5 DEF Loop
<1>5. RowCalm /\ StaysFresh
  BY <1>1 DEF RowCalm, StaysFresh
<1>6. \A i \in Messages : Live(i)' => Live(i) /\ (stage[i] \in Begun => stage'[i] \in Begun)
  BY <1>4 DEF Live, Queued, InRun, Begun
<1>7. \A i \in Messages : StageOK(i)' \/ (stage'[i] = stage[i] /\ saw'[i] = saw[i] /\ result'[i] = result[i])
  BY <1>1, <1>4 DEF StageOK, Begun
<1>8. \A i \in Messages : stage'[i] \in InRun \cup {"pool", "stranded"} => phase' = "up" /\ i \in managed'
  BY <1>1, <1>4 DEF Placed, InRun
<1>9. BInv'
  BY <1>1, <1>5, <1>6, <1>7, <1>8, BasisKept DEF UpClear
<1>10. ASSUME NoLoss, OwnedNow, NEW j \in Jobs, Watched(j)'  PROVE Cared(j)'
  <2>1. Watched(j) /\ Current(j)' = Current(j) /\ Current(j) \in Messages /\ Current(j)[1] = j
    BY <1>1, <1>10 DEF Watched, Reapable, Current, Sent, Messages
  <2>2. CASE stage[Current(j)] = "dead" /\ Current(j) = m /\ Cleanup(m)
    <3>1. Fronts(m) = {m} /\ "error" \notin Faults
      BY <1>10 DEF Fronts, Stale, Clear, NoLoss
    <3>2. doomed' = doomed \cup Reaped(m)
      BY <2>2, <3>1 DEF Cleanup
    <3>3. Reaped(m) = {j}
      BY <2>1, <2>2 DEF Reaped, Watched, Reapable
    <3>. QED  BY <3>2, <3>3 DEF Cared
  <2>3. CASE ~(stage[Current(j)] = "dead" /\ Current(j) = m /\ Cleanup(m))
    <3>1. Cared(j)
      BY <1>10, <2>1 DEF OwnedNow
    <3>2. CASE j \in toReap \cup doomed
      BY <1>1, <1>2, <3>2 DEF Cared
    <3>3. CASE j \notin toReap \cup doomed
      <4>1. \/ stage'[Current(j)] = stage[Current(j)]
               /\ (Current(j) \in managed => Current(j) \in managed')
            \/ stage'[Current(j)] \in {"pool", "stranded", "dead"} /\ Current(j) \in managed'
        BY <1>4, <1>10, <2>1, <2>3
      <4>. QED  BY <2>1, <3>1, <3>3, <4>1 DEF Cared, Live, Queued
    <3>. QED  BY <3>2, <3>3
  <2>. QED  BY <2>2, <2>3
<1>11. Spares => Spares'
  BY <1>1, <1>5, <1>6, SparesKept
<1>. QED  BY <1>9, <1>10, <1>11 DEF Keeps, OwnedNow

(* Its death takes every run() along, and its start lists what they were on. *)
LEMMA RestartKeeps ==
  ASSUME BInv, IInv', DispatcherDies \/ Startup
  PROVE  Keeps
<1>. USE DEF BInv
<1>1. UNCHANGED <<row, saw, result, seen, beat>>
  BY DEF DispatcherDies, Startup, Listen, StartupRunning, StartupWaiting, StartupEnd, StartupReap, runs
<1>2. RowCalm /\ StaysFresh
  BY <1>1 DEF RowCalm, StaysFresh
<1>3. CASE DispatcherDies
  <2>1. \A m \in Messages : stage'[m] \notin Queued \cup InRun
    BY <1>3 DEF DispatcherDies, NoSurvivor, InRun, Queued
  <2>2. phase' = "down"
    BY <1>3 DEF DispatcherDies
  <2>3. \A m \in Messages : ~Live(m)' /\ StageOK(m)'
    BY <2>1 DEF Live, Queued, StageOK, Begun, InRun
  <2>4. BInv'
    BY <1>2, <2>1, <2>2, <2>3, BasisKept DEF Queued
  <2>5. OwnedNow'
    BY <2>2 DEF OwnedNow, Watched
  <2>6. Spares => Spares'
    BY <1>1, <1>2, <2>3, SparesKept
  <2>. QED  BY <2>4, <2>5, <2>6 DEF Keeps
<1>4. CASE Listen \/ StartupRunning \/ StartupWaiting \/ StartupEnd
  <2>1. UNCHANGED <<stage, managed, doomed>> /\ phase # "up"
        /\ (phase' = "up" => toReap' = {})
    BY <1>4 DEF Listen, StartupRunning, StartupWaiting, StartupEnd
  <2>2. \A m \in Messages : Live(m)' <=> Live(m)
    BY <2>1 DEF Live
  <2>3. \A m \in Messages : stage'[m] \notin InRun \cup {"pool", "stranded"}
    BY <2>1 DEF Placed
  <2>4. BInv'
    BY <1>1, <1>2, <2>1, <2>2, <2>3, BasisKept
  <2>5. ASSUME OwnedNow, NEW j \in Jobs, Watched(j)'  PROVE Cared(j)'
    <3>1. Current(j)' = Current(j) /\ (Live(Current(j)) => Live(Current(j))')
      BY <1>1, <2>1 DEF Current, Live
    <3>2. CASE Listen
      BY <2>5, <3>2 DEF Listen, Watched
    <3>3. CASE StartupRunning
      BY <1>1, <2>5, <3>3 DEF StartupRunning, Watched, Cared
    <3>4. CASE StartupWaiting
      <4>1. CASE row[j].status = "waiting"
        BY <3>4, <4>1 DEF StartupWaiting, Cared
      <4>2. CASE row[j].status # "waiting"
        <5>1. Watched(j) /\ j \notin toReap \cup doomed
          BY <1>1, <2>5, <3>4, <4>2 DEF StartupWaiting, Watched, Reapable
        <5>. QED  BY <2>1, <2>5, <3>1, <5>1 DEF OwnedNow, Cared
      <4>. QED  BY <4>1, <4>2
    <3>5. CASE StartupEnd
      <4>1. Watched(j) /\ j \notin toReap \cup doomed
        BY <1>1, <2>5, <3>5 DEF StartupEnd, Watched, Reapable
      <4>. QED  BY <2>1, <2>5, <3>1, <4>1 DEF OwnedNow, Cared
    <3>. QED  BY <1>4, <3>2, <3>3, <3>4, <3>5
  <2>6. Spares => Spares'
    BY <1>1, <1>2, <2>1, <2>2, SparesKept
  <2>. QED  BY <2>4, <2>5, <2>6 DEF Keeps, OwnedNow
<1>5. ASSUME NEW j \in Jobs, StartupReap(j)  PROVE Keeps
  <2>1. /\ UNCHANGED <<stage, managed, phase>> /\ toReap' \subseteq toReap
        /\ doomed' = IF Reapable(j) THEN doomed \cup {j} ELSE doomed
        /\ toReap' = toReap \ {j}
    BY <1>5 DEF StartupReap
  <2>2. \A i \in Jobs : i \in toReap \cup doomed => i \in toReap' \cup doomed' \/ ~Reapable(i)'
    BY <1>1, <2>1 DEF Reapable
  <2>. QED  BY <1>1, <1>2, <2>1, <2>2, QuietKeeps DEF Keeps
<1>. QED  BY <1>3, <1>4, <1>5 DEF Startup

-----------------------------------------------------------------------------
(* The steps of a run(): it goes on, is over with its job, or dies in the pool. *)

LEMMA RunKeeps ==
  ASSUME BInv, IInv', NEW m \in Messages, stage[m] \in InRun \cup {"pool"},
         NEW s \in InRun \cup {"gone", "stranded", "dead"}, RunStep(m, s), RowCalm,
         \A i \in Messages \ {m} : saw'[i] = saw[i] /\ result'[i] = result[i],
         StageOK(m)'
  PROVE  /\ BInv'
         /\ (s = "gone" => ~Reapable(m[1])') /\ OwnedNow => OwnedNow'
         /\ StaysFresh /\ (stage[m] \in Begun => s \in Begun \cup {"gone", "dead"}) /\ Spares => Spares'
<1>. USE DEF BInv
<1>1. /\ stage' = [stage EXCEPT ![m] = s]
      /\ managed' = IF s = "gone" THEN managed \ {m} ELSE managed
      /\ UNCHANGED <<seen, phase, toReap, doomed, beat>>
  BY DEF RunStep
<1>2. stage'[m] = s /\ \A i \in Messages \ {m} : stage'[i] = stage[i]
  BY <1>1 DEF IInv, TypeOK
<1>3. Live(m) /\ m \in managed /\ phase = "up"
  BY DEF Live, Queued, Placed
<1>4. \A i \in Messages : Live(i)' => Live(i)
  BY <1>2, <1>3 DEF Live
<1>5. BInv'
  <2>1. \A i \in Messages : StageOK(i)' \/ (stage'[i] = stage[i] /\ saw'[i] = saw[i] /\ result'[i] = result[i])
    BY <1>2
  <2>2. \A i \in Messages : stage'[i] \in InRun \cup {"pool", "stranded"} => phase' = "up" /\ i \in managed'
    BY <1>1, <1>2, <1>3 DEF Placed, InRun
  <2>. QED  BY <1>1, <1>4, <2>1, <2>2, BasisKept DEF UpClear
<1>6. ASSUME s = "gone" => ~Reapable(m[1])', OwnedNow, NEW j \in Jobs, Watched(j)'  PROVE Cared(j)'
  <2>1. Reapable(j)' /\ row'[j].status = row[j].status /\ row'[j].run = row[j].run
    BY <1>6 DEF RowCalm, Watched, Reapable, Terminal, Unsent
  <2>2. Watched(j) /\ Current(j)' = Current(j) /\ Current(j) \in Messages /\ Current(j)[1] = j
    BY <1>1, <1>6, <2>1 DEF Watched, Reapable, Current, Sent, Messages
  <2>3. CASE Current(j) # m
    BY <1>1, <1>2, <1>6, <2>2, <2>3 DEF OwnedNow, Cared, Live
  <2>4. CASE Current(j) = m
    <3>1. s # "gone" /\ m[1] = j
      BY <1>6, <2>1, <2>2, <2>4
    <3>2. stage'[m] \in InRun \cup {"stranded"} \/ (stage'[m] = "dead" /\ m \in managed')
      BY <1>1, <1>2, <1>3, <3>1
    <3>. QED  BY <2>2, <2>4, <3>2 DEF Cared, Live, Queued
  <2>. QED  BY <2>3, <2>4
<1>7. ASSUME StaysFresh, stage[m] \in Begun => s \in Begun \cup {"gone", "dead"}, Spares  PROVE Spares'
  <2>1. \A i \in Messages : Live(i)' => Live(i) /\ (stage[i] \in Begun => stage'[i] \in Begun)
    BY <1>2, <1>4, <1>7 DEF Live, Queued, InRun
  <2>. QED  BY <1>1, <1>7, <2>1, SparesKept
<1>. QED  BY <1>5, <1>6, <1>7 DEF OwnedNow

(* A run() that leaves without having lost its job. *)
LEMMA LeaveKeeps ==
  ASSUME BInv, IInv', NEW m \in Messages, stage[m] \in InRun \cup {"pool"},
         NEW s \in {"gone", "dead"}, Leave(m, s),
         UNCHANGED row \/ \E x \in Terminal \cup Unsent : SetStatus(m, x)
  PROVE  /\ BInv'
         /\ (s = "gone" => ~Reapable(m[1])') /\ OwnedNow => OwnedNow'
         /\ StaysFresh /\ Spares => Spares'
<1>1. RunStep(m, s) /\ \A i \in Messages \ {m} : saw'[i] = saw[i] /\ result'[i] = result[i]
  BY DEF Leave, BInv, IInv, TypeOK
<1>2. stage'[m] = s
  BY <1>1 DEF RunStep, BInv, IInv, TypeOK
<1>3. StageOK(m)'
  BY <1>2 DEF StageOK, Begun
<1>4. RowCalm
  <2>1. CASE UNCHANGED row
    BY <2>1 DEF RowCalm
  <2>2. ASSUME NEW x \in Terminal \cup Unsent, SetStatus(m, x)  PROVE RowCalm
    BY <2>2, StatusSet, MessageOf DEF SetStatus, BInv, IInv
  <2>. QED  BY <2>1, <2>2
<1>. QED  BY <1>1, <1>3, <1>4, RunKeeps

LEMMA CalmWhileWriting ==
  ASSUME TypeOK, NEW m \in Messages, NEW x \in Terminal, SetStatus(m, x) \/ UNCHANGED row
  PROVE  /\ RowCalm /\ StaysFresh
         /\ SetStatus(m, x) => row'[m[1]].status = x
<1>1. CASE SetStatus(m, x)
  BY <1>1, StatusSet, MessageOf DEF SetStatus, StaysFresh, Terminal, Unsent
<1>2. CASE UNCHANGED row
  <2>1. ASSUME SetStatus(m, x)  PROVE row'[m[1]].status = x
    BY <2>1, StatusSet, MessageOf DEF SetStatus
  <2>. QED  BY <1>2, <2>1 DEF RowCalm, StaysFresh
<1>. QED  BY <1>1, <1>2

LEMMA EndedKeeps ==
  ASSUME BInv, IInv', NEW m \in Messages, stage[m] \in {"prep", "stop", "exec"},
         NEW x \in Terminal, Ended(m, x)
  PROVE  Keeps
<1>. USE DEF BInv, IInv, TypeOK
<1>1. RunStep(m, "ended") /\ UNCHANGED row /\ result'[m] = x
      /\ \A i \in Messages \ {m} : saw'[i] = saw[i] /\ result'[i] = result[i]
  BY DEF Ended
<1>2. stage'[m] = "ended" /\ stage[m] \in Begun /\ stage[m] \in InRun
  BY <1>1 DEF RunStep, Begun, InRun
<1>3. row[m[1]].status # "waiting"
  BY <1>2 DEF StageOK
<1>4. StageOK(m)'
  BY <1>1, <1>2, <1>3 DEF StageOK
<1>5. RowCalm /\ StaysFresh
  BY <1>1, CalmWhileWriting
<1>. QED  BY <1>1, <1>2, <1>4, <1>5, RunKeeps DEF Keeps, InRun, Begun

(* Setting the status to running is the one write that is not calm: the row names this
   message, and no other of the job is alive. *)
LEMMA MarkRunningKeeps ==
  ASSUME BInv, IInv', NEW m \in Messages, MarkRunning(m)
  PROVE  Keeps
<1>. DEFINE j == m[1]
<1>0. j \in Jobs /\ m = <<j, m[2]>> /\ m[2] \in 1 .. MaxRuns /\ row[j] \in Row
  BY MessageOf DEF BInv, IInv, TypeOK
<1>1. /\ row' = [row EXCEPT ![j].status = "running", ![j].started = TRUE]
      /\ saw' = [saw EXCEPT ![m] = row'[j]] /\ UNCHANGED <<term, result>>
      /\ stage[m] = "read" /\ stage' = [stage EXCEPT ![m] = "prep"]
      /\ UNCHANGED <<seen, managed, phase, toReap, doomed, beat>>
  BY DEF MarkRunning, RunStep
<1>2. /\ row'[j].status = "running" /\ row'[j].started /\ row'[j].run = row[j].run
      /\ \A i \in Jobs \ {j} : row'[i] = row[i]
  <2>1. row' = [row EXCEPT ![j] = [row[j] EXCEPT !.status = "running", !.started = TRUE]]
    BY <1>0, <1>1 DEF BInv, IInv, TypeOK
  <2>2. LET r == [row[j] EXCEPT !.status = "running", !.started = TRUE]
        IN  r.status = "running" /\ r.started = TRUE /\ r.run = row[j].run
    BY <1>0 DEF Row
  <2>. QED  BY <1>0, <2>1, <2>2 DEF BInv, IInv, TypeOK
<1>3. /\ stage'[m] = "prep" /\ saw'[m] = row'[j]
      /\ \A i \in Messages \ {m} : stage'[i] = stage[i] /\ saw'[i] = saw[i]
  BY <1>1 DEF BInv, IInv, TypeOK
<1>4. Live(m) /\ m \in managed /\ phase = "up" /\ row[j].run = m[2] /\ Current(j) = m
  BY <1>0, <1>1 DEF Live, Queued, InRun, BInv, Placed, Latest, Current
<1>5. ASSUME NEW i \in Messages \ {m}, i[1] = j  PROVE ~Live(i) /\ ~Live(i)'
  BY <1>0, <1>3, <1>4, <1>5, MessageOf DEF BInv, Latest, Live
<1>. HIDE DEF j
<1>6. \A i \in Messages : Live(i)' => Live(i)
  BY <1>3, <1>4 DEF Live
<1>7. BInv'
  <2>1. Latest'
    BY <1>0, <1>2, <1>4, <1>6, MessageOf DEF BInv, Latest
  <2>2. Sent'
    BY <1>0, <1>2, <1>4 DEF BInv, Sent, Reapable
  <2>3. ASSUME NEW i \in Messages  PROVE StageOK(i)'
    <3>1. CASE i = m
      <4>1. row'[i[1]].status = "running" /\ saw'[i] = row'[j] /\ stage'[i] = "prep"
        BY <1>2, <1>3, <3>1 DEF j
      <4>. QED  BY <1>2, <4>1 DEF StageOK
    <3>2. CASE i # m /\ i[1] = j
      <4>1. ~Live(i)'
        BY <1>5, <3>2
      <4>. QED  BY <4>1 DEF StageOK, Live, Queued, InRun, Begun
    <3>3. CASE i # m /\ i[1] # j
      <4>1. StageOK(i) /\ row'[i[1]] = row[i[1]] /\ stage'[i] = stage[i] /\ saw'[i] = saw[i] /\ result'[i] = result[i]
        BY <1>1, <1>2, <1>3, <3>3, MessageOf DEF BInv
      <4>. QED  BY <4>1 DEF StageOK
    <3>. QED  BY <3>1, <3>2, <3>3
  <2>4. Placed'
    BY <1>1, <1>3, <1>4 DEF BInv, Placed
  <2>5. UpClear' /\ NoSurvivor'
    BY <1>1 DEF BInv, UpClear, NoSurvivor
  <2>. QED  BY <2>1, <2>2, <2>3, <2>4, <2>5 DEF BInv
<1>8. ASSUME OwnedNow, NEW i \in Jobs, Watched(i)'  PROVE Cared(i)'
  <2>1. CASE i = j
    <3>1. Current(j)' = m
      BY <1>2, <1>4 DEF Current
    <3>. QED  BY <1>3, <2>1, <3>1 DEF Cared, Live, Queued, InRun
  <2>2. CASE i # j
    <3>1. /\ Watched(i) /\ Current(i)' = Current(i) /\ Current(i) \in Messages
          /\ Current(i)[1] = i
      BY <1>1, <1>2, <1>8, <2>2 DEF Watched, Reapable, Current, Sent, Messages, BInv
    <3>2. stage'[Current(i)] = stage[Current(i)]
      BY <1>3, <2>2, <3>1 DEF j
    <3>. QED  BY <1>1, <1>8, <3>1, <3>2 DEF OwnedNow, Cared, Live
  <2>. QED  BY <2>1, <2>2
<1>9. ASSUME Spares  PROVE Spares'
  <2>1. Fresh'
    BY <1>2, <1>9 DEF Spares, Fresh
  <2>2. HeldFresh'
    <3>. SUFFICES ASSUME NEW t \in Managers, seen[t] # None, NEW i \in Jobs, seen[t][i].status = "pending"
                  PROVE  ~seen[t][i].started /\ ~row'[i].started
      BY <1>1 DEF HeldFresh
    <3>1. i # j
      BY <1>0, <1>4 DEF BInv, IInv, Safe, Held, Resting
    <3>. QED  BY <1>2, <1>9, <3>1 DEF Spares, HeldFresh
  <2>3. Started'
    <3>. SUFFICES ASSUME NEW i \in Messages, Live(i)', row'[i[1]].started  PROVE stage'[i] \in Begun
      BY DEF Started
    <3>1. CASE i = m
      BY <1>3, <3>1 DEF Begun
    <3>2. CASE i # m
      <4>1. i[1] # j /\ row'[i[1]] = row[i[1]] /\ Live(i) /\ stage'[i] = stage[i]
        BY <1>2, <1>3, <1>5, <1>6, <3>2, MessageOf
      <4>. QED  BY <1>9, <4>1 DEF Spares, Started
    <3>. QED  BY <3>1, <3>2
  <2>4. Bound'
    <3>. SUFFICES ASSUME beat.on, NEW i \in beat.begun
                  PROVE  row'[i].started /\ \A k \in 1 .. MaxRuns : Live(<<i, k>>)' => <<i, k>> \in beat.excluded
      BY <1>1 DEF Bound
    <3>1. i \in Jobs /\ row[i].started /\ \A k \in 1 .. MaxRuns : Live(<<i, k>>) => <<i, k>> \in beat.excluded
      BY <1>9 DEF Spares, Bound, BInv, IInv, TypeOK
    <3>2. row'[i].started
      BY <1>2, <3>1
    <3>. QED  BY <1>6, <3>1, <3>2 DEF Messages
  <2>. QED  BY <1>9, <2>1, <2>2, <2>3, <2>4 DEF Spares, NoRetry
<1>. QED  BY <1>7, <1>8, <1>9 DEF Keeps, OwnedNow

LEMMA RunStepKeeps ==
  ASSUME BInv, IInv', NEW m \in Messages, Run(m)
  PROVE  Keeps
<1>. USE DEF BInv, IInv
<1>0. /\ \A s \in Stages : RunStep(m, s) => stage'[m] = s
      /\ m[1] \in Jobs /\ row[m[1]].status \in Terminal \cup CanCancel
  BY MessageOf DEF RunStep, TypeOK, Row
<1>1. CASE Take(m)
  <2>1. RunStep(m, "run") /\ UNCHANGED <<row, saw, result>> /\ stage[m] = "pool" /\ stage'[m] = "run"
    BY <1>0, <1>1 DEF Take, runs, Stages, InRun
  <2>2. StageOK(m)' /\ RowCalm /\ StaysFresh
    BY <2>1, CalmWhileWriting DEF StageOK, Begun, Terminal
  <2>. QED  BY <2>1, <2>2, RunKeeps DEF Keeps, InRun, Begun
<1>2. CASE Load(m)
  <2>1. UNCHANGED row /\ stage[m] = "run" /\ stage[m] \in InRun
    BY <1>2 DEF Load, InRun
  <2>2. ASSUME NEW s \in {"cancel", "read"}, RunStep(m, s), UNCHANGED runs  PROVE Keeps
    <3>1. StageOK(m)' /\ RowCalm /\ StaysFresh /\ UNCHANGED <<saw, result>>
      BY <1>0, <2>1, <2>2, CalmWhileWriting DEF StageOK, Begun, Terminal, runs, Stages, InRun
    <3>. QED  BY <2>1, <2>2, <3>1, RunKeeps DEF Keeps, InRun, Begun
  <2>3. CASE Leave(m, "gone") /\ row[m[1]].status \in Terminal
    <3>1. ~Reapable(m[1])' /\ StaysFresh
      BY <2>1, <2>3 DEF Reapable, Terminal, StaysFresh
    <3>. QED  BY <2>1, <2>3, <3>1, LeaveKeeps DEF Keeps
  <2>. QED  BY <1>2, <2>2, <2>3 DEF Load
<1>3. CASE CancelBeforeRun(m)
  <2>1. SetStatus(m, "canceled") /\ Leave(m, "gone") /\ stage[m] \in InRun /\ "canceled" \in Terminal
    BY <1>3 DEF CancelBeforeRun, InRun, Terminal
  <2>2. StaysFresh /\ ~Reapable(m[1])'
    BY <2>1, CalmWhileWriting DEF Reapable
  <2>. QED  BY <2>1, <2>2, LeaveKeeps DEF Keeps
<1>4. CASE MarkRunning(m)
  BY <1>4, MarkRunningKeeps
<1>5. CASE Check(m)
  <2>1. /\ stage[m] = "prep" /\ stage[m] \in InRun /\ UNCHANGED result
        /\ \A i \in Messages \ {m} : saw'[i] = saw[i]
    BY <1>5 DEF Check, InRun, TypeOK
  <2>2. saw[m].status = "running" /\ row[m[1]].status \in Terminal \cup {"running"}
    <3>1. stage[m] \in Begun
      BY <2>1 DEF Begun
    <3>2. saw[m].status = "running" /\ row[m[1]].status # "waiting"
      BY <2>1, <3>1 DEF StageOK
    <3>3. row[m[1]].status \notin Unsent
      <4>1. Live(m)
        BY <2>1 DEF Live
      <4>. QED  BY <4>1, MessageOf DEF Safe, AtRest, Resting
    <3>. QED  BY <1>0, <3>2, <3>3 DEF Unsent, CanCancel
  <2>3. \/ SetStatus(m, "canceled") /\ RunStep(m, "stop")
        \/ UNCHANGED row /\ row[m[1]].status \in Terminal /\ RunStep(m, "stop")
        \/ UNCHANGED row /\ RunStep(m, "exec")
    BY <1>5, <2>2 DEF Check
  <2>4. RowCalm /\ StaysFresh /\ (SetStatus(m, "canceled") => row'[m[1]].status = "canceled")
    BY <2>3, CalmWhileWriting DEF Terminal
  <2>5. StageOK(m)'
    BY <1>0, <2>2, <2>3, <2>4 DEF StageOK, Terminal, Stages, InRun
  <2>6. PICK s \in {"stop", "exec"} : RunStep(m, s)
    BY <2>3
  <2>. QED  BY <2>1, <2>4, <2>5, <2>6, RunKeeps DEF Keeps, InRun, Begun
<1>6. CASE Reread(m)
  <2>1. stage[m] = "stop" /\ row[m[1]].status \in Terminal /\ Ended(m, row[m[1]].status)
    BY <1>6 DEF Reread, StageOK
  <2>. QED  BY <2>1, EndedKeeps
<1>7. CASE SaveResult(m)
  <2>1. SetStatus(m, result[m]) /\ Leave(m, "gone") /\ stage[m] \in InRun /\ result[m] \in Terminal
    BY <1>7 DEF SaveResult, InRun, StageOK
  <2>2. StaysFresh /\ ~Reapable(m[1])'
    BY <2>1, CalmWhileWriting DEF Reapable, Terminal
  <2>. QED  BY <2>1, <2>2, LeaveKeeps DEF Keeps
<1>. QED  BY <1>1, <1>2, <1>3, <1>4, <1>5, <1>6, <1>7 DEF Run

LEMMA FaultKeeps ==
  ASSUME BInv, IInv', NEW m \in Messages,
         \/ Execute(m) \/ Interrupted(m) \/ Break(m) \/ ExceededQuota(m)
         \/ DatabaseFails(m) \/ Die(m) \/ Strand(m) \/ ShutdownSignal(m)
  PROVE  Keeps
<1>1. CASE Execute(m) \/ Interrupted(m) \/ Break(m)
  <2>1. \E x \in Terminal : Ended(m, x)
    BY <1>1 DEF Execute, Interrupted, Break, Terminal
  <2>2. stage[m] \in {"prep", "stop", "exec"}
    BY <1>1 DEF Execute, Interrupted, Break
  <2>. QED  BY <2>1, <2>2, EndedKeeps
<1>2. CASE ExceededQuota(m)
  <2>1. SetStatus(m, "pending") /\ Leave(m, "gone") /\ stage[m] \in InRun /\ "pending" \in Unsent /\ ~NoRetry
    BY <1>2 DEF ExceededQuota, InRun, Unsent, NoRetry
  <2>2. row'[m[1]].status = "pending"
    BY <2>1, StatusSet, MessageOf DEF SetStatus, BInv, IInv
  <2>. QED  BY <2>1, <2>2, LeaveKeeps DEF Keeps, Reapable, Spares
<1>3. CASE DatabaseFails(m)
  <2>1. Leave(m, "gone") /\ UNCHANGED row /\ stage[m] \in InRun /\ ~NoLoss
    BY <1>3 DEF DatabaseFails, InRun, NoLoss
  <2>2. StaysFresh
    BY <2>1 DEF StaysFresh
  <2>. QED  BY <2>1, <2>2, LeaveKeeps DEF Keeps
<1>4. CASE Die(m)
  <2>1. Leave(m, "dead") /\ UNCHANGED row /\ stage[m] \in InRun
    BY <1>4 DEF Die
  <2>2. StaysFresh
    BY <2>1 DEF StaysFresh
  <2>. QED  BY <2>1, <2>2, LeaveKeeps DEF Keeps
<1>5. CASE Strand(m)
  <2>1. RunStep(m, "stranded") /\ UNCHANGED <<row, saw, result>> /\ stage[m] = "pool" /\ stage'[m] = "stranded"
    BY <1>5 DEF Strand, runs, RunStep, IInv, TypeOK
  <2>2. StageOK(m)' /\ RowCalm /\ StaysFresh
    BY <2>1, CalmWhileWriting DEF StageOK, Begun, Terminal, BInv, IInv
  <2>. QED  BY <2>1, <2>2, RunKeeps DEF Keeps, InRun, Begun
<1>6. CASE ShutdownSignal(m)
  <2>1. UNCHANGED <<row, stage, saw, result, managed, phase, toReap, doomed, seen, beat>>
    BY <1>6 DEF ShutdownSignal, pool
  <2>2. RowCalm /\ StaysFresh
    BY <2>1 DEF RowCalm, StaysFresh
  <2>. QED  BY <2>1, <2>2, QuietKeeps DEF Keeps
<1>. QED  BY <1>1, <1>2, <1>3, <1>4, <1>5, <1>6

-----------------------------------------------------------------------------
(* The theorems, each for the faults it needs to be without. *)

LEMMA BasisHolds ==
  ASSUME Init, IInv
  PROVE  /\ NoSurvivor => BInv
         /\ Clear /\ OwnedNow /\ (NoRetry => Spares)
<1>1. \A m \in Messages : stage[m] = "none" /\ ~Live(m)
  BY DEF Init, Live, Queued, InRun
<1>2. \A j \in Jobs : row[j].status = "new" /\ row[j].started = FALSE
  BY DEF Init
<1>3. phase = "up" /\ toReap = {} /\ beat.on = FALSE /\ \A t \in Managers : seen[t] = None
  BY DEF Init, NoBeat
<1>4. Latest /\ Sent /\ UpClear /\ OwnedNow
  BY <1>1, <1>2, <1>3 DEF Latest, Sent, Reapable, UpClear, OwnedNow, Watched
<1>5. Placed /\ \A m \in Messages : StageOK(m)
  BY <1>1 DEF Placed, StageOK, Begun, InRun
<1>6. Fresh /\ HeldFresh /\ Started /\ Bound
  BY <1>1, <1>2, <1>3 DEF Fresh, HeldFresh, Started, Bound
<1>7. Clear
  BY DEF Init, Clear
<1>. QED  BY <1>4, <1>5, <1>6, <1>7 DEF BInv, Spares

LEMMA Kept ==
  ASSUME BInv, Clear, [Next]_vars
  PROVE  Keeps
<1>1. IInv'
  BY Invariance DEF BInv
<1>2. ASSUME NEW j \in Jobs, SignalStart(j) \/ ReapSave(j) \/ HeartbeatReap(j)
      PROVE  Keeps
  BY <1>1, <1>2, SignalStartKeeps, ReapSaveKeeps, HeartbeatKeeps
<1>3. CASE (\E short \in BOOLEAN : BindHeartbeat(short)) \/ HeartbeatEnd
  BY <1>1, <1>3, HeartbeatKeeps
<1>4. ASSUME NEW t \in Managers, ReadRows(t) \/ Commit(t) \/ Abort(t)
      PROVE  Keeps
  BY <1>1, <1>4, LockKeeps, CommitKeeps
<1>5. ASSUME NEW u \in Users, Canceling(u) \/ CancelInTransaction(u) \/ \E j \in Jobs : Open(u, j)
      PROVE  Keeps
  BY <1>1, <1>5, UserKeeps
<1>6. ASSUME NEW m \in Messages, Loop(m)
      PROVE  Keeps
  BY <1>1, <1>6, LoopKeeps
<1>7. ASSUME NEW m \in Messages, Run(m)
      PROVE  Keeps
  BY <1>1, <1>7, RunStepKeeps
<1>8. ASSUME NEW m \in Messages,
             \/ Execute(m) \/ Interrupted(m) \/ Break(m) \/ ExceededQuota(m)
             \/ DatabaseFails(m) \/ Die(m) \/ Strand(m) \/ ShutdownSignal(m)
      PROVE  Keeps
  BY <1>1, <1>8, FaultKeeps
<1>9. CASE DispatcherDies \/ Startup
  BY <1>1, <1>9, RestartKeeps
<1>10. CASE UNCHANGED vars
  <2>1. UNCHANGED <<row, stage, saw, result, managed, phase, toReap, doomed, seen, beat>>
    BY <1>10 DEF vars
  <2>2. RowCalm /\ StaysFresh
    BY <2>1 DEF RowCalm, StaysFresh
  <2>3. \A i \in Jobs : i \in toReap \cup doomed => i \in toReap' \cup doomed' \/ ~Reapable(i)'
    BY <2>1
  <2>. QED  BY <1>1, <2>1, <2>2, <2>3, QuietKeeps DEF Keeps
<1>. QED  BY <1>2, <1>3, <1>4, <1>5, <1>6, <1>7, <1>8, <1>9, <1>10 DEF Next, Loop

(* Where no message is dropped, refused by a full queue or lost in a queue that cannot be
   read, ends are read at once, nothing raises and no worker outlives its dispatcher, a job
   that waits or runs always has somebody: its live message or run(), a dead worker
   cleanup() will find, or a reaper about to save it as failed. Every other fault is
   allowed, the dispatcher's death between any two steps among them (system.py 117-119,
   pool.py 386-436, reaper.py 53-90). *)
THEOREM OwnedAlways == NoLoss /\ NoSurvivor /\ Spec => []Owned
<1>. DEFINE OInv == NoLoss /\ BInv /\ Clear /\ OwnedNow
<1>1. NoLoss /\ NoSurvivor /\ Init => OInv
  BY InitHolds, BasisHolds
<1>2. OInv /\ [Next]_vars => OInv'
  BY Kept, ClearKept DEF Keeps, NoLoss
<1>3. OInv => Owned
  BY DEF OwnedNow, Owned, Watched, Cared
<1>. HIDE DEF OInv
<1>. QED  BY <1>1, <1>2, <1>3, PTL DEF Spec

(* Where no container group's quota sends a job back to pending and no worker outlives its
   dispatcher, the heartbeat never takes a running job from a run() that is alive, however
   old the lists are that it was bound with, and whatever they hold besides what the
   workers have: messages dropped or refused by a full queue, and ends not yet read. A job
   that had started by then gets no new message (reaper.py 73-90, pool.py 440-449). *)
THEOREM HeartbeatSparesLiveAlways == NoRetry /\ NoSurvivor /\ Spec => HeartbeatSparesLive
<1>. DEFINE HInv == BInv /\ Clear /\ Spares
            Spared == \A j \in Jobs : HeartbeatReap(j) /\ row[j].status = "running" => ~Live(Current(j))
<1>1. NoRetry /\ NoSurvivor /\ Init => HInv
  BY InitHolds, BasisHolds
<1>2. HInv /\ [Next]_vars => HInv'
  BY Kept, ClearKept DEF Keeps
<1>3. HInv => Spared
  <2>. SUFFICES ASSUME HInv, NEW j \in Jobs, HeartbeatReap(j), row[j].status = "running", Live(Current(j))
                PROVE  FALSE
    OBVIOUS
  <2>1. j \in beat.begun /\ beat.on
    BY DEF HeartbeatReap, Overdue
  <2>2. row[j].run \in 1 .. MaxRuns
    BY DEF BInv, Sent, Reapable
  <2>3. Current(j) \in beat.excluded
    BY <2>1, <2>2 DEF Spares, Bound, Current
  <2>. QED  BY <2>3 DEF HeartbeatReap
<1>4. HeartbeatSparesLive <=> [][Spared]_vars
  BY DEF HeartbeatSparesLive
<1>. HIDE DEF HInv, Spared
<1>. QED  BY <1>1, <1>2, <1>3, <1>4, PTL DEF Spec
=============================================================================
