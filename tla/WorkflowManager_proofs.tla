----------------------- MODULE WorkflowManager_proofs -----------------------
(***************************************************************************)
(* Safety of WorkflowManager for every DAG, by one inductive invariant.    *)
(***************************************************************************)
EXTENDS WorkflowManager, TLAPS

(* A workflow that ended by itself is in no cycle. *)
Quiet == wf.status \in {"successful", "failed"} => ~cycle.on

IInv == TypeOK /\ Quiet /\ OnlyReached /\ EndsRightly

-----------------------------------------------------------------------------
(* What the DAG answers.                                                    *)

(* A cycle sees a job as it is, or as active when it has ended since. *)
LEMMA ViewIs ==
  ASSUME TypeOK, NEW view \in Views, NEW n \in Nodes
  PROVE  /\ view[n] = job[n] \/ (view[n] = "active" /\ job[n] \in Final)
         /\ view[n] \in JobStatus
  BY DEF Views, TypeOK, JobStatus

(* bfs_nodes_to_run comes to a node that is no root along a link to follow. *)
LEMMA VisitedFromParent ==
  ASSUME NEW view, NEW tmpl, NEW marks,
         NEW n \in Visited(view, tmpl, marks), n \notin Roots
  PROVE  \E p \in Nodes : p \notin marks /\ Follows(p, n, Outcome(p, view, tmpl))
<1>. DEFINE Closed(V) == Roots \subseteq V /\ \A p \in V \ marks, c \in Nodes \ V :
                           ~Follows(p, c, Outcome(p, view, tmpl))
<1>1. n \in Nodes /\ ~Closed(Nodes \ {n})
  <2>1. n \in Nodes /\ \A V \in SUBSET (Nodes \ {n}) : ~Closed(V)
    BY Zenon DEF Visited
  <2>. QED  BY <2>1
<1>2. Roots \subseteq Nodes \ {n}
  BY DEF Roots
<1>3. PICK p \in (Nodes \ {n}) \ marks, c \in Nodes \ (Nodes \ {n}) :
        Follows(p, c, Outcome(p, view, tmpl))
  BY <1>1, <1>2, Zenon
<1>. QED  BY <1>3

(* Only a final status is followed, and only from a parent. *)
LEMMA FollowsFinal ==
  ASSUME NEW p \in Nodes, NEW n \in Nodes, NEW status, Follows(p, n, status)
  PROVE  status \in Final /\ p \in Parents(n)
  BY DEF Follows, Final, Parents

(* What the cycle sees a parent as, it still is: its final status is not
   seen too early, and a template it misses is gone. *)
LEMMA OutcomeIs ==
  ASSUME TypeOK, NEW view \in Views, NEW p \in Nodes, NEW tmpl, NEW marks,
         template \subseteq tmpl, Outcome(p, view, tmpl) \in Final
  PROVE  /\ Outcome(p, job, template) = Outcome(p, view, tmpl)
         /\ p \notin ToRun(view, tmpl, marks)
<1>1. view[p] = job[p] \/ (view[p] = "active" /\ job[p] \in Final)
  BY ViewIs
<1>2. CASE view[p] = "none" /\ p \notin tmpl
  <2>1. job[p] = "none" /\ p \notin template
    BY <1>1, <1>2 DEF Final
  <2>. QED  BY <1>2, <2>1 DEF Outcome, ToRun
<1>3. CASE ~(view[p] = "none" /\ p \notin tmpl)
  <2>1. view[p] \in Final
    BY <1>3 DEF Outcome
  <2>2. job[p] = view[p] /\ job[p] # "none"
    BY <1>1, <2>1 DEF Final
  <2>. QED  BY <1>3, <2>1, <2>2 DEF Outcome, ToRun
<1>. QED  BY <1>2, <1>3

-----------------------------------------------------------------------------
(* What every step leaves as it is: marks stay, templates do not come back, a
   final status and a node that will never have a job stay what they are. *)
Steady ==
  /\ edge' = edge /\ dnr \subseteq dnr' /\ template' \subseteq template
  /\ \A p \in Nodes : job[p] \in Final => job'[p] = job[p]
  /\ \A p \in Nodes : job[p] = "none" /\ p \notin template => job'[p] = "none"

(* The outcome of a parent is settled once it is final. *)
LEMMA OutcomeStays ==
  ASSUME Steady, NEW p \in Nodes, Outcome(p, job, template) \in Final
  PROVE  Outcome(p, job', template') = Outcome(p, job, template)
<1>1. CASE job[p] = "none" /\ p \notin template
  <2>1. job'[p] = "none" /\ p \notin template'
    BY <1>1 DEF Steady
  <2>. QED  BY <1>1, <2>1 DEF Outcome
<1>2. CASE ~(job[p] = "none" /\ p \notin template)
  <2>1. job[p] \in Final
    BY <1>2 DEF Outcome
  <2>2. job'[p] = job[p] /\ job[p] # "none"
    BY <2>1 DEF Steady, Final
  <2>. QED  BY <1>2, <2>2 DEF Outcome
<1>. QED  BY <1>1, <1>2

Reached(n) ==
  /\ \A p \in Parents(n) : Decided(p)
  /\ \E p \in Parents(n) : Follows(p, n, Outcome(p, job, template))

(* A node that was rightly run stays so. *)
LEMMA ReachedStays ==
  ASSUME Steady, NEW n \in Nodes, Reached(n)
  PROVE  Reached(n)'
<1>1. Parents(n)' = Parents(n) /\ Parents(n) \subseteq Nodes
  BY DEF Parents, Steady
<1>2. \A p \in Parents(n) : Decided(p)'
  BY <1>1 DEF Reached, Decided, Steady
<1>3. PICK p \in Parents(n) : Follows(p, n, Outcome(p, job, template))
  BY DEF Reached
<1>4. Outcome(p, job, template) \in Final
  BY <1>1, <1>3, FollowsFinal
<1>5. Outcome(p, job', template') = Outcome(p, job, template)
  BY <1>1, <1>4, OutcomeStays
<1>6. Follows(p, n, Outcome(p, job, template))'
  BY <1>3, <1>5 DEF Follows, Steady
<1>. QED  BY <1>1, <1>2, <1>6 DEF Reached

(* So only the nodes a step spawns are to be looked at. *)
LEMMA OnlyReachedStep ==
  ASSUME TypeOK, OnlyReached, Steady,
         \A n \in Nodes \ Roots : job[n] = "none" /\ job'[n] # "none" => Reached(n)'
  PROVE  OnlyReached'
<1>1. Roots' = Roots
  BY DEF Roots, Parents, Steady
<1>2. ASSUME NEW n \in Nodes \ Roots, job'[n] # "none"
      PROVE  Reached(n)'
  <2>1. CASE job[n] = "none"
    BY <1>2, <2>1
  <2>2. CASE job[n] # "none"
    <3>1. Reached(n)
      BY <2>2 DEF OnlyReached, Reached
    <3>. QED  BY <3>1, ReachedStays
  <2>. QED  BY <2>1, <2>2
<1>. QED  BY <1>1, <1>2 DEF OnlyReached, Reached

(* A workflow that ended by itself ended rightly, and stays so. *)
LEMMA EndsRightlyStays ==
  ASSUME TypeOK, EndsRightly, Steady, job' = job,
         wf'.status \in {"successful", "failed"} => wf'.status = wf.status
  PROVE  EndsRightly'
<1>. SUFFICES ASSUME wf'.status \in {"successful", "failed"}
              PROVE  EndsRightly'
  BY DEF EndsRightly
<1>1. wf.status = wf'.status
  OBVIOUS
<1>2. ASSUME NEW n \in Nodes
      PROVE  (job[n] \in Final \/ (job[n] = "none" /\ n \in dnr \cup (Nodes \ template)))'
  BY <1>1, <1>2 DEF EndsRightly, Steady
<1>3. ASSUME wf.status = "successful", NEW n \in Nodes \ dnr', job'[n] # "successful"
      PROVE  \E c \in Nodes : edge'[n][c] \in {"failure", "always"}
  BY <1>1, <1>3 DEF EndsRightly, Steady
<1>. QED  BY <1>1, <1>2, <1>3 DEF EndsRightly

-----------------------------------------------------------------------------
(* The invariant: one lemma per action that writes more than the workflow's  *)
(* own row, then the others.                                                *)

LEMMA InitHolds ==
  ASSUME Init PROVE IInv
<1>1. TypeOK
  BY WorkflowAssumption DEF Init, TypeOK, JobStatus, NoCycle
<1>2. Quiet /\ EndsRightly /\ OnlyReached
  BY DEF Init, Quiet, EndsRightly, OnlyReached, NoCycle
<1>. QED  BY <1>1, <1>2 DEF IInv

(* Steps that touch neither jobs nor marks nor templates. *)
LEMMA RowStep ==
  ASSUME IInv, Start \/ BeginCycle \/ AbortCycle \/ Load \/ SaveFlag \/ SaveCanceled
  PROVE  IInv' /\ Steady
<1>. USE DEF IInv
<1>1. TypeOK'
  <2>1. CASE Start
    BY <2>1 DEF TypeOK, graph, Start
  <2>2. CASE BeginCycle
    BY <2>2 DEF TypeOK, graph, BeginCycle
  <2>3. CASE AbortCycle
    BY <2>3 DEF TypeOK, NoCycle, graph, AbortCycle
  <2>4. CASE Load
    BY <2>4 DEF TypeOK, graph, Load
  <2>5. CASE SaveFlag
    BY <2>5 DEF TypeOK, graph, SaveFlag
  <2>6. CASE SaveCanceled
    BY <2>6 DEF TypeOK, Final, graph, SaveCanceled
  <2>. QED  BY <2>1, <2>2, <2>3, <2>4, <2>5, <2>6
<1>2. Steady /\ UNCHANGED <<graph, dnr, job, template>>
  BY DEF Steady, graph, Start, BeginCycle, AbortCycle, Load, SaveFlag, SaveCanceled
<1>4. Quiet'
  BY DEF Quiet, TypeOK, NoCycle, Start, BeginCycle, AbortCycle, Load, SaveFlag, SaveCanceled
<1>5. OnlyReached'
  BY <1>2, OnlyReachedStep
<1>6. wf'.status \in {"successful", "failed"} => wf'.status = wf.status
  BY DEF TypeOK, Start, BeginCycle, AbortCycle, Load, SaveFlag, SaveCanceled
<1>7. EndsRightly'
  BY <1>2, <1>6, EndsRightlyStays
<1>. QED  BY <1>1, <1>2, <1>4, <1>5, <1>7

LEMMA DeleteTemplateStep ==
  ASSUME IInv, NEW n \in Nodes, DeleteTemplate(n)
  PROVE  IInv' /\ Steady
<1>. USE DEF IInv
<1>1. TypeOK'
  BY DEF TypeOK, DeleteTemplate, graph
<1>2. Steady /\ UNCHANGED <<job, wf, cycle>> /\ template' \subseteq template
  BY DEF Steady, DeleteTemplate, graph
<1>3. Quiet'
  BY <1>2 DEF Quiet
<1>4. OnlyReached' /\ EndsRightly'
  BY <1>2, OnlyReachedStep, EndsRightlyStays
<1>. QED  BY <1>1, <1>2, <1>3, <1>4

(* A job goes on only in a workflow that has not ended. *)
LEMMA JobStep ==
  ASSUME IInv, NEW n \in Nodes, StartJob(n) \/ EndJob(n)
  PROVE  IInv' /\ Steady
<1>. USE DEF IInv
<1>1. TypeOK'
  BY WorkflowAssumption DEF TypeOK, JobStatus, Final, graph, StartJob, EndJob
<1>2. Steady /\ UNCHANGED <<graph, dnr, template, wf, cycle>>
  BY DEF TypeOK, Steady, Final, graph, StartJob, EndJob
<1>3. Quiet'
  BY <1>2 DEF Quiet
<1>4. \A i \in Nodes : job[i] = "none" => job'[i] = "none"
  BY DEF TypeOK, StartJob, EndJob
<1>5. OnlyReached'
  BY <1>2, <1>4, OnlyReachedStep
<1>6. wf.status \notin {"successful", "failed"}
  <2>1. job[n] \in {"pending", "active"}
    BY DEF StartJob, EndJob
  <2>. QED  BY <2>1 DEF EndsRightly, Final
<1>7. EndsRightly'
  BY <1>2, <1>6 DEF EndsRightly
<1>. QED  BY <1>1, <1>2, <1>3, <1>5, <1>7

(* A node is run behind the parent the search came from; no other parent of
   it can still change. The marks the search went by are still there, what it saw
   ended is so, and what could get no job has none. *)
LEMMA RunReaches ==
  ASSUME UNCHANGED <<edge, template>>,
         NEW seen, NEW tmpl, template \subseteq tmpl, NEW marks, marks \subseteq dnr',
         NEW n \in ToRun(seen, tmpl, marks), n \notin Roots,
         \A p \in Nodes : seen[p] \in Final => job'[p] = seen[p],
         \A p \in Nodes \ tmpl : seen[p] = "none" => job'[p] = "none"
  PROVE  Reached(n)'
<1>1. n \in Nodes /\ n \in Visited(seen, tmpl, marks) /\ ParentsFinished(n, seen, tmpl, marks)
  BY DEF ToRun, Visited
<1>2. Parents(n)' = Parents(n) /\ Parents(n) \subseteq Nodes
  BY DEF Parents
<1>3. ASSUME NEW p \in Parents(n)
      PROVE  Decided(p)'
  <2>1. p \in marks \/ p \notin tmpl \/ seen[p] \in Final
    BY <1>1 DEF ParentsFinished
  <2>. QED  BY <1>2, <2>1 DEF Decided
<1>4. PICK p \in Nodes : Follows(p, n, Outcome(p, seen, tmpl))
  BY <1>1, VisitedFromParent
<1>5. Outcome(p, seen, tmpl) \in Final /\ p \in Parents(n)
  BY <1>1, <1>4, FollowsFinal
<1>6. Outcome(p, job', template') = Outcome(p, seen, tmpl)
  <2>1. CASE seen[p] = "none" /\ p \notin tmpl
    BY <2>1 DEF Outcome
  <2>2. CASE ~(seen[p] = "none" /\ p \notin tmpl)
    <3>1. seen[p] \in Final /\ job'[p] = seen[p] /\ seen[p] # "none"
      BY <1>5, <2>2 DEF Outcome, Final
    <3>. QED  BY <2>2, <3>1 DEF Outcome
  <2>. QED  BY <2>1, <2>2
<1>7. Follows(p, n, Outcome(p, job, template))'
  BY <1>4, <1>6 DEF Follows
<1>. QED  BY <1>2, <1>3, <1>5, <1>7 DEF Reached

(* A cycle of a canceled workflow marks, cancels and spawns. *)
LEMMA CancelCycleIs ==
  ASSUME TypeOK, CancelCycle
  PROVE  \E view \in Views, tmpl \in SUBSET Nodes, run \in SUBSET Nodes :
           /\ template \subseteq tmpl
           /\ run \subseteq ToRun([n \in Nodes |-> Canceled(view[n])], tmpl, dnr)
           /\ dnr' = (dnr \cup {n \in Nodes : job[n] = "none"}) \ run
           /\ Spawn(run, [n \in Nodes |-> Canceled(job[n])])
           /\ stopping' = stopping \cup {n \in Nodes : CanCancel(view[n])}
           /\ \/ wf' = wf
              \/ wf' = [wf EXCEPT !.status = "canceled"] /\ run = {}
                 /\ \A n \in Nodes : ~CanCancel(view[n])
<1>1. PICK view \in Views, late \in SUBSET (cycle.template \ template) :
        LET alive == {n \in Nodes : CanCancel(view[n])}
            seen  == [n \in Nodes |-> Canceled(view[n])]
            run   == IF alive = {} THEN {} ELSE ToRun(seen, template \cup late, dnr)
        IN /\ dnr' = (dnr \cup {n \in Nodes : job[n] = "none"}) \ run
           /\ Spawn(run, [n \in Nodes |-> Canceled(job[n])])
           /\ stopping' = stopping \cup alive
           /\ wf' = IF alive = {} THEN [wf EXCEPT !.status = "canceled"] ELSE wf
  BY DEF CancelCycle
<1>. DEFINE found == ToRun([n \in Nodes |-> Canceled(view[n])], template \cup late, dnr)
            run   == IF {n \in Nodes : CanCancel(view[n])} = {} THEN {} ELSE found
<1>2. template \cup late \in SUBSET Nodes /\ found \subseteq Nodes
  BY DEF TypeOK, ToRun, Visited
<1>3. run \in SUBSET Nodes /\ run \subseteq found
  BY <1>2
<1>4. {n \in Nodes : CanCancel(view[n])} = {} => run = {} /\ \A n \in Nodes : ~CanCancel(view[n])
  OBVIOUS
<1>. QED  BY <1>1, <1>2, <1>3, <1>4

(* What it spawns had no job and no mark; every other job it cancels or leaves. *)
LEMMA CancelCycleRuns ==
  ASSUME TypeOK, NEW view \in Views, NEW tmpl, NEW run \in SUBSET Nodes,
         run \subseteq ToRun([n \in Nodes |-> Canceled(view[n])], tmpl, dnr),
         Spawn(run, [n \in Nodes |-> Canceled(job[n])])
  PROVE  /\ \A n \in run : n \notin dnr /\ n \in tmpl /\ n \in template /\ job[n] = "none"
         /\ job' \in [Nodes -> JobStatus]
         /\ \A n \in Nodes \ run : job'[n] = Canceled(job[n])
         /\ \A n \in run : job'[n] \in {"pending", "failed"}
<1>1. ASSUME NEW n \in run
      PROVE  n \notin dnr /\ n \in tmpl /\ job[n] = "none"
  <2>1. n \in Nodes /\ n \notin dnr /\ n \in tmpl /\ Canceled(view[n]) = "none"
    BY DEF ToRun, Visited
  <2>2. view[n] = "none"
    BY <2>1 DEF Canceled
  <2>. QED  BY <2>1, <2>2, ViewIs
<1>2. run \subseteq template
  BY DEF Spawn
<1>3. /\ job' \in [Nodes -> JobStatus]
      /\ \A n \in Nodes \ run : job'[n] = Canceled(job[n])
      /\ \A n \in run : job'[n] \in {"pending", "failed"}
  BY DEF Spawn, Canceled, TypeOK, JobStatus, Final
<1>. QED  BY <1>1, <1>2, <1>3

(* No node has a mark and a job. *)
LEMMA CancelCycleMarks ==
  ASSUME TypeOK, CancelCycle, \A n \in dnr : job[n] = "none"
  PROVE  \A n \in dnr' : job'[n] = "none"
<1>1. PICK view \in Views, tmpl \in SUBSET Nodes, run \in SUBSET Nodes :
        /\ run \subseteq ToRun([n \in Nodes |-> Canceled(view[n])], tmpl, dnr)
        /\ dnr' = (dnr \cup {n \in Nodes : job[n] = "none"}) \ run
        /\ Spawn(run, [n \in Nodes |-> Canceled(job[n])])
  BY CancelCycleIs
<1>2. \A n \in Nodes \ run : job'[n] = Canceled(job[n])
  BY <1>1, CancelCycleRuns
<1>. QED  BY <1>1, <1>2 DEF TypeOK, Canceled

(* A cycle of a canceled workflow spawns behind the jobs it has just canceled, but
   never what is marked. *)
LEMMA CancelCycleStep ==
  ASSUME IInv, CancelCycle
  PROVE  IInv' /\ Steady
<1>. USE DEF IInv
<1>1. PICK view \in Views, tmpl \in SUBSET Nodes, run \in SUBSET Nodes :
        /\ template \subseteq tmpl
        /\ run \subseteq ToRun([n \in Nodes |-> Canceled(view[n])], tmpl, dnr)
        /\ dnr' = (dnr \cup {n \in Nodes : job[n] = "none"}) \ run
        /\ Spawn(run, [n \in Nodes |-> Canceled(job[n])])
        /\ stopping' = stopping \cup {n \in Nodes : CanCancel(view[n])}
        /\ wf' = [wf EXCEPT !.status = "canceled"] \/ wf' = wf
  BY CancelCycleIs
<1>. DEFINE seen == [n \in Nodes |-> Canceled(view[n])]
<1>2. cycle.on /\ cycle' = NoCycle /\ UNCHANGED <<edge, converge, template, user>>
  BY DEF CancelCycle, graph
<1>3. /\ \A n \in run : n \notin dnr /\ n \in tmpl /\ n \in template /\ job[n] = "none"
      /\ job' \in [Nodes -> JobStatus]
      /\ \A n \in Nodes \ run : job'[n] = Canceled(job[n])
      /\ \A n \in run : job'[n] # "none"
  BY <1>1, CancelCycleRuns
<1>4. TypeOK'
  <2>1. \A n \in Nodes : job[n] # "none" => job'[n] # "none"
    BY <1>3 DEF Canceled
  <2>2. \A n \in Nodes : CanCancel(view[n]) => job[n] # "none"
    BY ViewIs DEF CanCancel, Final
  <2>3. stopping' \subseteq {n \in Nodes : job'[n] # "none"}
    BY <1>1, <2>1, <2>2 DEF TypeOK
  <2>. QED  BY <1>1, <1>2, <1>3, <2>3 DEF TypeOK, NoCycle, Final
<1>5. Steady
  <2>1. dnr \subseteq dnr'
    BY <1>1, <1>3
  <2>2. \A p \in Nodes : job[p] \in Final => job'[p] = job[p]
    BY <1>3 DEF Canceled, Final
  <2>3. \A p \in Nodes : job[p] = "none" /\ p \notin template => job'[p] = "none"
    BY <1>3 DEF Canceled
  <2>. QED  BY <1>2, <2>1, <2>2, <2>3 DEF Steady
<1>6. Quiet'
  BY <1>2 DEF Quiet, NoCycle
<1>7. OnlyReached'
  <2>1. \A p \in Nodes : seen[p] \in Final => job'[p] = seen[p]
    <3>1. ASSUME NEW p \in Nodes, Canceled(view[p]) \in Final
          PROVE  p \notin run /\ Canceled(job[p]) = Canceled(view[p])
      BY <1>3, <3>1, ViewIs DEF Canceled, Final
    <3>. QED  BY <1>3, <3>1
  <2>2. \A p \in Nodes \ tmpl : seen[p] = "none" => job'[p] = "none"
    <3>1. ASSUME NEW p \in Nodes \ tmpl, Canceled(view[p]) = "none"
          PROVE  p \notin run /\ Canceled(job[p]) = "none"
      BY <1>3, <3>1, ViewIs DEF Canceled, Final
    <3>. QED  BY <1>3, <3>1
  <2>3. ASSUME NEW n \in Nodes \ Roots, job[n] = "none", job'[n] # "none"
        PROVE  Reached(n)'
    <3>1. n \in run
      BY <1>3, <2>3 DEF Canceled
    <3>2. n \in ToRun(seen, tmpl, dnr) /\ dnr \subseteq dnr'
      BY <1>1, <1>5, <3>1 DEF Steady
    <3>. HIDE DEF seen
    <3>. QED  BY <1>1, <1>2, <2>1, <2>2, <3>2, RunReaches
  <2>. QED  BY <1>5, <2>3, OnlyReachedStep
<1>8. wf'.status \notin {"successful", "failed"}
  BY <1>1, <1>2 DEF Quiet, TypeOK
<1>9. EndsRightly'
  BY <1>8 DEF EndsRightly
<1>. QED  BY <1>4, <1>5, <1>6, <1>7, <1>9

(* A cycle commits by the jobs and templates it saw; what it marks it judged so. *)
LEMMA RunCycleIs ==
  ASSUME TypeOK, RunCycle
  PROVE  \E view \in Views, tmpl \in SUBSET Nodes :
           /\ template \subseteq tmpl /\ dnr \subseteq dnr' /\ dnr' \subseteq Nodes
           /\ \A n \in dnr' \ dnr : view[n] = "none" /\ MarksNode(n, view, tmpl, dnr')
           /\ Commit(view, tmpl, dnr')
<1>1. PICK view \in Views, late \in SUBSET (cycle.template \ template) :
        \E skip \in SUBSET {n \in Nodes \ (dnr \cup Roots) : view[n] = "none"} :
          /\ skip = {n \in {n \in Nodes \ (dnr \cup Roots) : view[n] = "none"} :
                       MarksNode(n, view, template \cup late, dnr \cup skip)}
          /\ Commit(view, template \cup late, dnr \cup skip)
  BY DEF RunCycle
<1>2. PICK skip \in SUBSET {n \in Nodes \ (dnr \cup Roots) : view[n] = "none"} :
        /\ skip = {n \in {n \in Nodes \ (dnr \cup Roots) : view[n] = "none"} :
                     MarksNode(n, view, template \cup late, dnr \cup skip)}
        /\ Commit(view, template \cup late, dnr \cup skip)
  BY <1>1
<1>3. dnr' = dnr \cup skip
  BY <1>2 DEF Commit
<1>4. Commit(view, template \cup late, dnr') /\ template \cup late \in SUBSET Nodes
  BY <1>2, <1>3 DEF TypeOK
<1>5. ASSUME NEW n \in skip
      PROVE  view[n] = "none" /\ MarksNode(n, view, template \cup late, dnr')
  BY <1>2, <1>3
<1>. QED  BY <1>3, <1>4, <1>5 DEF TypeOK

LEMMA RunCycleStep ==
  ASSUME IInv, RunCycle
  PROVE  IInv' /\ Steady
<1>. USE DEF IInv
<1>1. PICK view \in Views, tmpl \in SUBSET Nodes :
        /\ template \subseteq tmpl /\ dnr \subseteq dnr' /\ dnr' \subseteq Nodes
        /\ Commit(view, tmpl, dnr')
  BY RunCycleIs
<1>. DEFINE run == ToRun(view, tmpl, dnr')
<1>2. cycle.on /\ cycle' = NoCycle /\ UNCHANGED <<edge, converge, template, stopping, user>>
  BY DEF RunCycle, graph
<1>3. job' \in [Nodes -> JobStatus] /\ \A p \in Nodes : job'[p] # job[p] =>
        p \in run /\ p \in template
  BY <1>1 DEF Commit, Spawn, TypeOK, JobStatus, Final
<1>4. \A p \in run : job[p] = "none" /\ p \in Nodes
  <2>1. \A p \in run : p \in Nodes /\ view[p] = "none"
    BY DEF ToRun, Visited
  <2>. QED  BY <2>1, ViewIs
<1>5. TypeOK'
  <2>1. wf' \in [status : {"pending", "running"} \cup Final, flag : BOOLEAN]
    BY <1>1 DEF Commit, TypeOK, Final
  <2>2. stopping' \subseteq {n \in Nodes : job'[n] # "none"}
    BY <1>2, <1>3, <1>4 DEF TypeOK
  <2>. QED  BY <1>1, <1>2, <1>3, <2>1, <2>2 DEF TypeOK, NoCycle
<1>6. Steady
  BY <1>1, <1>2, <1>3, <1>4 DEF Steady, Final
<1>7. Quiet'
  BY <1>2 DEF Quiet, NoCycle
<1>8. OnlyReached'
  <2>1. \A p \in Nodes : view[p] \in Final => job'[p] = view[p]
    BY <1>6, ViewIs DEF Steady, Final
  <2>2. \A p \in Nodes \ tmpl : view[p] = "none" => job'[p] = "none"
    BY <1>1, <1>6, ViewIs DEF Steady
  <2>3. ASSUME NEW n \in Nodes \ Roots, job[n] = "none", job'[n] # "none"
        PROVE  Reached(n)'
    <3>1. n \in run
      BY <1>3, <2>3
    <3>. QED  BY <1>1, <1>2, <2>1, <2>2, <3>1, RunReaches
  <2>. QED  BY <1>6, <2>3, OnlyReachedStep
<1>9. EndsRightly'
  <2>1. CASE wf' = wf
    <3>1. wf'.status \notin {"successful", "failed"}
      BY <1>2, <2>1 DEF Quiet
    <3>. QED  BY <3>1 DEF EndsRightly
  <2>2. CASE /\ IsDone(view, tmpl, dnr') /\ job' = job
             /\ wf' = [wf EXCEPT !.status = IF HasFailed(view, tmpl, dnr') THEN "failed"
                                            ELSE "successful"]
    <3>1. ASSUME NEW n \in Nodes
          PROVE  \/ job[n] = view[n] /\ view[n] \in Final
                 \/ job[n] = "none" /\ view[n] = "none" /\ (n \in dnr' \/ n \notin tmpl)
      BY <2>2, ViewIs DEF IsDone, Final
    <3>2. \A n \in Nodes : job'[n] \in Final
             \/ (job'[n] = "none" /\ n \in dnr' \cup (Nodes \ template'))
      BY <1>1, <1>2, <2>2, <3>1
    <3>3. ASSUME wf'.status = "successful", NEW n \in Nodes \ dnr', job'[n] # "successful"
          PROVE  \E c \in Nodes : edge'[n][c] \in {"failure", "always"}
      <4>1. ~HasFailed(view, tmpl, dnr')
        BY <2>2, <3>3 DEF TypeOK
      <4>2. (n \notin dnr' /\ n \notin tmpl) \/ view[n] \in Final \ {"successful"}
        BY <2>2, <3>1, <3>3
      <4>. QED  BY <1>2, <4>1, <4>2 DEF HasFailed
    <3>. QED  BY <3>2, <3>3 DEF EndsRightly
  <2>. QED  BY <1>1, <2>1, <2>2 DEF Commit
<1>. QED  BY <1>5, <1>6, <1>7, <1>8, <1>9

LEMMA Invariance ==
  ASSUME IInv, [Next]_vars
  PROVE  IInv' /\ Steady
<1>1. CASE Start \/ BeginCycle \/ AbortCycle \/ Load \/ SaveFlag \/ SaveCanceled
  BY <1>1, RowStep
<1>2. CASE RunCycle
  BY <1>2, RunCycleStep
<1>3. CASE CancelCycle
  BY <1>3, CancelCycleStep
<1>4. ASSUME NEW n \in Nodes, StartJob(n) \/ EndJob(n)
      PROVE  IInv' /\ Steady
  BY <1>4, JobStep
<1>5. ASSUME NEW n \in Nodes, DeleteTemplate(n)
      PROVE  IInv' /\ Steady
  BY <1>5, DeleteTemplateStep
<1>6. CASE UNCHANGED vars
  <2>1. TypeOK' /\ Quiet' /\ EndsRightly'
    BY <1>6 DEF IInv, TypeOK, Quiet, EndsRightly, vars
  <2>2. OnlyReached'
    BY <1>6 DEF IInv, OnlyReached, Roots, Parents, Decided, Follows, Outcome, vars
  <2>3. Steady
    BY <1>6 DEF Steady, vars
  <2>. QED  BY <2>1, <2>2, <2>3 DEF IInv
<1>. QED  BY <1>1, <1>2, <1>3, <1>4, <1>5, <1>6 DEF Next

LEMMA Inductive == Spec => []IInv
<1>. QED  BY InitHolds, Invariance, PTL DEF Spec

-----------------------------------------------------------------------------
(* Who is given up. Only a cycle that has read the cancel_flag gives up without
   a reason, and such a cycle comes after the flag.                         *)

FlagRead == cycle.on /\ cycle.flag => wf.flag
GivenUp(n) ==
  /\ job[n] = "none"
  /\ IF n \in converge
     THEN \E p \in Parents(n) : p \in dnr \/ (job[p] \in Final /\ ~Follows(p, n, job[p]))
     ELSE NoWayIn(n, job, template, dnr)
SInv == IInv /\ FlagRead /\ SkippedRightly

(* A node that was rightly given up stays so. *)
LEMMA GivenUpStays ==
  ASSUME Steady, converge' = converge, NEW n \in Nodes, GivenUp(n), job'[n] = "none"
  PROVE  GivenUp(n)'
<1>1. Parents(n)' = Parents(n) /\ Parents(n) \subseteq Nodes
  BY DEF Parents, Steady
<1>2. CASE n \in converge
  <2>1. PICK p \in Parents(n) : p \in dnr \/ (job[p] \in Final /\ ~Follows(p, n, job[p]))
    BY <1>2 DEF GivenUp
  <2>2. (p \in dnr \/ (job[p] \in Final /\ ~Follows(p, n, job[p])))'
    BY <1>1, <2>1 DEF Steady, Follows
  <2>. QED  BY <1>1, <1>2, <2>2 DEF GivenUp
<1>3. CASE n \notin converge
  <2>1. ASSUME NEW p \in Parents(n)
        PROVE  \/ p \in dnr'
               \/ /\ Outcome(p, job', template') \in Final
                  /\ ~Follows(p, n, Outcome(p, job, template))'
    <3>1. p \in dnr \/ (Outcome(p, job, template) \in Final /\ ~Follows(p, n, Outcome(p, job, template)))
      BY <1>3 DEF GivenUp, NoWayIn
    <3>2. CASE p \in dnr
      BY <3>2 DEF Steady
    <3>3. CASE Outcome(p, job, template) \in Final /\ ~Follows(p, n, Outcome(p, job, template))
      <4>1. Outcome(p, job', template') = Outcome(p, job, template)
        BY <1>1, <3>3, OutcomeStays
      <4>. QED  BY <3>3, <4>1 DEF Steady, Follows
    <3>. QED  BY <3>1, <3>2, <3>3
  <2>. QED  BY <1>1, <1>3, <2>1 DEF GivenUp, NoWayIn
<1>. QED  BY <1>2, <1>3

LEMMA SkippedStays ==
  ASSUME TypeOK, SkippedRightly, Steady, UNCHANGED <<converge, dnr>>, wf.flag => wf'.flag,
         \A n \in Nodes : job[n] = "none" => job'[n] = "none"
  PROVE  SkippedRightly'
<1>. SUFFICES ASSUME ~wf'.flag, NEW n \in dnr'  PROVE GivenUp(n)'
  BY DEF SkippedRightly, GivenUp
<1>1. n \in Nodes /\ n \in dnr
  BY DEF TypeOK
<1>2. GivenUp(n)
  BY <1>1 DEF SkippedRightly, GivenUp
<1>. QED  BY <1>1, <1>2, GivenUpStays DEF GivenUp

(* What a cycle gives up, it gives up for what it saw, which is final. *)
LEMMA RunCycleGivesUp ==
  ASSUME TypeOK, RunCycle, Steady
  PROVE  /\ \A n \in dnr' \ dnr : GivenUp(n)'
         /\ \A n \in dnr' : job[n] = "none" => job'[n] = "none"
<1>1. PICK view \in Views, tmpl \in SUBSET Nodes :
        /\ template \subseteq tmpl /\ dnr' \subseteq Nodes
        /\ \A n \in dnr' \ dnr : view[n] = "none" /\ MarksNode(n, view, tmpl, dnr')
        /\ Commit(view, tmpl, dnr')
  BY RunCycleIs
<1>2. UNCHANGED <<edge, converge, template>>
  BY DEF RunCycle, graph
<1>3. \A n \in dnr' : job'[n] = job[n]
  <2>1. \A n \in dnr' : n \notin ToRun(view, tmpl, dnr')
    BY DEF ToRun
  <2>. QED  BY <1>1, <2>1 DEF Commit, Spawn, TypeOK
<1>4. ASSUME NEW n \in dnr' \ dnr  PROVE GivenUp(n)'
  <2>1. n \in Nodes /\ view[n] = "none" /\ MarksNode(n, view, tmpl, dnr')
    BY <1>1
  <2>2. job'[n] = "none"
    BY <1>3, <2>1, ViewIs
  <2>3. Parents(n)' = Parents(n) /\ Parents(n) \subseteq Nodes
    BY <1>2 DEF Parents
  <2>4. CASE n \in converge
    <3>1. PICK p \in Parents(n) :
            p \in dnr' \/ (view[p] \in {"successful", "failed"} /\ ~Follows(p, n, view[p]))
      BY <2>1, <2>4 DEF MarksNode, CriteriaMet
    <3>2. view[p] \in Final => job'[p] = view[p]
      BY <2>3, <3>1, ViewIs DEF Steady, Final
    <3>3. (p \in dnr \/ (job[p] \in Final /\ ~Follows(p, n, job[p])))'
      BY <1>2, <3>1, <3>2 DEF Final, Follows
    <3>. QED  BY <1>2, <2>2, <2>3, <2>4, <3>3 DEF GivenUp
  <2>5. CASE n \notin converge
    <3>1. NoWayIn(n, view, tmpl, dnr')
      BY <2>1, <2>5 DEF MarksNode
    <3>2. ASSUME NEW p \in Parents(n), p \notin dnr'
          PROVE  Outcome(p, job', template') \in Final /\ ~Follows(p, n, Outcome(p, job, template))'
      <4>1. Outcome(p, view, tmpl) \in Final /\ ~Follows(p, n, Outcome(p, view, tmpl))
        BY <3>1, <3>2 DEF NoWayIn
      <4>2. Outcome(p, job, template) = Outcome(p, view, tmpl)
        BY <1>1, <2>3, <4>1, OutcomeIs
      <4>3. Outcome(p, job', template') = Outcome(p, view, tmpl)
        BY <2>3, <4>1, <4>2, OutcomeStays
      <4>. QED  BY <1>2, <4>1, <4>3 DEF Follows
    <3>. QED  BY <1>2, <2>2, <2>3, <2>5, <3>2 DEF GivenUp, NoWayIn
  <2>. QED  BY <2>4, <2>5
<1>. QED  BY <1>3, <1>4

LEMMA RunCycleSkips ==
  ASSUME SInv, RunCycle, Steady
  PROVE  SkippedRightly'
<1>1. TypeOK /\ UNCHANGED converge /\ (wf'.flag = wf.flag)
  BY DEF SInv, IInv, TypeOK, RunCycle, graph, Commit
<1>2. ASSUME ~wf'.flag, NEW n \in dnr'  PROVE GivenUp(n)'
  <2>1. CASE n \in dnr
    <3>1. n \in Nodes /\ GivenUp(n)
      BY <1>1, <1>2, <2>1 DEF SInv, SkippedRightly, GivenUp, TypeOK
    <3>2. job'[n] = "none"
      BY <1>1, <1>2, <3>1, RunCycleGivesUp DEF GivenUp
    <3>. QED  BY <1>1, <3>1, <3>2, GivenUpStays
  <2>2. CASE n \notin dnr
    BY <1>1, <1>2, <2>2, RunCycleGivesUp
  <2>. QED  BY <2>1, <2>2
<1>. QED  BY <1>2 DEF SkippedRightly, GivenUp

LEMMA FlagReadStays ==
  ASSUME TypeOK, FlagRead, [Next]_vars
  PROVE  FlagRead'
BY DEF TypeOK, FlagRead, NoCycle, Commit, Next, vars, Start, BeginCycle, RunCycle, CancelCycle,
       AbortCycle, Load, SaveFlag, SaveCanceled, StartJob, EndJob, DeleteTemplate

LEMMA SkipInvariance ==
  ASSUME SInv, [Next]_vars
  PROVE  SInv'
<1>1. IInv' /\ Steady
  BY Invariance DEF SInv
<1>2. FlagRead'
  BY FlagReadStays DEF SInv, IInv
<1>3. SkippedRightly'
  <2>1. CASE RunCycle
    BY <1>1, <2>1, RunCycleSkips
  <2>2. CASE CancelCycle
    <3>1. wf'.flag
      BY <2>2 DEF SInv, IInv, TypeOK, FlagRead, CancelCycle
    <3>. QED  BY <3>1 DEF SkippedRightly
  <2>3. CASE UNCHANGED vars \/ (Next /\ ~RunCycle /\ ~CancelCycle)
    <3>1. /\ UNCHANGED <<converge, dnr>> /\ (wf.flag => wf'.flag)
          /\ \A n \in Nodes : job[n] = "none" => job'[n] = "none"
      BY <2>3 DEF SInv, IInv, TypeOK, graph, Next, vars, Start, BeginCycle, AbortCycle, Load, SaveFlag,
                  SaveCanceled, StartJob, EndJob, DeleteTemplate
    <3>. QED  BY <1>1, <3>1, SkippedStays DEF SInv, IInv
  <2>. QED  BY <2>1, <2>2, <2>3
<1>. QED  BY <1>1, <1>2, <1>3 DEF SInv

LEMMA SkipInvariant == Spec => []SInv
<1>1. Init => SInv
  BY InitHolds DEF Init, NoCycle, SInv, FlagRead, SkippedRightly
<1>. QED  BY <1>1, SkipInvariance, PTL DEF Spec

-----------------------------------------------------------------------------
(* The promise of WorkflowPromise, step by step. Its marks need no job, a cycle goes
   on only in a workflow that runs or was called canceled, and a user calls it
   canceled only after the flag.                                             *)

Marked == \A n \in dnr : job[n] = "none"
PInv ==
  /\ IInv /\ FlagRead /\ Marked
  /\ cycle.on => wf.status \in {"running", "canceled"}
  /\ user = "flagged" => wf.flag

LEMMA PromiseInvariance ==
  ASSUME PInv, [Next]_vars
  PROVE  PInv' /\ Steady
<1>. USE DEF PInv
<1>1. IInv' /\ Steady
  BY Invariance
<1>2. FlagRead'
  BY FlagReadStays DEF IInv
<1>3. Marked'
  <2>1. CASE RunCycle
    <3>1. \A n \in dnr' \ dnr : job'[n] = "none"
      BY <1>1, <2>1, RunCycleGivesUp DEF IInv, GivenUp
    <3>2. \A n \in dnr' : job[n] = "none" => job'[n] = "none"
      BY <1>1, <2>1, RunCycleGivesUp DEF IInv
    <3>. QED  BY <3>1, <3>2 DEF Marked
  <2>2. CASE CancelCycle
    BY <2>2, CancelCycleMarks DEF IInv, Marked
  <2>3. CASE UNCHANGED vars \/ (Next /\ ~RunCycle /\ ~CancelCycle)
    <3>1. dnr' = dnr /\ \A n \in Nodes : job[n] = "none" => job'[n] = "none"
      BY <2>3 DEF IInv, TypeOK, Next, vars, Start, BeginCycle, AbortCycle, Load, SaveFlag,
                  SaveCanceled, StartJob, EndJob, DeleteTemplate
    <3>. QED  BY <3>1 DEF IInv, TypeOK, Marked
  <2>. QED  BY <2>1, <2>2, <2>3
<1>4. (cycle.on => wf.status \in {"running", "canceled"})'
  BY DEF IInv, TypeOK, NoCycle, Next, vars, Start, BeginCycle, RunCycle, CancelCycle, AbortCycle,
         Load, SaveFlag, SaveCanceled, StartJob, EndJob, DeleteTemplate
<1>5. (user = "flagged" => wf.flag)'
  BY DEF IInv, TypeOK, Commit, Next, vars, Start, BeginCycle, RunCycle, CancelCycle, AbortCycle,
         Load, SaveFlag, SaveCanceled, StartJob, EndJob, DeleteTemplate
<1>. QED  BY <1>1, <1>2, <1>3, <1>4, <1>5

(* A parent's end, and where it leads, are the same seen through its fate. *)
LEMMA PromiseLeads ==
  ASSUME TypeOK', NEW p \in Nodes, NEW n \in Nodes
  PROVE  /\ Promise!Parents(n)' = Parents(n)' /\ Parents(n)' \subseteq Nodes
         /\ Promise!End(p)' \in Final <=> Outcome(p, job, template)' \in Final
         /\ Promise!Leads(p, n)' <=> Follows(p, n, Outcome(p, job, template))'
<1>1. job'[p] \in JobStatus
  BY DEF TypeOK
<1>2. \/ Promise!End(p)' = Outcome(p, job, template)'
      \/ Promise!End(p)' \notin Final /\ Outcome(p, job, template)' \notin Final
  <2>1. CASE job'[p] = "none"
    BY <2>1 DEF Promise!End, Outcome, Fate, Final
  <2>2. CASE job'[p] # "none"
    BY <2>2 DEF Promise!End, Outcome, Fate, Final
  <2>. QED  BY <2>1, <2>2
<1>3. Promise!Leads(p, n)' <=> Follows(p, n, Promise!End(p))'
  BY DEF Promise!Leads, Promise!Final, Follows, Final
<1>4. Follows(p, n, Promise!End(p))' <=> Follows(p, n, Outcome(p, job, template))'
  BY <1>2 DEF Follows, Final
<1>5. Promise!Parents(n)' = Parents(n)' /\ Parents(n)' \subseteq Nodes
  BY DEF Promise!Parents, Parents
<1>. QED  BY <1>2, <1>3, <1>4, <1>5

LEMMA PromiseReached ==
  ASSUME TypeOK', Marked', NEW n \in Nodes, n \in Roots' \/ Reached(n)'
  PROVE  Promise!Reached(n)'
<1>1. CASE n \in Roots'
  BY <1>1, PromiseLeads DEF Roots, Promise!Reached
<1>2. CASE Reached(n)'
  <2>1. ASSUME NEW p \in Parents(n)'
        PROVE  Fate(p)' \in Final \cup {"skipped"} \/ p \notin template'
    <3>1. p \in Nodes /\ Decided(p)'
      BY <1>2, <2>1 DEF Reached, Parents
    <3>. QED  BY <3>1 DEF Decided, Fate, Marked, Final
  <2>2. PICK p \in Parents(n)' : Follows(p, n, Outcome(p, job, template))'
    BY <1>2 DEF Reached
  <2>3. Promise!Leads(p, n)'
    BY <2>2, PromiseLeads
  <2>. QED  BY <2>1, <2>2, <2>3, PromiseLeads DEF Promise!Reached, Promise!Final, Final
<1>. QED  BY <1>1, <1>2

LEMMA PromiseOutOfReach ==
  ASSUME TypeOK', Marked', NEW n \in Nodes, GivenUp(n)'
  PROVE  Promise!OutOfReach(n)'
<1>1. \A p \in Parents(n)' : p \in Nodes /\ (p \in dnr' => Fate(p)' = "skipped")
  BY DEF Marked, Fate, Parents
<1>2. CASE n \in converge'
  <2>1. PICK p \in Parents(n)' : (p \in dnr \/ (job[p] \in Final /\ ~Follows(p, n, job[p])))'
    BY <1>2 DEF GivenUp
  <2>2. CASE p \in dnr'
    BY <1>1, <1>2, <2>1, <2>2, PromiseLeads DEF Promise!OutOfReach
  <2>3. CASE (job[p] \in Final /\ ~Follows(p, n, job[p]))'
    <3>1. Fate(p)' \in Final /\ Outcome(p, job, template)' = job'[p]
      BY <2>3 DEF Fate, Outcome, Final
    <3>2. ~Promise!Leads(p, n)'
      BY <1>1, <2>1, <2>3, <3>1, PromiseLeads DEF Follows
    <3>. QED  BY <1>1, <1>2, <2>1, <3>1, <3>2, PromiseLeads DEF Promise!OutOfReach, Promise!Final, Final
  <2>. QED  BY <2>1, <2>2, <2>3
<1>3. CASE n \notin converge'
  <2>1. ASSUME NEW p \in Parents(n)', Fate(p)' # "skipped"
        PROVE  Promise!End(p)' \in Final /\ ~Promise!Leads(p, n)'
    <3>1. (Outcome(p, job, template) \in Final /\ ~Follows(p, n, Outcome(p, job, template)))'
      BY <1>1, <1>3, <2>1 DEF GivenUp, NoWayIn
    <3>. QED  BY <1>1, <3>1, PromiseLeads
  <2>. QED  BY <1>1, <1>3, <2>1, PromiseLeads DEF Promise!OutOfReach, Promise!Final, Final
<1>. QED  BY <1>2, <1>3

(* The fates as the function that the promise is about. *)
fates == [n \in Nodes |-> Fate(n)]
promised == <<graph, template, fates, wf.status, wf.flag>>

LEMMA FateIs ==
  ASSUME TypeOK', NEW n \in Nodes
  PROVE  Fate(n)' \in Promise!Fates
BY DEF TypeOK, JobStatus, Fate, Promise!Fates, Promise!Final, Final

(* What a step of the manager leaves as it is, its fate stays; a node without a job
   and mark before is run behind its parents, or marked for its parents. *)
LEMMA FateStays ==
  ASSUME NEW n \in Nodes, UNCHANGED <<job[n], dnr>> \/ (job'[n] = job[n] /\ job[n] # "none")
  PROVE  Fate(n)' = Fate(n)
BY DEF Fate

LEMMA PromiseRun ==
  ASSUME PInv', NEW n \in Nodes, n \in template, n \notin dnr, job[n] = "none",
         job'[n] \in {"pending", "failed"}
  PROVE  Promise!Run(n)
<1>1. n \in Roots' \/ Reached(n)'
  BY DEF PInv, IInv, OnlyReached, Reached
<1>2. Promise!Reached(n)'
  BY <1>1, PromiseReached DEF PInv, IInv
<1>3. Fate(n) = "open" /\ Fate(n)' \in {"at work", "failed"}
  BY DEF Fate, Final
<1>. QED  BY <1>2, <1>3 DEF Promise!Run

LEMMA PromiseAdvance ==
  ASSUME PInv, PInv', Steady, RunCycle
  PROVE  Promise!Advance \/ Promise!Finish
<1>. USE DEF PInv, IInv
<1>1. PICK view \in Views, tmpl \in SUBSET Nodes :
        template \subseteq tmpl /\ dnr \subseteq dnr' /\ Commit(view, tmpl, dnr')
  BY RunCycleIs
<1>. DEFINE run == ToRun(view, tmpl, dnr')
<1>2. UNCHANGED <<graph, template, wf.flag>> /\ wf.status \in {"running", "canceled"}
  BY <1>1 DEF RunCycle, Commit, TypeOK
<1>3. ASSUME NEW n \in Nodes, job'[n] = job[n]
      PROVE  Promise!Stays(n) \/ (Promise!Skip(n) /\ Promise!OutOfReach(n)')
  <2>1. CASE n \in dnr' \ dnr
    <3>1. GivenUp(n)' /\ job'[n] = "none"
      BY <2>1, RunCycleGivesUp DEF GivenUp
    <3>2. Promise!OutOfReach(n)'
      BY <3>1, PromiseOutOfReach
    <3>. QED  BY <1>3, <2>1, <3>1, <3>2 DEF Promise!Skip, Fate
  <2>2. CASE n \notin dnr' \ dnr
    BY <1>1, <1>3, <2>2 DEF Promise!Stays, Fate
  <2>. QED  BY <2>1, <2>2
<1>4. fates' \in [Nodes -> Promise!Fates]
  BY FateIs DEF fates
<1>5. CASE UNCHANGED wf
  <2>1. ASSUME NEW n \in Nodes, job'[n] # job[n]
        PROVE  Promise!Run(n)
    <3>1. n \in run /\ run \subseteq template /\ job'[n] \in {"pending", "failed"}
      BY <1>1, <2>1 DEF Commit, Spawn, TypeOK
    <3>2. n \notin dnr' /\ view[n] = "none"
      BY <3>1 DEF ToRun
    <3>3. job[n] = "none" /\ n \notin dnr
      BY <1>1, <3>2, ViewIs
    <3>. QED  BY <3>1, <3>3, PromiseRun
  <2>. QED  BY <1>2, <1>3, <1>4, <1>5, <2>1 DEF Promise!Advance, graph, Promise!graph, fates
<1>6. CASE /\ job' = job
           /\ wf' = [wf EXCEPT !.status = IF HasFailed(view, tmpl, dnr') THEN "failed"
                                          ELSE "successful"]
  <2>1. \A n \in Nodes : Promise!Over(n)'
    <3>1. wf'.status \in {"successful", "failed"}
      BY <1>6 DEF TypeOK
    <3>. QED  BY <3>1 DEF EndsRightly, Promise!Over, Promise!Final, Final, Fate
  <2>2. CASE HasFailed(view, tmpl, dnr')
    <3>1. PICK n \in Nodes :
            /\ (n \notin dnr' /\ n \notin tmpl) \/ view[n] \in Final \ {"successful"}
            /\ \A c \in Nodes : edge[n][c] \notin {"failure", "always"}
      BY <2>2 DEF HasFailed
    <3>2. ~Promise!Caught(n)'
      BY <1>2, <3>1 DEF Promise!Caught, graph
    <3>3. Fate(n)' # "skipped" /\ (Fate(n)' # "successful" \/ n \notin template')
      <4>1. CASE n \notin dnr' /\ n \notin tmpl
        BY <1>1, <1>2, <4>1 DEF Fate, TypeOK, JobStatus, Final
      <4>2. CASE view[n] \in Final \ {"successful"}
        <5>1. job'[n] = view[n]
          BY <1>6, <4>2, ViewIs DEF Final
        <5>. QED  BY <4>2, <5>1 DEF Fate, Final
      <4>. QED  BY <3>1, <4>1, <4>2
    <3>4. wf'.status = "failed"
      BY <1>6, <2>2 DEF TypeOK
    <3>. QED  BY <1>2, <1>3, <1>4, <1>6, <2>1, <3>2, <3>3, <3>4
              DEF Promise!Finish, Promise!Caught, graph, Promise!graph, fates
  <2>3. CASE ~HasFailed(view, tmpl, dnr')
    <3>1. wf'.status = "successful"
      BY <1>6, <2>3 DEF TypeOK
    <3>2. \A n \in Nodes : Fate(n)' \in {"successful", "skipped"} \/ Promise!Caught(n)'
      BY <3>1 DEF EndsRightly, Marked, Fate, Promise!Caught, Final
    <3>. QED  BY <1>2, <1>3, <1>4, <1>6, <2>1, <3>1, <3>2
              DEF Promise!Finish, Promise!Caught, graph, Promise!graph, fates
  <2>. QED  BY <2>2, <2>3
<1>. QED  BY <1>1, <1>5, <1>6 DEF Commit

LEMMA PromiseGiveUp ==
  ASSUME PInv, PInv', Steady, CancelCycle
  PROVE  Promise!GiveUp
<1>0. TypeOK
  BY DEF PInv, IInv
<1>1. PICK view \in Views, tmpl \in SUBSET Nodes, run \in SUBSET Nodes :
        /\ run \subseteq ToRun([n \in Nodes |-> Canceled(view[n])], tmpl, dnr)
        /\ dnr' = (dnr \cup {n \in Nodes : job[n] = "none"}) \ run
        /\ Spawn(run, [n \in Nodes |-> Canceled(job[n])])
        /\ \/ wf' = wf
           \/ wf' = [wf EXCEPT !.status = "canceled"] /\ run = {}
              /\ \A n \in Nodes : ~CanCancel(view[n])
  BY <1>0, CancelCycleIs
<1>2. /\ \A n \in run : n \notin dnr /\ n \in tmpl /\ n \in template /\ job[n] = "none"
      /\ job' \in [Nodes -> JobStatus]
      /\ \A n \in Nodes \ run : job'[n] = Canceled(job[n])
      /\ \A n \in run : job'[n] \in {"pending", "failed"}
  BY <1>0, <1>1, CancelCycleRuns
<1>. USE DEF PInv, IInv
<1>3. wf.flag /\ UNCHANGED <<graph, template, wf.flag>> /\ wf.status \in {"running", "canceled"}
  BY <1>1 DEF CancelCycle, FlagRead, TypeOK
<1>4. fates' \in [Nodes -> Promise!Fates]
  BY FateIs DEF fates
<1>5. ASSUME NEW n \in Nodes
      PROVE  Promise!Stays(n) \/ Promise!Skip(n) \/ Promise!Run(n) \/ Promise!StopsAt(n)
  <2>1. CASE n \in run
    BY <1>2, <2>1, PromiseRun
  <2>2. CASE n \notin run /\ job[n] = "none"
    BY <1>1, <1>2, <2>2 DEF Fate, Canceled, Promise!Stays, Promise!Skip
  <2>3. CASE n \notin run /\ job[n] = "pending"
    BY <1>2, <2>3 DEF Fate, Canceled, Final, Promise!StopsAt
  <2>4. CASE n \notin run /\ job[n] \notin {"none", "pending"}
    BY <1>2, <2>4 DEF Fate, Canceled, Promise!Stays
  <2>. QED  BY <2>1, <2>2, <2>3, <2>4
<1>6. CASE wf' = wf
  BY <1>3, <1>4, <1>5, <1>6 DEF Promise!GiveUp, graph, Promise!graph, fates
<1>7. CASE /\ wf' = [wf EXCEPT !.status = "canceled"] /\ run = {}
           /\ \A n \in Nodes : ~CanCancel(view[n])
  <2>1. wf'.status = "canceled"
    BY <1>7 DEF TypeOK
  <2>2. ASSUME NEW n \in Nodes
        PROVE  Fate(n) # "at work" /\ Fate(n)' \notin {"open", "at work"}
    <3>1. job[n] \in Final \cup {"none"}
      BY <1>7, ViewIs DEF CanCancel, JobStatus, Final, TypeOK
    <3>2. job'[n] = job[n] /\ (job[n] = "none" => n \in dnr')
      BY <1>1, <1>2, <1>7, <3>1 DEF Canceled, Final
    <3>. QED  BY <3>1, <3>2 DEF Fate, Final
  <2>. QED  BY <1>3, <1>4, <1>5, <2>1, <2>2 DEF Promise!GiveUp, graph, Promise!graph, fates
<1>. QED  BY <1>1, <1>6, <1>7

(* Every other step moves one job, one template or the workflow's own row. *)
LEMMA PromiseOthers ==
  ASSUME PInv, PInv', [Next]_vars, ~RunCycle, ~CancelCycle
  PROVE  [Promise!PromiseNext]_promised
<1>. USE DEF PInv, IInv
<1>1. CASE UNCHANGED <<graph, template, dnr, job, wf>>
  BY <1>1 DEF promised, fates, Fate
<1>2. CASE Start
  <2>1. Promise!Start
    BY <1>2 DEF Start, TypeOK, Promise!Start, graph, Promise!graph, Fate
  <2>. QED  BY <2>1 DEF Promise!PromiseNext
<1>3. CASE SaveFlag
  <2>1. Promise!Ask
    BY <1>3 DEF SaveFlag, TypeOK, Promise!Ask, graph, Promise!graph, Fate
  <2>. QED  BY <2>1 DEF Promise!PromiseNext
<1>4. CASE SaveCanceled
  <2>1. Promise!Override
    BY <1>4 DEF SaveCanceled, TypeOK, Promise!Override, graph, Promise!graph, Fate
  <2>. QED  BY <2>1 DEF Promise!PromiseNext
<1>5. ASSUME NEW n \in Nodes, DeleteTemplate(n)
      PROVE  Promise!PromiseNext
  <2>1. Promise!DeleteTemplate(n)
    BY <1>5 DEF DeleteTemplate, Promise!DeleteTemplate, graph, Promise!graph, Fate
  <2>. QED  BY <2>1 DEF Promise!PromiseNext
<1>6. ASSUME NEW n \in Nodes, EndJob(n)
      PROVE  Promise!PromiseNext
  <2>1. PICK o \in Outcomes : job' = [job EXCEPT ![n] = o] /\ o \in Final
    BY <1>6, WorkflowAssumption DEF EndJob
  <2>2. Fate(n) = "at work" /\ Fate(n)' = o
    BY <1>6, <2>1 DEF EndJob, TypeOK, Fate, Final
  <2>3. \A i \in Nodes \ {n} : Fate(i)' = Fate(i)
    BY <1>6, <2>1 DEF EndJob, TypeOK, Fate
  <2>4. fates' = [fates EXCEPT ![n] = o]
    BY <2>2, <2>3 DEF fates
  <2>5. Promise!JobEnds(n)
    BY <1>6, <2>1, <2>2, <2>4 DEF EndJob, Promise!JobEnds, Promise!Final, Final, graph,
                                  Promise!graph, fates
  <2>. QED  BY <2>5 DEF Promise!PromiseNext
<1>7. ASSUME NEW n \in Nodes, StartJob(n)
      PROVE  UNCHANGED promised
  <2>1. \A i \in Nodes : Fate(i)' = Fate(i)
    BY <1>7 DEF StartJob, TypeOK, Fate, Final
  <2>. QED  BY <1>7, <2>1 DEF StartJob, promised, fates
<1>8. CASE BeginCycle \/ AbortCycle \/ Load
  BY <1>1, <1>8 DEF BeginCycle, AbortCycle, Load
<1>9. CASE UNCHANGED vars
  BY <1>1, <1>9 DEF vars, graph
<1>. QED  BY <1>2, <1>3, <1>4, <1>5, <1>6, <1>7, <1>8, <1>9 DEF Next

LEMMA PromiseStep ==
  ASSUME PInv, PInv', [Next]_vars
  PROVE  [Promise!PromiseNext]_promised
<1>1. Steady
  BY PromiseInvariance
<1>2. CASE RunCycle
  BY <1>1, <1>2, PromiseAdvance DEF Promise!PromiseNext
<1>3. CASE CancelCycle
  BY <1>1, <1>3, PromiseGiveUp DEF Promise!PromiseNext
<1>. QED  BY <1>2, <1>3, PromiseOthers

LEMMA PromiseBegins ==
  ASSUME Init
  PROVE  Promise!PromiseInit /\ PInv
<1>1. PInv
  BY InitHolds DEF Init, NoCycle, PInv, FlagRead, Marked
<1>2. Promise!PromiseInit
  BY DEF Init, Promise!PromiseInit, Promise!Parents, Parents, Fate
<1>. QED  BY <1>1, <1>2

-----------------------------------------------------------------------------
(* Every variable keeps its type: the marks are nodes, only a job that exists
   is told to stop (dag_workflow.py 116-127, 233-251). *)
THEOREM TypeCorrect == Spec => []TypeOK
<1>1. IInv => TypeOK
  BY DEF IInv
<1>. QED  BY <1>1, Inductive, PTL

(* For every DAG: a job is spawned only behind a parent that ended in a way its
   link asks for, when every parent is decided, however jobs, users and templates
   change while the cycle goes on (dag_workflow.py 49-114). *)
THEOREM OnlyReachedAlways == Spec => []OnlyReached
<1>1. IInv => OnlyReached
  BY DEF IInv
<1>. QED  BY <1>1, Inductive, PTL

(* For every DAG: a workflow is called successful or failed only when nothing of it
   runs or can still run, and successful only if each failure had somewhere to go
   (dag_workflow.py 129-175). *)
THEOREM EndsRightlyAlways == Spec => []EndsRightly
<1>1. IInv => EndsRightly
  BY DEF IInv
<1>. QED  BY <1>1, Inductive, PTL

(* For every DAG: a node is given up only if it can no longer be reached, however
   jobs, users and templates change under the cycle (dag_workflow.py 204-251). *)
THEOREM SkippedRightlyAlways == Spec => []SkippedRightly
<1>1. SInv => SkippedRightly
  BY DEF SInv
<1>. QED  BY <1>1, SkipInvariant, PTL

(* For every DAG: the manager keeps WorkflowPromise. Whatever a cycle sees of jobs,
   templates and users that go on, each of its steps gives up or runs nodes once and
   for a reason that stands at that moment, and ends the workflow only when it is over
   (task_manager.py 171-283, dag_workflow.py 87-251). *)
THEOREM KeepsPromiseAlways == Spec => KeepsPromise
<1>1. Init => Promise!PromiseInit /\ PInv
  BY PromiseBegins
<1>2. PInv /\ [Next]_vars => PInv'
  BY PromiseInvariance
<1>3. PInv /\ PInv' /\ [Next]_vars => [Promise!PromiseNext]_(Promise!promiseVars)
  BY PromiseStep DEF promised, fates, graph, Promise!promiseVars
<1>. QED  BY <1>1, <1>2, <1>3, PTL DEF Spec, KeepsPromise, Promise!PromiseSpec
=============================================================================
