-------------------------- MODULE WorkflowManager --------------------------
(***************************************************************************)
(* One running workflow job: the manager's cycle (scheduler/task_manager.py *)
(* WorkflowManager) over its DAG (scheduler/dag_workflow.py), next to the  *)
(* jobs it has spawned, users who cancel the workflow or a job of it, and  *)
(* templates that are deleted. A cycle reads the nodes, looks at their jobs *)
(* at any time later, and commits.                                         *)
(***************************************************************************)
EXTENDS Naturals, FiniteSets

CONSTANTS
  Nodes,
  Graphs,      \* the DAGs: the label of the link from one node to another
  Outcomes,    \* statuses in which a job may end
  MaxDeletes   \* bound: how many nodes may lose their template

Labels == {"success", "failure", "always"}
Final  == {"successful", "failed", "error", "canceled"}

ASSUME WorkflowAssumption ==
  /\ IsFiniteSet(Nodes) /\ MaxDeletes \in Nat
  /\ Outcomes \subseteq Final
  /\ Graphs \subseteq [Nodes -> [Nodes -> Labels \cup {"none"}]]

VARIABLES
  edge,      \* the links between nodes
  converge,  \* nodes with all_parents_must_converge
  template,  \* nodes whose unified_job_template exists
  dnr,       \* nodes with do_not_run
  job,       \* status of each node's job, "none" if it has none
  stopping,  \* nodes whose job has a cancel_flag
  wf,        \* status and cancel_flag of the workflow job
  cycle,     \* what the manager's cycle has read
  user       \* progress of a user's cancel of the workflow

graph == <<edge, converge>>
vars == <<edge, converge, template, dnr, job, stopping, wf, cycle, user>>

NoCycle == [on |-> FALSE, flag |-> FALSE, ended |-> {}, template |-> {}]

Parents(n) == {p \in Nodes : edge[p][n] # "none"}
Roots == {n \in Nodes : Parents(n) = {}}

Init ==
  /\ edge \in Graphs /\ converge \in SUBSET {n \in Nodes : Parents(n) # {}}
  /\ template = Nodes /\ dnr = {} /\ job = [n \in Nodes |-> "none"] /\ stopping = {}
  /\ wf = [status |-> "pending", flag |-> FALSE]
  /\ cycle = NoCycle /\ user = "idle"

-----------------------------------------------------------------------------
(* The DAG's answers, given what the cycle sees of the nodes: the statuses  *)
(* of their jobs, the templates and the marks.                             *)

\* The link p -> n is the one to follow after a job ended like this; a node
\* that lost its template before it had a job counts as failed.
Follows(p, n, status) ==
  \/ status = "successful" /\ edge[p][n] \in {"success", "always"}
  \/ status \in Final \ {"successful"} /\ edge[p][n] \in {"failure", "always"}
Outcome(p, view, tmpl) == IF view[p] = "none" /\ p \notin tmpl THEN "failed" ELSE view[p]

\* _are_relevant_parents_finished
ParentsFinished_anyState(n, view, tmpl, marks) == TRUE
ParentsFinished(n, view, tmpl, marks) ==
  \A p \in Parents(n) : p \in marks \/ p \notin tmpl \/ view[p] \in Final

\* _all_parents_met_convergence_criteria
CriteriaMet(n, view) ==
  \A p \in Parents(n) : view[p] \in {"successful", "failed"} => Follows(p, n, view[p])

\* _are_all_nodes_dnr_decided
ParentsDecided(n, view, tmpl, marks) ==
  \A p \in Parents(n) : p \in marks \/ p \notin tmpl \/ view[p] # "none"

\* _should_mark_node_dnr: no parent leads here, or still may.
NoWayIn_skippedToo(n, view, tmpl, marks) ==
  \A p \in Parents(n) :
    Outcome(p, view, tmpl) \in Final /\ ~Follows(p, n, Outcome(p, view, tmpl))
NoWayIn(n, view, tmpl, marks) ==
  \A p \in Parents(n) :
    \/ p \in marks
    \/ Outcome(p, view, tmpl) \in Final /\ ~Follows(p, n, Outcome(p, view, tmpl))

\* mark_dnr_nodes visits the nodes parents first, so that the marks are the set
\* that agrees with itself.
MarksNode(n, view, tmpl, marks) ==
  IF n \in converge
  THEN (\E p \in Parents(n) : p \in marks) \/ ~CriteriaMet(n, view)
  ELSE ParentsDecided(n, view, tmpl, marks) /\ NoWayIn(n, view, tmpl, marks)

\* bfs_nodes_to_run goes from the roots along the links to follow: it comes to the
\* nodes that no set which holds the roots and is left by no such link lacks.
Visited(view, tmpl, marks) ==
  LET Closed(V) == Roots \subseteq V /\ \A p \in V \ marks, n \in Nodes \ V :
                     ~Follows(p, n, Outcome(p, view, tmpl))
  IN {n \in Nodes : \A V \in SUBSET (Nodes \ {n}) : ~Closed(V)}

ToRun_endedToo(view, tmpl, marks) ==
  {n \in Visited(view, tmpl, marks) :
     /\ n \notin marks /\ view[n] \in Final \cup {"none"} /\ n \in tmpl
     /\ ParentsFinished(n, view, tmpl, marks)
     /\ n \in converge => CriteriaMet(n, view)}
ToRun(view, tmpl, marks) ==
  {n \in Visited(view, tmpl, marks) :
     /\ n \notin marks /\ view[n] = "none" /\ n \in tmpl
     /\ ParentsFinished(n, view, tmpl, marks)
     /\ n \in converge => CriteriaMet(n, view)}

\* is_workflow_done
IsDone(view, tmpl, marks) ==
  \A n \in Nodes : IF view[n] = "none" THEN n \in marks \/ n \notin tmpl ELSE view[n] \in Final

\* has_workflow_failed
HasFailed(view, tmpl, marks) ==
  \E n \in Nodes :
    /\ (n \notin marks /\ n \notin tmpl) \/ view[n] \in Final \ {"successful"}
    /\ \A c \in Nodes : edge[n][c] \notin {"failure", "always"}

-----------------------------------------------------------------------------
(* The manager's cycle, one at a time under workflow_manager_lock.          *)

\* The task manager makes a pending workflow running, and gives it a uuid.
Start ==
  /\ wf.status = "pending" /\ wf' = [wf EXCEPT !.status = "running"]
  /\ UNCHANGED <<graph, template, dnr, job, stopping, cycle, user>>

BeginCycle ==
  /\ ~cycle.on /\ wf.status = "running"
  /\ cycle' = [on |-> TRUE, flag |-> wf.flag, template |-> template,
               ended |-> {n \in Nodes : job[n] \in Final}]
  /\ UNCHANGED <<graph, template, dnr, job, stopping, wf, user>>

\* The workflow is read first, its nodes later, and each job once, later still: one
\* that has ended since the cycle began may be seen as active, and a template that
\* was deleted since then may be seen.
Views == LET since == {n \in Nodes \ cycle.ended : job[n] \in Final}
         IN {[n \in Nodes |-> IF n \in early THEN "active" ELSE job[n]] : early \in SUBSET since}

\* Jobs are spawned next to those there are; one that cannot start is failed.
Spawn(run, others) ==
  /\ run \subseteq template
  /\ \E refused \in SUBSET run :
       job' = [n \in Nodes |-> IF n \in refused THEN "failed"
                               ELSE IF n \in run THEN "pending" ELSE others[n]]

\* The workflow is ended, or jobs are spawned.
Commit(view, tmpl, marks) ==
  /\ dnr' = marks
  /\ IF IsDone(view, tmpl, marks)
     THEN /\ wf' = [wf EXCEPT !.status = IF HasFailed(view, tmpl, marks) THEN "failed"
                                         ELSE "successful"]
          /\ UNCHANGED job
     ELSE Spawn(ToRun(view, tmpl, marks), job) /\ UNCHANGED wf

RunCycle ==
  /\ cycle.on /\ ~cycle.flag
  /\ \E view \in Views, late \in SUBSET (cycle.template \ template) :
     LET tmpl == template \cup late
         open == {n \in Nodes \ (dnr \cup Roots) : view[n] = "none"}
     IN \E skip \in SUBSET open :
          /\ skip = {n \in open : MarksNode(n, view, tmpl, dnr \cup skip)}
          /\ Commit(view, tmpl, dnr \cup skip)
  /\ cycle' = NoCycle
  /\ UNCHANGED <<graph, template, stopping, user>>

\* cancel_node_jobs: a pending job has no uuid and is canceled at once, another
\* is told to stop.
CanCancel_withoutJob(status) == status \notin Final
CanCancel_anyJob(status) == status # "none"
CanCancel(status) == status \in {"pending", "active"}
Canceled(status) == IF status = "pending" THEN "canceled" ELSE status

\* Every node without a job is marked in the database. If a job could be canceled
\* the workflow still runs, and the cycle goes on to spawn by the nodes as it read
\* them, not yet marked, and saves the nodes it spawns without the mark.
CancelCycle ==
  /\ cycle.on /\ cycle.flag
  /\ \E view \in Views, late \in SUBSET (cycle.template \ template) :
     LET alive == {n \in Nodes : CanCancel(view[n])}
         seen  == [n \in Nodes |-> Canceled(view[n])]
         run   == IF alive = {} THEN {} ELSE ToRun(seen, template \cup late, dnr)
     IN /\ dnr' = (dnr \cup {n \in Nodes : job[n] = "none"}) \ run
        /\ Spawn(run, [n \in Nodes |-> Canceled(job[n])])
        /\ stopping' = stopping \cup alive
        /\ wf' = IF alive = {} THEN [wf EXCEPT !.status = "canceled"] ELSE wf
  /\ cycle' = NoCycle
  /\ UNCHANGED <<graph, template, user>>

\* SIGUSR1, an error (a template deleted under the cycle), or no time left.
AbortCycle ==
  /\ cycle.on /\ cycle' = NoCycle
  /\ UNCHANGED <<graph, template, dnr, job, stopping, wf, user>>

-----------------------------------------------------------------------------
(* Jobs, users and templates.                                               *)

StartJob(n) ==
  /\ job[n] = "pending" /\ job' = [job EXCEPT ![n] = "active"]
  /\ UNCHANGED <<graph, template, dnr, stopping, wf, cycle, user>>

\* A job ends; an approval, or a job with a failed dependency, without running.
EndJob(n) ==
  /\ job[n] \in {"pending", "active"}
  /\ \E o \in Outcomes : job' = [job EXCEPT ![n] = o]
  /\ UNCHANGED <<graph, template, dnr, stopping, wf, cycle, user>>

DeleteTemplate(n) ==
  /\ n \in template /\ Cardinality(Nodes \ template) < MaxDeletes
  /\ template' = template \ {n}
  /\ UNCHANGED <<graph, dnr, job, stopping, wf, cycle, user>>

\* A user loads the workflow job to cancel it. Its uuid decides whether cancel()
\* also changes the status: cancel_dispatcher_process of a workflow says yes.
Load ==
  /\ user = "idle" /\ wf.status \in {"pending", "running"}
  /\ user' = IF wf.status = "pending" THEN "noUuid" ELSE "uuid"
  /\ UNCHANGED <<graph, template, dnr, job, stopping, wf, cycle>>

SaveFlag ==
  /\ user \in {"noUuid", "uuid"}
  /\ wf' = [wf EXCEPT !.flag = TRUE]
  /\ user' = IF user = "uuid" THEN "done" ELSE "flagged"
  /\ UNCHANGED <<graph, template, dnr, job, stopping, cycle>>

SaveCanceled ==
  /\ user = "flagged"
  /\ wf' = [wf EXCEPT !.status = "canceled"] /\ user' = "done"
  /\ UNCHANGED <<graph, template, dnr, job, stopping, cycle>>

-----------------------------------------------------------------------------
Next ==
  \/ Start \/ BeginCycle \/ RunCycle \/ CancelCycle \/ AbortCycle
  \/ Load \/ SaveFlag \/ SaveCanceled
  \/ \E n \in Nodes : StartJob(n) \/ EndJob(n) \/ DeleteTemplate(n)

\* The manager runs again and again, a cycle ends, and not every one aborts. A job
\* may run for ever unless it is told to stop.
Spec == Init /\ [][Next]_vars
FairSpec ==
  /\ Spec
  /\ WF_vars(BeginCycle) /\ WF_vars(RunCycle \/ CancelCycle \/ AbortCycle)
  /\ SF_vars(RunCycle) /\ SF_vars(CancelCycle)
  /\ \A n \in Nodes : WF_vars(n \in stopping /\ EndJob(n))

-----------------------------------------------------------------------------
(* Properties.                                                              *)

JobStatus == {"none", "pending", "active"} \cup Final

TypeOK ==
  /\ edge \in Graphs /\ converge \subseteq Nodes /\ template \subseteq Nodes
  /\ dnr \subseteq Nodes /\ job \in [Nodes -> JobStatus]
  /\ stopping \subseteq {n \in Nodes : job[n] # "none"}
  /\ wf \in [status : {"pending", "running"} \cup Final, flag : BOOLEAN]
  /\ cycle \in [on : BOOLEAN, flag : BOOLEAN, ended : SUBSET Nodes, template : SUBSET Nodes]
  /\ user \in {"idle", "noUuid", "uuid", "flagged", "done"}

(* A job is spawned only behind a parent that ended in a way its link asks for,
   and only when nothing can still happen at the other parents, although the
   cycle looks at jobs that go on meanwhile (dag_workflow.py 49-114). *)
Decided(p) == p \in dnr \/ p \notin template \/ job[p] \in Final
OnlyReached ==
  \A n \in Nodes \ Roots : job[n] # "none" =>
    /\ \A p \in Parents(n) : Decided(p)
    /\ \E p \in Parents(n) : Follows(p, n, Outcome(p, job, template))

(* A node is given up only if it can no longer be reached: its parents are
   decided and none leads to it, or, if all must, one does not
   (dag_workflow.py 204-251). *)
SkippedRightly ==
  ~wf.flag => \A n \in dnr :
    /\ job[n] = "none"
    /\ IF n \in converge
       THEN \E p \in Parents(n) : p \in dnr \/ (job[p] \in Final /\ ~Follows(p, n, job[p]))
       ELSE NoWayIn(n, job, template, dnr)

(* A workflow is called successful or failed when nothing of it runs or can
   still run, and successful only if each failure in it had somewhere to go
   (dag_workflow.py 129-175, task_manager.py 197-211). *)
EndsRightly ==
  wf.status \in {"successful", "failed"} =>
    /\ \A n \in Nodes :
         \/ job[n] \in Final
         \/ (job[n] = "none" /\ n \in dnr \cup (Nodes \ template))
    /\ wf.status = "successful" =>
         \A n \in Nodes \ dnr : job[n] # "successful" =>
           \E c \in Nodes : edge[n][c] \in {"failure", "always"}

(* A canceled workflow ends although no job would by itself: each is stopped, also
   those that a cycle begun before the cancel still spawns
   (task_manager.py 181-192, dag_workflow.py 116-127). *)
CanceledEnds == wf.flag ~> wf.status # "running"

(* If its jobs end, a workflow does; save that a node all of whose parents must
   converge is neither run nor given up behind a parent that ended in error, was
   canceled or lost its template (task_manager.py 193-227). *)
Wedged ==
  \E n \in converge :
    /\ job[n] = "none" /\ n \notin dnr
    /\ \A p \in Parents(n) : Decided(p)
    /\ \E p \in Parents(n) : job[p] \in {"error", "canceled"} \/ p \notin template
WorkflowEnds ==
  (\A n \in Nodes : []<>(job[n] \notin {"pending", "active"}))
    => (wf.status = "running" ~> wf.status # "running" \/ (Wedged /\ ~wf.flag))

(* models/workflow.py 88: a node with all_parents_must_converge "will only run if
   all of the parent nodes have met the criteria to reach this node". *)
AllConverge ==
  \A n \in converge : job[n] # "none" =>
    \A p \in Parents(n) : p \notin dnr /\ Follows(p, n, Outcome(p, job, template))

(* The manager keeps WorkflowPromise: whatever a cycle sees, every node is run or
   given up once at most and rightly, nothing is taken back, and the workflow is
   called ended when it is (task_manager.py 171-283, dag_workflow.py 87-251). *)
Fate(n) ==
  IF job[n] = "none" THEN (IF n \in dnr THEN "skipped" ELSE "open")
  ELSE IF job[n] \in Final THEN job[n] ELSE "at work"
Promise == INSTANCE WorkflowPromise
             WITH fate <- [n \in Nodes |-> Fate(n)], status <- wf.status, asked <- wf.flag
KeepsPromise == Promise!PromiseSpec
=============================================================================
