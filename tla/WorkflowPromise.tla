-------------------------- MODULE WorkflowPromise --------------------------
(***************************************************************************)
(* What a workflow promises those who watch it, without cycles, views or   *)
(* rows: each node of the graph is given up or run once at most, for a     *)
(* reason that stands when it happens, and the workflow is called ended    *)
(* when nothing of it can happen any more. It does not promise to end.     *)
(***************************************************************************)
CONSTANTS Nodes, Graphs

VARIABLES
  edge,      \* the links between nodes
  converge,  \* nodes that wait for all parents to lead to them
  template,  \* nodes that still have something to run
  fate,      \* what has become of each node
  status,    \* of the workflow
  asked      \* somebody asked to cancel the workflow

graph == <<edge, converge>>
promiseVars == <<edge, converge, template, fate, status, asked>>

Final == {"successful", "failed", "error", "canceled"}
Fates == {"open", "at work", "skipped"} \cup Final

Parents(n) == {p \in Nodes : edge[p][n] # "none"}
Caught(n) == \E c \in Nodes : edge[n][c] \in {"failure", "always"}

\* A node that can run nothing counts as failed.
End(p) == IF fate[p] \in {"open", "skipped"} /\ p \notin template THEN "failed" ELSE fate[p]
Leads(p, n) ==
  \/ End(p) = "successful" /\ edge[p][n] \in {"success", "always"}
  \/ End(p) \in Final \ {"successful"} /\ edge[p][n] \in {"failure", "always"}

Over(n) == fate[n] \in Final \cup {"skipped"} \/ (fate[n] = "open" /\ n \notin template)

\* Every parent is over or can run nothing, and one leads here.
Reached(n) ==
  Parents(n) = {} \/
    /\ \A p \in Parents(n) : fate[p] \in Final \cup {"skipped"} \/ p \notin template
    /\ \E p \in Parents(n) : Leads(p, n)

\* No parent leads here, nor will; or one does not, and all must.
OutOfReach(n) ==
  IF n \in converge
  THEN \E p \in Parents(n) : fate[p] = "skipped" \/ (fate[p] \in Final /\ ~Leads(p, n))
  ELSE \A p \in Parents(n) : fate[p] = "skipped" \/ (End(p) \in Final /\ ~Leads(p, n))

-----------------------------------------------------------------------------
PromiseInit ==
  /\ edge \in Graphs /\ converge \in SUBSET {n \in Nodes : Parents(n) # {}}
  /\ template = Nodes /\ fate = [n \in Nodes |-> "open"]
  /\ status = "pending" /\ asked = FALSE

Stays(n) == fate'[n] = fate[n]
Skip(n) == fate[n] = "open" /\ fate'[n] = "skipped"
Run(n) == fate[n] = "open" /\ fate'[n] \in {"at work", "failed"} /\ n \in template /\ Reached(n)'
StopsAt(n) == fate[n] = "at work" /\ fate'[n] = "canceled"

Start ==
  /\ status = "pending" /\ status' = "running"
  /\ UNCHANGED <<graph, template, fate, asked>>

Advance ==
  /\ status \in {"running", "canceled"}
  /\ fate' \in [Nodes -> Fates]
  /\ \A n \in Nodes : Stays(n) \/ Run(n) \/ (Skip(n) /\ OutOfReach(n)')
  /\ UNCHANGED <<graph, template, status, asked>>

\* Nothing can happen any more. A failure that nothing catches makes it a failure, and
\* so does a node that has lost its template, even after it was run.
Finish ==
  /\ status \in {"running", "canceled"}
  /\ fate' \in [Nodes -> Fates]
  /\ \A n \in Nodes : Stays(n) \/ (Skip(n) /\ OutOfReach(n)')
  /\ \A n \in Nodes : Over(n)'
  /\ \/ /\ status' = "successful"
        /\ \A n \in Nodes : fate'[n] \in {"successful", "skipped"} \/ Caught(n)
     \/ /\ status' = "failed"
        /\ \E n \in Nodes : /\ ~Caught(n) /\ fate'[n] # "skipped"
                            /\ (fate'[n] # "successful" \/ n \notin template)
  /\ UNCHANGED <<graph, template, asked>>

JobEnds(n) ==
  /\ fate[n] = "at work" /\ \E end \in Final : fate' = [fate EXCEPT ![n] = end]
  /\ UNCHANGED <<graph, template, status, asked>>

\* Asked to cancel, a workflow skips what is open and stops what is at work. What an
\* end leads to at that moment is still run. It is canceled when nothing was at work.
GiveUp ==
  /\ asked /\ status \in {"running", "canceled"}
  /\ fate' \in [Nodes -> Fates]
  /\ \A n \in Nodes : Stays(n) \/ Skip(n) \/ Run(n) \/ StopsAt(n)
  /\ \/ UNCHANGED status
     \/ status' = "canceled" /\ \A n \in Nodes : fate[n] # "at work" /\ fate'[n] \notin {"open", "at work"}
  /\ UNCHANGED <<graph, template, asked>>

DeleteTemplate(n) ==
  /\ template' = template \ {n}
  /\ UNCHANGED <<graph, fate, status, asked>>

Ask == asked' = TRUE /\ UNCHANGED <<graph, template, fate, status>>

\* Whoever saw the workflow before it started calls it canceled himself.
Override == asked /\ status' = "canceled" /\ UNCHANGED <<graph, template, fate, asked>>

PromiseNext ==
  \/ Start \/ Advance \/ Finish \/ GiveUp \/ Ask \/ Override
  \/ \E n \in Nodes : JobEnds(n) \/ DeleteTemplate(n)

PromiseSpec == PromiseInit /\ [][PromiseNext]_promiseVars
=============================================================================
