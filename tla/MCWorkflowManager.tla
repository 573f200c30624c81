------------------------- MODULE MCWorkflowManager -------------------------
EXTENDS WorkflowManager, TLC

\* Every DAG over N nodes with at least MinLinks links, which go from a smaller
\* to a larger number, as those of any DAG do when its nodes are numbered in
\* topological order.
CONSTANTS N, MinLinks
MCNodes == 1 .. N
Pairs == {p \in MCNodes \X MCNodes : p[1] < p[2]}
MCGraphs == {e \in [MCNodes -> [MCNodes -> Labels \cup {"none"}]] :
               /\ \A i, j \in MCNodes : i >= j => e[i][j] = "none"
               /\ Cardinality({p \in Pairs : e[p[1]][p[2]] # "none"}) >= MinLinks}
=============================================================================
