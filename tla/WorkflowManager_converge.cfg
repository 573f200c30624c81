SPECIFICATION Spec
CONSTANTS
  N = 3
  MinLinks = 2
  Nodes <- MCNodes
  Graphs <- MCGraphs
  Outcomes = {"successful", "failed", "canceled"}
  MaxDeletes = 0
INVARIANT AllConverge
CHECK_DEADLOCK FALSE
