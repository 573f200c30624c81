SPECIFICATION Spec
CONSTANTS
  N = 3
  MinLinks = 2
  Nodes <- MCNodes
  Graphs <- MCGraphs
  Outcomes = {"successful", "canceled"}
  MaxDeletes = 1
INVARIANT TypeOK
INVARIANT OnlyReached
PROPERTY KeepsPromise
CHECK_DEADLOCK FALSE
