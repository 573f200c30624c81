SPECIFICATION FairSpec
CONSTANTS
  N = 3
  MinLinks = 3
  Nodes <- MCNodes
  Graphs <- MCGraphs
  Outcomes = {"successful", "failed", "canceled"}
  MaxDeletes = 0
PROPERTY CanceledEnds
PROPERTY WorkflowEnds
CHECK_DEADLOCK FALSE
