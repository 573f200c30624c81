SPECIFICATION FairSpec
CONSTANTS
  Jobs = {j1}
  Managers = {t1}
  Users = {u1}
  None = None
  MaxRuns = 1
  MaxDeaths = 1
  Faults = {"abort", "die", "error", "wedge"}
PROPERTY CancelEnds
PROPERTY NeverStuck
