SPECIFICATION Spec
CONSTANTS
  Jobs = {j1}
  Managers = {t1, t2}
  Users = {u1}
  None = None
  MaxRuns = 2
  MaxDeaths = 1
  Faults = {"abort", "die", "quota", "full", "drop", "lag"}
SYMMETRY Symm
INVARIANT TypeOK
INVARIANT OneRun
