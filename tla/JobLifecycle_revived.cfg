SPECIFICATION Spec
CONSTANTS
  Jobs = {j1}
  Managers = {t1}
  Users = {u1}
  None = None
  MaxRuns = 1
  MaxDeaths = 0
  Faults = {}
PROPERTY NotRevived
