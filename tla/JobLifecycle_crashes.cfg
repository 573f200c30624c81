SPECIFICATION Spec
CONSTANTS
  Jobs = {j1}
  Managers = {t1, t2}
  Users = {u1}
  None = None
  MaxRuns = 2
  MaxDeaths = 2
  Faults = {"abort", "die", "sigterm"}
SYMMETRY Symm
INVARIANT Owned
PROPERTY HeartbeatSparesLive
