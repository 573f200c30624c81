SPECIFICATION Spec
CONSTANTS
  Tasks = {t1, t2, t3}
  t1 = t1
  Pids = {p1, p2, p3}
  MinWorkers = 1
  MaxWorkers = 2
  QueueSize = 1
  Cancels = {t1}
  Raises = {t1}
  QUIT = QUIT
  None = None
  CrashPhases = {"running"}
  ReapMayFail = TRUE
SYMMETRY Symm
INVARIANT TypeOK
INVARIANT Tracked
INVARIANT SingleCopy
INVARIANT Accounted
CHECK_DEADLOCK FALSE
