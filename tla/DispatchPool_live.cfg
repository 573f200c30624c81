SPECIFICATION FairSpec
CONSTANTS
  Tasks = {t1, t2}
  t1 = t1
  Pids = {p1, p2}
  MinWorkers = 1
  MaxWorkers = 1
  QueueSize = 1
  Cancels = {t1}
  Raises = {t1, t2}
  QUIT = QUIT
  None = None
  CrashPhases = {"starting", "read", "running"}
  ReapMayFail = FALSE
PROPERTY EventuallyConcluded
PROPERTY DeliversOnce
CHECK_DEADLOCK FALSE
