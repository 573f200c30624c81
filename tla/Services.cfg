SPECIFICATION ServicesSpec
CONSTANTS
 a = a b = b p = p q = q s = s
 Templates = {a, b} Projects = {p} Sources = {s} Simultaneous = {a}
 ProjectOf <- MCProjectOf SourcesOf <- MCSourcesOf UserUpdates = {p, s} MaxLaunches = 2
 hy = hy ex = ex cp = cp g1 = g1 g2 = g2 cg = cg Nowhere = Nowhere
 NTasks = 4 Impact <- MCImpact ControlTasks = {2} Preferred <- MCPreferred
 Instances = {hy, ex} NodeType <- MCNodeType CapacityOf <- MCCapacityOf Groups <- MCGroups
 ContainerGroups = {cg} ControlPlane = cp MaxJobs <- MCMaxJobs MaxForks <- MCMaxForks
 ControlImpact = 1 StartLimit = 2
 w1 = w1 w2 = w2 NEvents = 3 Workers = {w1, w2} Bad = {2} Nul = {3} MaxTries = 2
 EventFaults = {"redis", "crash", "receiver", "database", "websocket"}
 t1 = t1 t2 = t2 c1 = c1 TemplateJobs = {t1, t2} AdHocJobs = {c1} Strays = {t2} MaxSpawned = 1
 MaxConcurrent = 1 MaxDaily = 1 MaxDay = 2
 Interval <- MCInterval Undecorated = {} MaxLag = 8 Horizon = 30 MaxStops = 1
 n1 = n1 n2 = n2 j1 = j1 Nodes = {n1, n2} Mortal = {n1} Laggards = {n1} NoRedis = {}
 ClusterJobs = {j1} Tolerance = 1 MaxDowns = 1
 MaxRequests = 1 MaxLeft = 1 MaxMishaps = 1
 s1 = s1 s2 = s2 Plans = {s1, s2} Rules <- MCRules Hosts = {n1, n2} MaxTime = 3
 MaxUpsets = 1 Imaginary = {3}
 r1 = r1 r2 = r2 Readers = {r1, r2} Site <- MCSite CacheTTL = 2 MemoryTTL = 1 MaxHeld = 1
 MaxChanges = 1
INVARIANTS
 ServicesTypeOK Exclusive SharedUpdate CapacityKept LimitKept
 NotifiedOnce LimitsKept OncePerPeriod Punctual SteadfastSpared LaunchedOnce RunsKept
 SettingsFresh
PROPERTIES
 UpdatedBeforeStart Settles EveryTaskStarts Delivered EndNotified LostJobsEnd WorkingRecovers
 EveryChangeSeen NeverStalls
CHECK_DEADLOCK FALSE
