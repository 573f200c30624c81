----------------------------- MODULE MCServices -----------------------------
(***************************************************************************)
(* Several components that share no state, checked side by side: a         *)
(* behaviour belongs to the one that `on` names, and the variables of the  *)
(* others keep their initial values, so that the states of the components  *)
(* add up instead of multiplying.                                          *)
(***************************************************************************)
EXTENDS DependencyManager, Capacity, EventWrapup, TenantQuota, PeriodicScheduler,
        ClusterHealth, ManagerLocks, Schedules, SettingsCache, TLC

CONSTANTS
  a, b, p, q, s,              \* templates, projects and an inventory source
  hy, ex, cp, g1, g2, cg,     \* instances and instance groups
  w1, w2,                     \* workers of the callback receiver
  t1, t2, c1,                 \* launches of a tenant
  n1, n2, j1,                 \* control nodes and a job
  s1, s2, r1, r2              \* schedules, and processes that read settings

VARIABLE on

MCProjectOf == a :> p @@ b :> q @@ s :> p
MCSourcesOf == a :> {s} @@ b :> {}

MCImpact == <<5, 1, 2, 9>>
MCPreferred == <<<<g2, g1>>, <<>>, <<g1, cg>>, <<g1, cg>>>>
MCNodeType == hy :> "hybrid" @@ ex :> "execution"
MCCapacityOf == hy :> 4 @@ ex :> 4
MCGroups == cp :> {hy} @@ g1 :> {hy, ex} @@ g2 :> {ex} @@ cg :> {}
MCMaxJobs == cp :> 0 @@ g1 :> 1 @@ g2 :> 2 @@ cg :> 1
MCMaxForks == cp :> 0 @@ g1 :> 8 @@ g2 :> 0 @@ cg :> 2

MCInterval == <<5, 3, 7>>

MCSite == r1 :> n1 @@ r2 :> n2
MCRules == {{1, 2}, {1, 3}}

Init ==
  /\ on \in {"dependency", "capacity", "events", "quota", "periodic", "cluster", "locks",
             "schedules", "settings"}
  /\ DependencyInit /\ CapacityInit /\ EventInit /\ QuotaInit /\ PeriodicInit
  /\ ClusterInit /\ LockInit /\ ScheduleInit /\ SettingInit
  /\ on # "events" => kind = "playbook"
  /\ on # "schedules" => \A x, y \in Plans : plan[x] = plan[y] /\ plan[x].rule = {1, 2}

Next ==
  \/ /\ on = "dependency" /\ DependencyNext
     /\ UNCHANGED <<on, capVars, evVars, quotaVars, periodicVars, clusterVars, lockVars,
                    planVars, settingVars>>
  \/ /\ on = "capacity" /\ CapacityNext
     /\ UNCHANGED <<on, depVars, evVars, quotaVars, periodicVars, clusterVars, lockVars,
                    planVars, settingVars>>
  \/ /\ on = "events" /\ EventNext
     /\ UNCHANGED <<on, depVars, capVars, quotaVars, periodicVars, clusterVars, lockVars,
                    planVars, settingVars>>
  \/ /\ on = "quota" /\ QuotaNext
     /\ UNCHANGED <<on, depVars, capVars, evVars, periodicVars, clusterVars, lockVars,
                    planVars, settingVars>>
  \/ /\ on = "periodic" /\ PeriodicNext
     /\ UNCHANGED <<on, depVars, capVars, evVars, quotaVars, clusterVars, lockVars,
                    planVars, settingVars>>
  \/ /\ on = "cluster" /\ ClusterNext
     /\ UNCHANGED <<on, depVars, capVars, evVars, quotaVars, periodicVars, lockVars,
                    planVars, settingVars>>
  \/ /\ on = "locks" /\ LockNext
     /\ UNCHANGED <<on, depVars, capVars, evVars, quotaVars, periodicVars, clusterVars,
                    planVars, settingVars>>
  \/ /\ on = "schedules" /\ ScheduleNext
     /\ UNCHANGED <<on, depVars, capVars, evVars, quotaVars, periodicVars, clusterVars,
                    lockVars, settingVars>>
  \/ /\ on = "settings" /\ SettingNext
     /\ UNCHANGED <<on, depVars, capVars, evVars, quotaVars, periodicVars, clusterVars,
                    lockVars, planVars>>

vars == <<on, depVars, capVars, evVars, quotaVars, periodicVars, clusterVars, lockVars,
          planVars, settingVars>>

Spec == Init /\ [][Next]_vars

\* The managers run every 20 seconds if not before; while a task can be started, or
\* runs, something goes on.
DependencyFairness ==
  /\ WF_depVars(on = "dependency" /\ DependencyCycle)
  /\ WF_depVars(on = "dependency" /\ \E i \in DOMAIN tasks :
                                     FailDependent(i) \/ Start(i) \/ Finish(i))

\* Cycles begin while something is pending, and commit, which is the step that leaves
\* no cycle; what runs comes to an end.
CapacityFairness ==
  /\ WF_capVars(on = "capacity" /\ WithStatus({"pending"}) # {} /\ BeginCapacityCycle)
  /\ WF_cycle(on = "capacity" /\ cycle' = NoCapCycle)
  /\ WF_capVars(on = "capacity" /\ \E t \in Tasks : EndTask(t))

\* The playbook ends, run() goes on, reapers look again and again, and so do the
\* workers, which flush at least once a second when nothing comes.
EventFairness ==
  /\ WF_evVars(on = "events" /\ (Over \/ SaveStatus \/ RunNotifies \/ Reap))
  /\ WF_evVars(on = "events" /\ \E w \in Workers :
       Pop(w) \/ FlushAll(w) \/ FlushEach(w) \/ SetCounts(w) \/ ReceiverNotifies(w))

\* The dispatcher of a node runs its heartbeat again and again, and time passes.
ClusterFairness ==
  /\ WF_clusterVars(on = "cluster" /\ TimePasses)
  /\ \A n \in Nodes : WF_clusterVars(on = "cluster" /\ Heartbeat(n))

\* The periodic requests go on, the dispatcher delivers, and cycles come to an end.
LockFairness ==
  \A m \in Managers : /\ WF_lockVars(on = "locks" /\ PeriodicRequest(m))
                      /\ WF_lockVars(on = "locks" /\ Invoke(m))
                      /\ WF_lockVars(on = "locks" /\ Cycle(m))

\* Rounds begin again and again, and go on, and time passes.
ScheduleFairness ==
  /\ WF_planVars(on = "schedules" /\ \E x \in Hosts : HostStep(x))
  /\ WF_planVars(on = "schedules" /\ TimeGoesOn)

ServicesSpec ==
  /\ Spec /\ DependencyFairness /\ CapacityFairness /\ EventFairness
  /\ ClusterFairness /\ LockFairness /\ ScheduleFairness

ServicesTypeOK ==
  /\ DependencyTypeOK /\ CapacityTypeOK /\ EventTypeOK /\ QuotaTypeOK /\ PeriodicTypeOK
  /\ ClusterTypeOK /\ LockTypeOK /\ ScheduleTypeOK /\ SettingTypeOK
=============================================================================
