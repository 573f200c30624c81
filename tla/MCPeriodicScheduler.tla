------------------------- MODULE MCPeriodicScheduler -------------------------
(* Time passes, the main loop looks when its select times out, and whoever       *)
(* supervises the dispatcher starts it again.                                    *)
EXTENDS PeriodicScheduler

MCInterval == <<5, 3, 7>>

FairSpec ==
  /\ PeriodicSpec
  /\ WF_periodicVars(Tick) /\ WF_periodicVars(clock >= wake /\ Look)
  /\ WF_periodicVars(RestartDispatcher)
=============================================================================
