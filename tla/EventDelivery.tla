---------------------------- MODULE EventDelivery ----------------------------
(***************************************************************************)
(* What the callback receiver promises of the events of a job, without     *)
(* queue, buffers or workers: an event that has been sent is stored, and   *)
(* once, or is lost; it is lost only if the database refuses it or after   *)
(* a failure.                                                              *)
(***************************************************************************)
CONSTANTS Sendable, Refusable

VARIABLES
  fate,    \* of each event
  failed   \* a worker of the receiver has died, or given up on the database

deliveryVars == <<fate, failed>>

Fates == {"unsent", "underway", "stored", "lost"}

DeliveryInit == fate = [e \in Sendable |-> "unsent"] /\ failed = FALSE

Lose(e) == fate'[e] = "lost" /\ (failed' \/ e \in Refusable)

\* Events are stored and lost in batches.
DeliveryNext ==
  /\ failed => failed'
  /\ fate' \in [Sendable -> Fates]
  /\ \A e \in Sendable :
       \/ fate'[e] = fate[e]
       \/ fate[e] = "unsent" /\ fate'[e] = "underway"
       \/ fate[e] = "underway" /\ (fate'[e] = "stored" \/ Lose(e))

DeliverySafety == DeliveryInit /\ [][DeliveryNext]_deliveryVars

Delivers == []<>(\A e \in Sendable : fate[e] # "underway")

DeliverySpec == DeliverySafety /\ Delivers
=============================================================================
