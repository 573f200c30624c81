---------------------------- MODULE TaskDelivery ----------------------------
(***************************************************************************)
(* What the dispatcher promises of the messages it is sent, without pool,  *)
(* queues or processes: a message only moves forward, so that it starts a  *)
(* run() once at most. It does not promise that a message arrives.         *)
(***************************************************************************)
CONSTANT Sent   \* the messages that may be sent

VARIABLE fate

Fates == {"unsent", "sent", "started", "over"}

\* A message that is dropped, refused or lost with its worker is over unstarted.
Moves == {<<"unsent", "sent">>, <<"sent", "started">>, <<"sent", "over">>, <<"started", "over">>}

TaskInit == fate = [m \in Sent |-> "unsent"]

\* The death of workers may end several messages at once.
TaskNext ==
  /\ fate' \in [Sent -> Fates]
  /\ \A m \in Sent : fate'[m] = fate[m] \/ <<fate[m], fate'[m]>> \in Moves

TaskSpec == TaskInit /\ [][TaskNext]_fate
=============================================================================
