----------------------------- MODULE EventWrapup -----------------------------
(***************************************************************************)
(* The events of one job and the notification of its end. run() pushes the *)
(* events to a redis list (tasks/callback.py); the workers of the callback *)
(* receiver pop them, keep them in a buffer and save it now and then       *)
(* (dispatch/worker/callback.py). Whoever comes second of run(), with the  *)
(* job's status, and the receiver, with the job's wrap-up event, sends the *)
(* notifications.                                                          *)
(***************************************************************************)
EXTENDS Naturals, FiniteSets, FiniteSetsExt, SequencesExt

CONSTANTS
  NEvents,   \* events of the playbook, numbered in order; the last is its stats
  Workers,   \* workers of the callback receiver
  Bad,       \* events that the database refuses
  Nul,       \* events that it refuses for a NUL, which is taken out after the first try
  MaxTries,  \* INDIVIDUAL_EVENT_RETRIES
  EventFaults \* what goes wrong: see harm

Events == 1 .. NEvents
EOF == NEvents + 1

ASSUME EventAssumption ==
  /\ NEvents \in Nat \ {0} /\ Bad \subseteq Events /\ Nul \subseteq Events
  /\ MaxTries \in Nat \ {0, 1}
  /\ EventFaults \subseteq {"redis", "crash", "receiver", "database", "websocket"}

VARIABLES
  kind,      \* of the job: a playbook, or a system job, whose wrap-up event is EOF
  run,       \* run(): how far it is, its event_ct and wrapup_event_dispatched
  queue,     \* the redis list
  buffer,    \* of each worker: the failed attempts of each event in it
  wrapping,  \* of each worker: where it is in job_stats_wrapup
  saved,     \* how many rows an event has
  row,       \* the job: status, host_status_counts is set, emitted_events
  sent,      \* who sent the notifications of the job's end
  harm       \* the faults that happened

evVars == <<kind, run, queue, buffer, wrapping, saved, row, sent, harm>>

Wrapup == IF kind = "system" THEN EOF ELSE NEvents
Harm(f) == f \in EventFaults /\ harm' = harm \cup {f}

EventInit ==
  /\ kind \in {"playbook", "system"}
  /\ run = [at |-> "running", ct |-> 0, wrapup |-> FALSE]
  /\ queue = <<>> /\ buffer = [w \in Workers |-> <<>>]
  /\ wrapping = [w \in Workers |-> "no"]
  /\ saved = [e \in Events |-> 0]
  /\ row = [status |-> "running", counts |-> FALSE, tally |-> 0]
  /\ sent = <<>> /\ harm = {}

-----------------------------------------------------------------------------
(* run() and its callbacks.                                                 *)

Emit ==
  /\ run.at = "running" /\ run.ct < NEvents
  /\ run' = [run EXCEPT !.ct = @ + 1, !.wrapup = @ \/ run.ct + 1 = Wrapup]
  /\ queue' = Append(queue, run.ct + 1)
  /\ UNCHANGED <<kind, buffer, wrapping, saved, row, sent, harm>>

\* Redis is away: the exception ends the run, with the wrap-up event noted.
EmitFails ==
  /\ run.at = "running" /\ run.ct < NEvents
  /\ run' = [run EXCEPT !.at = "over", !.wrapup = @ \/ run.ct + 1 = Wrapup]
  /\ Harm("redis")
  /\ UNCHANGED <<kind, queue, buffer, wrapping, saved, row, sent>>

\* finished_callback; the playbook may have ended before its stats.
Over ==
  /\ run.at = "running"
  /\ run' = [run EXCEPT !.at = "over", !.wrapup = @ \/ Wrapup = EOF]
  /\ queue' = Append(queue, EOF)
  /\ UNCHANGED <<kind, buffer, wrapping, saved, row, sent, harm>>

\* The status is saved under the row's lock, where host_status_counts is read.
RunSends_unlessWrapup == ~run.wrapup
RunSends == row.counts \/ ~run.wrapup

SaveStatus ==
  /\ run.at = "over"
  /\ row' = [row EXCEPT !.status = "final", !.tally = run.ct]
  /\ run' = [run EXCEPT !.at = IF RunSends THEN "notify" ELSE "done"]
  /\ UNCHANGED <<kind, queue, buffer, wrapping, saved, sent, harm>>

RunNotifies ==
  /\ run.at = "notify"
  /\ run' = [run EXCEPT !.at = "done"] /\ sent' = Append(sent, "run")
  /\ UNCHANGED <<kind, queue, buffer, wrapping, saved, row, harm>>

\* The worker process that runs the job dies, and the job is reaped.
RunDies ==
  /\ run.at \in {"running", "over", "notify"}
  /\ run' = [run EXCEPT !.at = "dead"] /\ Harm("crash")
  /\ UNCHANGED <<kind, queue, buffer, wrapping, saved, row, sent>>

Reap ==
  /\ run.at = "dead" /\ row.status = "running"
  /\ row' = [row EXCEPT !.status = "reaped"] /\ sent' = Append(sent, "reaper")
  /\ UNCHANGED <<kind, run, queue, buffer, wrapping, saved, harm>>

-----------------------------------------------------------------------------
(* A worker of the callback receiver.                                       *)

Free(w) == wrapping[w] = "no"

\* EOF is not saved; the wrap-up of a system job begins at once, that of a
\* playbook when its event has a row.
WrapsAtOnce(e) == e = EOF /\ Wrapup = EOF

Pop(w) ==
  /\ Free(w) /\ queue # <<>>
  /\ LET e == Head(queue)
     IN /\ wrapping' = [wrapping EXCEPT ![w] = IF WrapsAtOnce(e) THEN "counts" ELSE "no"]
        /\ buffer' = [buffer EXCEPT ![w] = IF e = EOF THEN @ ELSE
                        [x \in DOMAIN @ \cup {e} |-> IF x = e THEN 0 ELSE @[x]]]
  /\ queue' = Tail(queue)
  /\ UNCHANGED <<kind, run, saved, row, sent, harm>>

\* What flush does after the events in S have rows: the messages to browsers, and
\* the wrap-up. If a message fails, the wrap-up behind it is skipped.
AfterSaving(w, S) ==
  \/ /\ wrapping' = [wrapping EXCEPT ![w] = IF Wrapup \in S THEN "counts" ELSE "no"]
     /\ UNCHANGED harm
  \/ UNCHANGED wrapping /\ Harm("websocket")

InsertRows(S) == saved' = [e \in Events |-> IF e \in S THEN saved[e] + 1 ELSE saved[e]]

Refused(w) == {e \in DOMAIN buffer[w] : e \in Bad \/ (e \in Nul /\ buffer[w][e] = 0)}
FlushAll(w) ==
  /\ Free(w) /\ DOMAIN buffer[w] # {} /\ Refused(w) = {}
  /\ InsertRows(DOMAIN buffer[w]) /\ buffer' = [buffer EXCEPT ![w] = <<>>]
  /\ AfterSaving(w, DOMAIN buffer[w])
  /\ UNCHANGED <<kind, run, queue, row, sent>>

\* The batch is refused, so each event is saved by itself; those in F fail again.
RetriedLater_all(w, F) == {e \in DOMAIN buffer[w] : buffer[w][e] + 1 < MaxTries}
RetriedLater_oneMore(w, F) == {e \in F : buffer[w][e] < MaxTries}
RetriedLater(w, F) == {e \in F : buffer[w][e] + 1 < MaxTries}

SaveEach(w, F) ==
  /\ InsertRows(DOMAIN buffer[w] \ F)
  /\ buffer' = [buffer EXCEPT ![w] = [e \in RetriedLater(w, F) |-> @[e] + 1]]
  /\ UNCHANGED <<kind, run, queue, row, sent>>

FlushEach(w) ==
  /\ Free(w) /\ Refused(w) # {}
  /\ SaveEach(w, Refused(w)) /\ AfterSaving(w, DOMAIN buffer[w] \ Refused(w))

\* Others fail as well, for an error of the database that passes.
FlushPoorly(w) ==
  /\ Free(w)
  /\ \E F \in SUBSET DOMAIN buffer[w] :
       /\ Refused(w) \subseteq F /\ F # Refused(w)
       /\ SaveEach(w, F)
       /\ wrapping' = [wrapping EXCEPT ![w] =
                        IF Wrapup \in DOMAIN buffer[w] \ F THEN "counts" ELSE "no"]
  /\ Harm("database")

\* The worker dies, or gives up on a database that is away (MAX_RETRIES).
LoseBuffer(w) ==
  /\ DOMAIN buffer[w] # {} \/ ~Free(w)
  /\ buffer' = [buffer EXCEPT ![w] = <<>>]
  /\ \/ Harm("receiver") /\ wrapping' = [wrapping EXCEPT ![w] = "no"]
     \/ Free(w) /\ Harm("database") /\ UNCHANGED wrapping
  /\ UNCHANGED <<kind, run, queue, saved, row, sent>>

\* job_stats_wrapup: host_status_counts is set under the row's lock, where the
\* status is read.
ReceiverSends_always == TRUE
ReceiverSends == row.status # "running"

SetCounts(w) ==
  /\ wrapping[w] = "counts"
  /\ row' = [row EXCEPT !.counts = TRUE]
  /\ wrapping' = [wrapping EXCEPT ![w] = IF ReceiverSends THEN "send" ELSE "no"]
  /\ UNCHANGED <<kind, run, queue, buffer, saved, sent, harm>>

ReceiverNotifies(w) ==
  /\ wrapping[w] = "send"
  /\ wrapping' = [wrapping EXCEPT ![w] = "no"] /\ sent' = Append(sent, "receiver")
  /\ UNCHANGED <<kind, run, queue, buffer, saved, row, harm>>

-----------------------------------------------------------------------------
EventNext ==
  \/ Emit \/ EmitFails \/ Over \/ SaveStatus \/ RunNotifies \/ RunDies \/ Reap
  \/ \E w \in Workers : \/ Pop(w) \/ FlushAll(w) \/ FlushEach(w) \/ FlushPoorly(w) \/ LoseBuffer(w)
                        \/ SetCounts(w) \/ ReceiverNotifies(w)

EventSpec == EventInit /\ [][EventNext]_evVars

-----------------------------------------------------------------------------
(* Properties.                                                              *)

EventTypeOK ==
  /\ run \in [at : {"running", "over", "notify", "done", "dead"},
              ct : 0 .. NEvents, wrapup : BOOLEAN]
  /\ queue \in Seq(1 .. EOF)
  /\ \A w \in Workers : /\ DOMAIN buffer[w] \subseteq Events
                        /\ \A e \in DOMAIN buffer[w] : buffer[w][e] < MaxTries
                        /\ wrapping[w] \in {"no", "counts", "send"}
  /\ row \in [status : {"running", "final", "reaped"}, counts : BOOLEAN, tally : 0 .. NEvents]
  /\ sent \in Seq({"run", "receiver", "reaper"}) /\ harm \subseteq EventFaults

Waiting == Range(queue) \cup UNION {DOMAIN buffer[w] : w \in Workers}

Fate(e) ==
  CASE saved[e] = 1 /\ e \notin Waiting -> "stored"
    [] saved[e] = 0 /\ e \in Waiting    -> "underway"
    [] saved[e] = 0 /\ e \notin Waiting -> IF e <= run.ct THEN "lost" ELSE "unsent"
    [] OTHER                            -> "twice"

Delivery == INSTANCE EventDelivery
              WITH Sendable <- Events, Refusable <- Bad,
                   fate <- [e \in Events |-> Fate(e)],
                   failed <- harm \cap {"receiver", "database"} # {}

(* The receiver implements EventDelivery: an event gets one row and does not stay in
   a queue or a buffer then, even when it shares a buffer with events that the
   database refuses, and every other, one with a NUL in it too, gets its row in the
   end unless it was in the buffer of a worker that died or gave up, or met errors of
   the database (worker/callback.py 147-227; "Importantly, remove successfully saved
   events from the buffer"). *)
Delivered == Delivery!DeliverySpec

(* run() and the receiver never both notify of the end of a job; if it was reaped,
   the receiver may repeat what the reaper sent (worker/callback.py 46-49;
   jobs.py 650-653). *)
NotifiedOnce ==
  /\ Cardinality({k \in DOMAIN sent : sent[k] # "reaper"}) <= 1
  /\ Len(sent) > 1 => row.status = "reaped"

(* An ended job of which nothing got lost has its notifications sent, in whatever
   order its status and its wrap-up event were saved. *)
EndNotified == (row.status # "running") ~> (sent # <<>> \/ harm # {} \/ Wrapup \in Bad)
=============================================================================
