---------------------------- MODULE AlertDelivery ----------------------------
(***************************************************************************)
(* The life of an alert after it crossed its threshold: the scorer tick    *)
(* commits a pending row and hands its id to the broker (scorer/tasks.py), *)
(* dispatch_alert tasks read the row, call the owner's channels and write  *)
(* the outcome (alerts/tasks.py, alerts/notifier.py), and the resweep      *)
(* re-enqueues what was lost on the way.  Nothing locks a row between the  *)
(* read and the write, the broker may lose or redeliver a message, and any *)
(* process may die between two steps.                                      *)
(*                                                                         *)
(* Instants are reduced to the two comparisons the code makes: due (no     *)
(* deliver_after, or it has passed) and stale (first_seen is before the    *)
(* resweep's cutoff).  first_seen is the CLUSTER's, so an alert may be     *)
(* stale the moment it is created.                                         *)
(***************************************************************************)
EXTENDS Integers, FiniteSets

CONSTANTS
  NumAlerts,   \* alerts are 1..NumAlerts in the order of their first_seen
  Channels,    \* the delivery backends: Telegram bot, webhook
  Configured,  \* the channels the owner of each alert has configured
  Delayed,     \* the alerts of Free-plan users: created with a deliver_after
  Tasks,       \* bound: dispatch_alert messages alive at once
  NoAlert,     \* the alert of a task slot that is free
  MaxRetries,  \* alert_max_retries
  SweepBatch,  \* pending_resweep_max_batch
  MaxFaults    \* bound: processes that die, publications the broker refuses

Alerts == 1..NumAlerts

ASSUME DeliveryParameters ==
  /\ NumAlerts \in Nat
  /\ Configured \in [Alerts -> SUBSET Channels]
  /\ Delayed \subseteq Alerts
  /\ NoAlert \notin Alerts
  /\ MaxRetries \in Nat
  /\ SweepBatch \in Nat \ {0}
  /\ MaxFaults \in Nat

VARIABLES
  row,       \* alerts.delivery_status as committed; "none": no row yet
  due,       \* deliver_after is NULL or has passed
  stale,     \* the cluster's first_seen is older than the grace period
  handoff,   \* ids the scorer tick created and has not yet enqueued
  sweep,     \* ids the resweep selected and has not yet enqueued
  task,      \* the dispatch_alert messages and their executions
  received,  \* how often each channel accepted each alert
  raced,     \* history: alerts dispatched twice at once, or cut off by a crash
  faults     \* processes that died and publications refused so far

vars == <<row, due, stale, handoff, sweep, task, received, raced, faults>>

Statuses == {"none", "pending", "delivered", "failed"}

\* Where a task is: a free slot, waiting (in the broker, or taken by a worker that
\* has read nothing yet), and working: about to send, or with a send's outcome.
Working == {"sending", "accepted", "rejected", "transient", "failing"}
TaskPlaces == {"free", "queued"} \cup Working

Task == [at : TaskPlaces, alert : Alerts \cup {NoAlert}, retries : 0..MaxRetries,
         loaded : Statuses]
FreeTask == [at |-> "free", alert |-> NoAlert, retries |-> 0, loaded |-> "none"]

TypeOK ==
  /\ row \in [Alerts -> Statuses]
  /\ due \in [Alerts -> BOOLEAN]
  /\ stale \in [Alerts -> BOOLEAN]
  /\ handoff \subseteq Alerts
  /\ sweep \subseteq Alerts
  /\ task \in [Tasks -> Task]
  /\ received \in [Alerts -> [Channels -> Nat]]
  /\ raced \subseteq Alerts
  /\ faults \in 0..MaxFaults

Init ==
  /\ row = [a \in Alerts |-> "none"]
  /\ due = [a \in Alerts |-> a \notin Delayed]
  /\ stale = [a \in Alerts |-> FALSE]
  /\ handoff = {}
  /\ sweep = {}
  /\ task = [m \in Tasks |-> FreeTask]
  /\ received = [a \in Alerts |-> [c \in Channels |-> 0]]
  /\ raced = {}
  /\ faults = 0

-----------------------------------------------------------------------------
(* Faults, and publishing to the broker *)

Fault ==
  /\ faults < MaxFaults
  /\ faults' = faults + 1

Message(a, r) == [at |-> "queued", alert |-> a, retries |-> r, loaded |-> "none"]

\* dispatch_alert.apply_async raises: whoever publishes swallows it, and the
\* alert stays pending.
BrokerRefuses == Fault

\* apply_async((a,)) from a process that is no dispatch task itself.
EnqueueDelivery(a) ==
  \/ /\ \E m \in Tasks :
          /\ task[m].at = "free"
          /\ task' = [task EXCEPT ![m] = Message(a, 0)]
     /\ UNCHANGED faults
  \/ BrokerRefuses /\ UNCHANGED task

\* A task ends and its slot is free again.
Done(m) == task' = [task EXCEPT ![m] = FreeTask]

\* A task ends by publishing its successor, which takes over the slot.
Succeed(m, r) ==
  \/ task' = [task EXCEPT ![m] = Message(task[m].alert, r)] /\ UNCHANGED faults
  \/ BrokerRefuses /\ Done(m)

GoTo(m, place) == task' = [task EXCEPT ![m].at = place]

-----------------------------------------------------------------------------
(* The clock *)

\* deliver_after passes.
DelayElapses(a) ==
  /\ ~due[a]
  /\ row[a] # "none"
  /\ due' = [due EXCEPT ![a] = TRUE]
  /\ UNCHANGED <<row, stale, handoff, sweep, task, received, raced, faults>>

\* first_seen falls behind the cutoff: the older cluster's first, and whether
\* or not the alert exists yet.
GraceElapses(a) ==
  /\ ~stale[a]
  /\ \A b \in Alerts : b < a => stale[b]
  /\ stale' = [stale EXCEPT ![a] = TRUE]
  /\ UNCHANGED <<row, due, handoff, sweep, task, received, raced, faults>>

-----------------------------------------------------------------------------
(* The scorer tick *)

\* _create_alert_idempotent and the commit of the user's session: at most one
\* row per (user, cluster).
CreateAlert(a) ==
  /\ row[a] = "none"
  /\ row' = [row EXCEPT ![a] = "pending"]
  /\ handoff' = handoff \cup {a}
  /\ UNCHANGED <<due, stale, sweep, task, received, raced, faults>>

\* _enqueue_delivery, after every user's session has committed.
HandOff(a) ==
  /\ a \in handoff
  /\ handoff' = handoff \ {a}
  /\ EnqueueDelivery(a)
  /\ UNCHANGED <<row, due, stale, sweep, received, raced>>

ScorerCrash ==
  /\ handoff # {}
  /\ Fault
  /\ handoff' = {}
  /\ UNCHANGED <<row, due, stale, sweep, task, received, raced>>

-----------------------------------------------------------------------------
(* dispatch_alert *)

\* The other executions inside their transaction on the same alert.
Rivals(m) == {n \in Tasks \ {m} : /\ task[n].alert = task[m].alert
                                  /\ task[n].at \in Working}

Begin(m) ==
  /\ task' = [task EXCEPT
       ![m].loaded = row[task[m].alert],
       ![m].at = IF Configured[task[m].alert] = {} THEN "failing" ELSE "sending"]
  /\ raced' = IF Rivals(m) = {} THEN raced ELSE raced \cup {task[m].alert}
  /\ UNCHANGED faults

\* A plausible bug: deliver_after is not looked at.
LoadIgnoringDelay(m) ==
  /\ task[m].at = "queued"
  /\ \/ row[task[m].alert] = "delivered" /\ Done(m) /\ UNCHANGED <<raced, faults>>
     \/ row[task[m].alert] # "delivered" /\ Begin(m)
  /\ UNCHANGED <<row, due, stale, handoff, sweep, received>>

\* A plausible bug: a delivered alert is sent again.
LoadIgnoringDelivered(m) ==
  /\ task[m].at = "queued"
  /\ \/ ~due[task[m].alert] /\ Succeed(m, 0) /\ UNCHANGED raced
     \/ due[task[m].alert] /\ Begin(m)
  /\ UNCHANGED <<row, due, stale, handoff, sweep, received>>

\* A worker takes the message (a countdown is only a hint and may be early):
\* session.get, the deliver_after guard (reschedule), the idempotency guard
\* (delivered: no-op) and the lookup of the owner's channels (none: the
\* NoChannelConfiguredError rolls back and leads to _mark_failed).
Load(m) ==
  LET a == task[m].alert IN
  /\ task[m].at = "queued"
  /\ \/ ~due[a] /\ Succeed(m, 0) /\ UNCHANGED raced
     \/ due[a] /\ row[a] = "delivered" /\ Done(m) /\ UNCHANGED <<raced, faults>>
     \/ due[a] /\ row[a] # "delivered" /\ Begin(m)
  /\ UNCHANGED <<row, due, stale, handoff, sweep, received>>

\* A plausible bug: permanent failures count as accepted.
LastChannelVerdict(accepted, transient) ==
  IF transient # {} THEN "transient" ELSE "accepted"

\* What the send loop concludes from the channels that took the alert and those
\* that failed transiently; the others failed permanently.
Verdict(accepted, transient) ==
  IF accepted # {} THEN "accepted"
  ELSE IF transient # {} THEN "transient" ELSE "rejected"

\* The backends' send: of the channels that did not accept, those that answered
\* 429, 5xx or nothing at all failed transiently, the others reject for good.
Transient(a, accepted) == SUBSET (Configured[a] \ accepted)

\* The loop over the channels: each one accepts, or fails transiently or for good.
Send(m) ==
  /\ task[m].at = "sending"
  /\ \E accepted \in SUBSET Configured[task[m].alert] :
     \E transient \in Transient(task[m].alert, accepted) :
       /\ received' = [received EXCEPT ![task[m].alert] =
            [c \in Channels |-> @[c] + IF c \in accepted THEN 1 ELSE 0]]
       /\ GoTo(m, Verdict(accepted, transient))
  /\ UNCHANGED <<row, due, stale, handoff, sweep, raced, faults>>

\* The flush writes delivery_status only if it differs from the value loaded.
WriteStatus(m, status) ==
  row' = [row EXCEPT ![task[m].alert] =
            IF task[m].loaded = status THEN @ ELSE status]

\* The session commits: delivered, or every channel failed for good.
Commit(m) ==
  /\ \/ task[m].at = "accepted" /\ WriteStatus(m, "delivered")
     \/ task[m].at = "rejected" /\ WriteStatus(m, "failed")
  /\ Done(m)
  /\ UNCHANGED <<due, stale, handoff, sweep, received, raced, faults>>

\* TransientDeliveryError: the session rolled back; task.retry with a countdown,
\* or, with the retries used up, on to _mark_failed.
Retry(m) ==
  /\ task[m].at = "transient"
  /\ \/ /\ task[m].retries < MaxRetries
        /\ Succeed(m, task[m].retries + 1)
     \/ /\ task[m].retries >= MaxRetries
        /\ GoTo(m, "failing")
        /\ UNCHANGED faults
  /\ UNCHANGED <<row, due, stale, handoff, sweep, received, raced>>

\* _mark_failed: a blind write in a session of its own.
MarkFailed(m) ==
  /\ task[m].at = "failing"
  /\ row' = [row EXCEPT ![task[m].alert] = "failed"]
  /\ Done(m)
  /\ UNCHANGED <<due, stale, handoff, sweep, received, raced, faults>>

\* The worker dies: the message is lost with the pool child, or redelivered with
\* the whole worker (acks_late).
WorkerCrash(m) ==
  /\ task[m].at # "free"
  /\ Fault
  /\ \/ Done(m)
     \/ task' = [task EXCEPT ![m] = Message(@.alert, @.retries)]
  /\ raced' = IF task[m].at = "accepted" THEN raced \cup {task[m].alert} ELSE raced
  /\ UNCHANGED <<row, due, stale, handoff, sweep, received>>

Dispatch(m) ==
  Load(m) \/ Send(m) \/ Commit(m) \/ Retry(m) \/ MarkFailed(m)

-----------------------------------------------------------------------------
(* The resweep *)

\* A plausible bug: delayed alerts are not swept.
SweepableUndelayed(a) == row[a] = "pending" /\ stale[a] /\ a \notin Delayed

Sweepable(a) == row[a] = "pending" /\ stale[a] /\ due[a]

\* SELECT ... ORDER BY first_seen LIMIT: the oldest SweepBatch of them.
Select ==
  /\ sweep = {}
  /\ sweep' = {a \in Alerts :
       /\ Sweepable(a)
       /\ Cardinality({b \in Alerts : b < a /\ Sweepable(b)}) < SweepBatch}
  /\ UNCHANGED <<row, due, stale, handoff, task, received, raced, faults>>

\* The loop over the ids, which enqueues each one whatever became of its alert
\* in the meantime and goes on when the broker refuses.
Reenqueue(a) ==
  /\ a \in sweep
  /\ \A b \in sweep : a <= b
  /\ sweep' = sweep \ {a}
  /\ EnqueueDelivery(a)
  /\ UNCHANGED <<row, due, stale, handoff, received, raced>>

SweepCrash ==
  /\ sweep # {}
  /\ Fault
  /\ sweep' = {}
  /\ UNCHANGED <<row, due, stale, handoff, task, received, raced>>

-----------------------------------------------------------------------------
AlertStep(a) ==
  \/ DelayElapses(a) \/ GraceElapses(a) \/ CreateAlert(a)
  \/ HandOff(a) \/ Reenqueue(a)

Next ==
  \/ \E a \in Alerts : AlertStep(a)
  \/ \E m \in Tasks : Dispatch(m) \/ WorkerCrash(m)
  \/ Select
  \/ ScorerCrash
  \/ SweepCrash

\* The clock advances, the beat keeps firing the resweep, a process that does not
\* die goes on, and the broker delivers.  No alert has to be created, nothing has
\* to crash, and no channel has to accept anything.
Fairness ==
  /\ WF_vars(Select)
  /\ \A a \in Alerts :
       /\ WF_vars(DelayElapses(a)) /\ WF_vars(GraceElapses(a))
       /\ WF_vars(HandOff(a)) /\ WF_vars(Reenqueue(a))
  /\ \A m \in Tasks : WF_vars(Dispatch(m))

Spec == Init /\ [][Next]_vars /\ Fairness

-----------------------------------------------------------------------------
Reached(a) == \E c \in Channels : received[a][c] > 0

\* A Free user's alert reaches no channel before its deliver_after, whichever of
\* the scorer's hand-off, a retry, a redelivery or the resweep brings it there.
NeverBeforeDue == \A a \in Alerts : Reached(a) => due[a]

\* A row says delivered only if a channel really took the alert, also when the
\* outcomes of overlapping dispatches are written in any order.
DeliveredMeansReached == \A a \in Alerts : row[a] = "delivered" => Reached(a)

\* Retries, reschedules, resweeps, redeliveries and refused publications alone
\* never show a user an alert twice: a duplicate on a channel takes two
\* dispatches of one alert at once, or a death between the send and the commit.
DuplicateOnlyByRace ==
  \A a \in Alerts : a \notin raced => \A c \in Channels : received[a][c] <= 1

\* So a channel shows an alert in its time and, but for such a race, once.
ShownInTimeAndOnce == NeverBeforeDue /\ DuplicateOnlyByRace

\* Nor do they ever leave a row failed that a channel accepted, or lose the
\* outcome of a send: an accepted alert is delivered, or its commit is under way.
AcceptedIsRecorded ==
  \A a \in Alerts : Reached(a) /\ a \notin raced =>
    \/ row[a] = "delivered"
    \/ \E m \in Tasks : task[m].alert = a /\ task[m].at = "accepted"

\* The row tells what became of an alert, in both directions, whatever order the
\* outcomes of overlapping dispatches are written in.
RowTellsOutcome == DeliveredMeansReached /\ AcceptedIsRecorded

\* Every committed alert is eventually delivered or failed, whatever was lost
\* between the scorer, the broker and the workers (the promise of the resweep).
EveryAlertSettles ==
  \A a \in Alerts :
    row[a] = "pending" ~> row[a] \in {"delivered", "failed"}

\* storage/models/alerts.py: "`delivered` once at least one channel succeeds,
\* `failed` when retries are exhausted or a permanent error occurs."  Once no
\* dispatch is under way, a failed alert reached nobody.
FailedMeansUnreached ==
  \A a \in Alerts :
    /\ row[a] = "failed"
    /\ \A m \in Tasks : task[m].alert # a
    => ~Reached(a)
=============================================================================
