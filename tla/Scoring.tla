------------------------------ MODULE Scoring ------------------------------
(***************************************************************************)
(* The scorer tick (scorer/tasks.py): for one user after the other it      *)
(* scores the fresh clusters and, past two guards against alert fatigue,   *)
(* creates alerts - one transaction per user - and hands them to the       *)
(* broker when all users are done.                                         *)
(*                                                                         *)
(* Nothing keeps two ticks apart.  What does, in part, is the row lock of  *)
(* the score's upsert, held until the transaction ends: two ticks that     *)
(* meet at a cluster go on one after the other, or deadlock when they took *)
(* their clusters in different orders (the query has no ORDER BY).         *)
(*                                                                         *)
(* Which clusters are fresh when a transaction asks, what matches and what *)
(* exceeds a threshold is left open.  An alert is named by its cluster     *)
(* (the two are unique together).  Module AlertDelivery has the hand-off   *)
(* and what comes after it.                                                *)
(***************************************************************************)
EXTENDS Naturals, FiniteSets

CONSTANTS
  LastUser,   \* a tick scores the users 1..LastUser in this order
  Clusters,   \* the clusters ...
  Owner,      \* ... of each user
  Topics,     \* ... and what they may be about, together
  Ticks,      \* bound: scorer ticks under way at once
  None,       \* no cluster
  GroupAge,   \* a cluster younger than this is in alert_group_window_seconds,
  RateAge,    \* and than this in _RATE_GUARD_WINDOW_SECONDS
  Limit,      \* alerts_per_hour_limit
  MaxFaults   \* bound: transactions that fail, ticks that are cut or die

ASSUME ScoringParameters ==
  /\ LastUser \in Nat \ {0}
  /\ IsFiniteSet(Clusters) /\ IsFiniteSet(Ticks)
  /\ Owner \in [Clusters -> 1..LastUser]
  /\ \A f \in Topics : DOMAIN f = Clusters
  /\ GroupAge \in Nat /\ RateAge \in Nat
  /\ Limit \in Nat /\ MaxFaults \in Nat
  /\ None \notin Clusters

VARIABLES
  topic,   \* the clusters' topics, set by the batch that made them
  age,     \* the clusters' ages by first_seen, which their alerts copy
  alerts,  \* the alerts, as committed
  tick,    \* the ticks under way
  handed,  \* history: hand-offs of each alert
  orphans, \* history: alerts whose tick ended before their hand-off
  faults,  \* history: failures so far
  raced    \* history: a guard let a cluster pass beside another's transaction

vars == <<topic, age, alerts, tick, handed, orphans, faults, raced>>

Users == 1..LastUser
Oldest == IF GroupAge <= RateAge THEN RateAge ELSE GroupAge

\* Where a tick is: before a user's transaction ("user"), in it and between
\* two clusters ("scan"), at a cluster's score ("score") or past the rate
\* guard ("guarded"), or handing over its alerts ("hand").
InTransaction == {"scan", "score", "guarded"}
Tick == [at : {"idle", "user", "hand"} \cup InTransaction, user : Users,
         todo : SUBSET Clusters,     \* fresh clusters still to be scored
         on : Clusters \cup {None},  \* the cluster being scored
         locks : SUBSET Clusters,    \* score rows this transaction has written
         mine : SUBSET Clusters,     \* alerts this transaction has inserted
         created : SUBSET Clusters]  \* alerts to hand over

TypeOK ==
  /\ topic \in Topics
  /\ age \in [Clusters -> 0..Oldest]
  /\ alerts \subseteq Clusters
  /\ tick \in [Ticks -> Tick]
  /\ handed \in [Clusters -> Nat]
  /\ orphans \subseteq Clusters
  /\ faults \in 0..MaxFaults
  /\ raced \in BOOLEAN

NoTick == [at |-> "idle", user |-> 1, todo |-> {}, on |-> None,
           locks |-> {}, mine |-> {}, created |-> {}]

Init ==
  /\ topic \in Topics
  /\ age = [c \in Clusters |-> 0]
  /\ alerts = {}
  /\ tick = [t \in Ticks |-> NoTick]
  /\ handed = [c \in Clusters |-> 0]
  /\ orphans = {}
  /\ faults = 0
  /\ raced = FALSE

Fault == faults < MaxFaults /\ faults' = faults + 1

-----------------------------------------------------------------------------
(* What a transaction sees and waits for.                                  *)

ClustersOf(u) == {c \in Clusters : Owner[c] = u}

\* READ COMMITTED: the committed alerts and its own.
Visible(t) == alerts \cup tick[t].mine

\* Who has written the score of c and not yet ended its transaction.
Holders(c) == {t \in Ticks : c \in tick[t].locks}

\* t waits for a score, in a circle of ticks that wait for each other.
Deadlocked(t) ==
  \E circle \in SUBSET Ticks :
    /\ t \in circle
    /\ \A s \in circle : /\ tick[s].at = "score"
                         /\ Holders(tick[s].on) \cap (circle \ {s}) # {}

\* Another transaction of the same user has inserted an alert that is not
\* committed, or may do so once it is past its guards.
Rivals(t) ==
  {s \in Ticks \ {t} : /\ tick[s].at \in InTransaction
                       /\ tick[s].user = tick[t].user
                       /\ tick[s].mine # {} \/ tick[s].at = "guarded"}

-----------------------------------------------------------------------------
(* A tick.                                                                 *)

\* list_active_user_ids.
StartTick(t) ==
  /\ tick[t].at = "idle"
  /\ tick' = [tick EXCEPT ![t].at = "user"]
  /\ UNCHANGED <<topic, age, alerts, handed, orphans, faults, raced>>

\* A user's transaction reads which of its clusters are fresh.
StartUser(t) ==
  /\ tick[t].at = "user"
  /\ \E fresh \in SUBSET ClustersOf(tick[t].user) :
       tick' = [tick EXCEPT ![t].at = "scan", ![t].todo = fresh]
  /\ UNCHANGED <<topic, age, alerts, handed, orphans, faults, raced>>

\* The next cluster; one that matches no topic is passed over.
NextCluster(t) ==
  /\ tick[t].at = "scan"
  /\ \E c \in tick[t].todo :
       \/ tick' = [tick EXCEPT ![t].todo = @ \ {c}]
       \/ tick' = [tick EXCEPT ![t].todo = @ \ {c}, ![t].at = "score", ![t].on = c]
  /\ UNCHANGED <<topic, age, alerts, handed, orphans, faults, raced>>

\* history: t has passed a guard.
Passed(t) == raced' = (raced \/ Rivals(t) # {})

\* A plausible bug: the limit is exceeded by one.
RateHeldLoosely(t) ==
  Cardinality({c \in Visible(t) : Owner[c] = tick[t].user /\ age[c] < RateAge}) <= Limit
\* check_rate_guard.
RateHeld(t) ==
  Cardinality({c \in Visible(t) : Owner[c] = tick[t].user /\ age[c] < RateAge}) < Limit

\* check_group_guard.
TopicIsNew(t) ==
  \A c \in Visible(t) :
    Owner[c] = tick[t].user /\ topic[c] = topic[tick[t].on] => age[c] >= GroupAge

\* _persist_score: waits for whoever has written the same score; then a
\* score above the threshold goes on to the rate guard.
PersistScore(t) ==
  LET c == tick[t].on
  IN  /\ tick[t].at = "score"
      /\ Holders(c) \ {t} = {}
      /\ \/ /\ tick' = [tick EXCEPT ![t].at = "scan", ![t].on = None, ![t].locks = @ \cup {c}]
            /\ UNCHANGED raced
         \/ /\ RateHeld(t)
            /\ tick' = [tick EXCEPT ![t].at = "guarded", ![t].locks = @ \cup {c}]
            /\ Passed(t)
  /\ UNCHANGED <<topic, age, alerts, handed, orphans, faults>>

\* A plausible bug: an alert that exists is handed over again.
CreateAgain(t) ==
  /\ tick[t].at = "guarded"
  /\ IF TopicIsNew(t)
       THEN /\ tick' = [tick EXCEPT ![t].at = "scan", ![t].on = None,
                          ![t].mine = @ \cup {tick[t].on}]
            /\ Passed(t)
       ELSE /\ tick' = [tick EXCEPT ![t].at = "scan", ![t].on = None]
            /\ UNCHANGED raced
  /\ UNCHANGED <<topic, age, alerts, handed, orphans, faults>>

\* The group guard, and then _create_alert_idempotent: only a new alert is
\* inserted, and its id kept for the hand-off.
CreateAlert(t) ==
  /\ tick[t].at = "guarded"
  /\ IF TopicIsNew(t) /\ tick[t].on \notin Visible(t)
       THEN /\ tick' = [tick EXCEPT ![t].at = "scan", ![t].on = None,
                          ![t].mine = @ \cup {tick[t].on}]
            /\ Passed(t)
       ELSE /\ tick' = [tick EXCEPT ![t].at = "scan", ![t].on = None]
            /\ UNCHANGED raced
  /\ UNCHANGED <<topic, age, alerts, handed, orphans, faults>>

\* A plausible bug: the loop over the users returns in its first round.
CommitFirstUser(t) ==
  /\ tick[t].at = "scan"
  /\ tick[t].todo = {}
  /\ alerts' = alerts \cup tick[t].mine
  /\ tick' = [tick EXCEPT ![t] = [NoTick EXCEPT !.at = "hand", !.created = tick[t].mine]]
  /\ UNCHANGED <<topic, age, handed, orphans, faults, raced>>

\* The user's transaction commits, and the next user's turn comes.
CommitUser(t) ==
  LET u == tick[t].user
      next == [NoTick EXCEPT !.created = tick[t].created \cup tick[t].mine,
                             !.at = IF u < LastUser THEN "user" ELSE "hand",
                             !.user = IF u < LastUser THEN u + 1 ELSE u]
  IN  /\ tick[t].at = "scan"
      /\ tick[t].todo = {}
      /\ alerts' = alerts \cup tick[t].mine
      /\ tick' = [tick EXCEPT ![t] = next]
      /\ UNCHANGED <<topic, age, handed, orphans, faults, raced>>

\* _enqueue_delivery, for each alert the tick has created.
HandOver(t) ==
  /\ tick[t].at = "hand"
  /\ \E c \in tick[t].created :
       /\ handed' = [handed EXCEPT ![c] = @ + 1]
       /\ tick' = [tick EXCEPT ![t].created = @ \ {c}]
  /\ UNCHANGED <<topic, age, alerts, orphans, faults, raced>>

EndTick(t) ==
  /\ tick[t].at = "hand"
  /\ tick[t].created = {}
  /\ tick' = [tick EXCEPT ![t] = NoTick]
  /\ UNCHANGED <<topic, age, alerts, handed, orphans, faults, raced>>

\* A tick that ends early rolls back its transaction; what it had created
\* for earlier users stays with the sweep.
EndsEarly(t) ==
  /\ tick' = [tick EXCEPT ![t] = NoTick]
  /\ orphans' = orphans \cup tick[t].created
  /\ UNCHANGED <<topic, age, alerts, handed, raced>>

\* An error of one user's transaction, the soft limit or a death ends the
\* whole tick: nothing is caught per user.
TickFails(t) ==
  /\ tick[t].at # "idle"
  /\ Fault
  /\ EndsEarly(t)

\* So does the error PostgreSQL raises in one tick of a deadlock.
DeadlockDetected(t) ==
  /\ Deadlocked(t)
  /\ EndsEarly(t)
  /\ UNCHANGED faults

\* A cluster ages out of the group window, then out of the rate window.
Ages(c) ==
  /\ age[c] < Oldest
  /\ age' = [age EXCEPT ![c] = @ + 1]
  /\ UNCHANGED <<topic, alerts, tick, handed, orphans, faults, raced>>

Works(t) ==
  \/ StartUser(t) \/ NextCluster(t) \/ CreateAlert(t) \/ CommitUser(t)
  \/ HandOver(t) \/ EndTick(t)

Next ==
  \/ \E c \in Clusters : Ages(c)
  \/ \E t \in Ticks : StartTick(t) \/ Works(t) \/ PersistScore(t)
                        \/ DeadlockDetected(t) \/ TickFails(t)

\* Beat starts ticks, workers work, and PostgreSQL wakes whoever waits for a
\* row or finds the deadlock.
Fairness ==
  /\ WF_vars(\E t \in Ticks : StartTick(t))
  /\ WF_vars(\E t \in Ticks : DeadlockDetected(t))
  /\ \A t \in Ticks : WF_vars(Works(t)) /\ SF_vars(PersistScore(t))

Spec == Init /\ [][Next]_vars /\ Fairness

-----------------------------------------------------------------------------
(* Properties.                                                             *)

\* Unless two transactions of a user went past the guards side by side, a
\* user has at most Limit alerts whose cluster appeared within the hour, and
\* no two of one topic within the group window - over any number of ticks,
\* rollbacks and deadlocks (check_rate_guard and check_group_guard are reads
\* before an insert).
RateExceededOnlyByRace ==
  ~raced => \A u \in Users :
              Cardinality({c \in alerts : Owner[c] = u /\ age[c] < RateAge}) <= Limit
TopicRepeatedOnlyByRace ==
  ~raced => \A c, d \in alerts :
              /\ c # d /\ Owner[c] = Owner[d] /\ topic[c] = topic[d]
              => age[c] >= GroupAge \/ age[d] >= GroupAge

\* Both guards.
GuardsPassedOnlyByRace == RateExceededOnlyByRace /\ TopicRepeatedOnlyByRace

\* An alert is handed to the broker at most once, only after its commit, and
\* none is forgotten but those of a tick that ended early
\* (score_recent_clusters: "Each newly-created alert is enqueued for delivery
\* AFTER its session commits").
HandedOverOnce ==
  \A c \in Clusters :
    /\ handed[c] + Cardinality({t \in Ticks : c \in tick[t].created})
         <= IF c \in alerts THEN 1 ELSE 0
    /\ c \in alerts => \/ handed[c] = 1 \/ c \in orphans
                       \/ \E t \in Ticks : c \in tick[t].created

\* However ticks overlap, and however many fail for a while, every user is
\* scored again and again, unless ticks deadlock for ever
\* (score_recent_clusters).
EveryUserScored ==
  \A u \in Users :
    \/ []<>(\E t \in Ticks : tick[t].at = "scan" /\ tick[t].user = u /\ tick[t].todo = {})
    \/ []<>(\E t \in Ticks : Deadlocked(t))
=============================================================================
