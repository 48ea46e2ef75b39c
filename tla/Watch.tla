------------------------------- MODULE Watch -------------------------------
(***************************************************************************)
(* How the system watches itself (observability/signal_latency.py,         *)
(* tasks.py, pool_health.py): the metric task finds that no post has been  *)
(* stored for long, leaves that verdict in Redis and warns the operators;  *)
(* after a read that did not raise the collector publishes the health of   *)
(* its pool with the verdict in it, and the admin page shows it while it   *)
(* is fresh (api/routes/pool_admin.py); a read that finds no account to    *)
(* use warns the operators at once.                                        *)
(*                                                                         *)
(* Verdict, health and throttle are Redis keys with a time-to-live; a call *)
(* to Redis that fails leaves them as they are.  Time has no bound: every  *)
(* instant is kept as an age, or as what is left of a key.  One metric     *)
(* task and one collector are under way at a time.  The warning of Redis's *)
(* memory is like that of the stall, and that of accounts that all cool    *)
(* down (all_flood) like that of accounts that are all dead                *)
(* (pool_exhausted); what the metric task measures besides only goes to    *)
(* the log.                                                                *)
(***************************************************************************)
EXTENDS Integers, FiniteSets

CONSTANTS
  Silence,    \* ingest_staleness_alert_seconds
  VerdictTTL, \* INGEST_STALENESS_TTL_SECONDS
  HealthTTL,  \* POOL_HEALTH_SNAPSHOT_TTL_SECONDS
  FreshFor,   \* _STALENESS_MULTIPLE * collect_interval_seconds
  Throttle    \* ops_alert_throttle_seconds

ASSUME WatchParameters ==
  /\ Silence \in Nat \ {0} /\ VerdictTTL \in Nat \ {0} /\ HealthTTL \in Nat \ {0}
  /\ FreshFor \in Nat /\ Throttle \in Nat \ {0}

VARIABLES
  silent,   \* how long no post has been stored; NoPosts: never
  accounts, \* the pool's accounts: all healthy, as many as needed, too few, or none to
            \* read with, dead or cooling
  verdict,  \* ingest:staleness:latest: what is left of a verdict that says stale;
            \* one that does not is to its reader as none
  health,   \* pool:health:latest
  muted,    \* ops_alert:{reason}: what is left of each
  measure,  \* the metric task
  report,   \* what the collector reports of its pool, and the warning to go with it
  proven    \* history: how long ago the verdict was last found stale, and published

watchVars == <<silent, accounts, verdict, health, muted, measure, report, proven>>

NoPosts == -1
PoolReasons == {"pool_below_target", "pool_exhausted"}
Reasons == {"ingest_stale"} \cup PoolReasons
Conditions == {"all", "enough", "few", "none"}
LongAgo == VerdictTTL + FreshFor + 1

NoHealth == [left |-> 0, age |-> 0, contradiction |-> FALSE]
NoMeasure == [at |-> "off", stale |-> FALSE]
NoReport == [at |-> "off", age |-> 0, reason |-> "none", contradiction |-> FALSE]
Warning(r) == [at |-> "warn", age |-> 0, reason |-> r, contradiction |-> FALSE]

WatchTypeOK ==
  /\ silent \in NoPosts..Silence
  /\ accounts \in Conditions
  /\ verdict \in 0..VerdictTTL
  /\ health \in [left : 0..HealthTTL, age : 0..FreshFor + 1, contradiction : BOOLEAN]
  /\ muted \in [Reasons -> 0..Throttle]
  /\ measure \in [at : {"off", "publish", "warn"},
                  stale : BOOLEAN]
  /\ report \in [at : {"off", "set", "warn"}, age : 0..FreshFor + 1,
                 reason : PoolReasons \cup {"none"}, contradiction : BOOLEAN]
  /\ proven \in 0..LongAgo

WatchInit ==
  /\ silent = NoPosts /\ accounts = "all"
  /\ verdict = 0 /\ health = NoHealth
  /\ muted = [r \in Reasons |-> 0]
  /\ measure = NoMeasure /\ report = NoReport
  /\ proven = LongAgo

-----------------------------------------------------------------------------
(* The outside world.                                                      *)

Aged(age, cap) == IF age < cap THEN age + 1 ELSE cap
Less(left) == IF left > 0 THEN left - 1 ELSE left

\* Time passes, also between two steps of the task or the collector.
TimePasses ==
  /\ silent' = IF silent = NoPosts THEN NoPosts ELSE Aged(silent, Silence)
  /\ verdict' = Less(verdict)
  /\ health' = IF health.left <= 1 THEN NoHealth
               ELSE [health EXCEPT !.left = @ - 1, !.age = Aged(@, FreshFor + 1)]
  /\ muted' = [r \in Reasons |-> Less(muted[r])]
  /\ report' = IF report.at = "set" THEN [report EXCEPT !.age = Aged(@, FreshFor + 1)] ELSE report
  /\ proven' = Aged(proven, LongAgo)
  /\ UNCHANGED <<accounts, measure>>

\* A batch stores posts, and a stall is over.
StorePosts ==
  /\ silent' = 0
  /\ UNCHANGED <<accounts, verdict, health, muted, measure, report, proven>>

AccountsChange(how) ==
  /\ accounts' = how
  /\ UNCHANGED <<silent, verdict, health, muted, measure, report, proven>>

-----------------------------------------------------------------------------
(* notify_ops: SET NX EX on the reason's key, and whoever sets it sends.   *)

\* A plausible bug: the key never expires.
MutedForGood(r) == muted' = [muted EXCEPT ![r] = -1]
Mute(r) == muted' = [muted EXCEPT ![r] = Throttle]

Sent(r) == muted[r] = 0 /\ Mute(r)

\* A send that fails uses the window up; without Redis none is tried.
NotSent(r) == UNCHANGED muted \/ Sent(r)

-----------------------------------------------------------------------------
(* emit_signal_latency_task, part 4.                                       *)

MeasureAt(place) == measure.at = place

\* emit_ingest_staleness; a corpus without posts is not stale.
BeginMeasure ==
  /\ MeasureAt("off")
  /\ measure' = [at |-> "publish", stale |-> silent = Silence]
  /\ UNCHANGED <<silent, accounts, verdict, health, muted, report, proven>>

\* publish_ingest_staleness; an error is swallowed.
PublishVerdict ==
  /\ MeasureAt("publish")
  /\ \/ measure.stale /\ verdict' = VerdictTTL /\ proven' = 0
     \/ ~measure.stale /\ verdict' = 0 /\ UNCHANGED proven
     \/ UNCHANGED <<verdict, proven>>
  /\ measure' = IF measure.stale THEN [measure EXCEPT !.at = "warn"] ELSE NoMeasure
  /\ UNCHANGED <<silent, accounts, health, muted, report>>

Warn ==
  /\ MeasureAt("warn")
  /\ Sent("ingest_stale")
  /\ measure' = NoMeasure
  /\ UNCHANGED <<silent, accounts, verdict, health, report, proven>>

WarnInVain ==
  /\ MeasureAt("warn")
  /\ NotSent("ingest_stale")
  /\ measure' = NoMeasure
  /\ UNCHANGED <<silent, accounts, verdict, health, report, proven>>

\* A database error, or the end of the worker.
MeasureEnds ==
  /\ ~MeasureAt("off")
  /\ measure' = NoMeasure
  /\ UNCHANGED <<silent, accounts, verdict, health, muted, report, proven>>

-----------------------------------------------------------------------------
(* The collector reads one ref after the other.                            *)

\* _ingest_contradiction: all accounts are healthy, and nothing comes in; without
\* Redis there is none.
Contradicts == {FALSE, accounts = "all" /\ verdict > 0}

\* emit_pool_health, at the end of a read that did not raise: one with an account
\* to use, or of a ref that is being skipped, which needs none.
BeginReport ==
  /\ report.at = "off"
  /\ \E contradiction \in Contradicts :
       report' = [at |-> "set", age |-> 0, contradiction |-> contradiction,
                  reason |-> IF accounts \in {"all", "enough"} THEN "none"
                             ELSE "pool_below_target"]
  /\ UNCHANGED <<silent, accounts, verdict, health, muted, measure, proven>>

ReportRead == accounts # "none" /\ BeginReport

\* _acquire_ready_client finds no account to use: nothing is published.
ReadRefused ==
  /\ report.at = "off" /\ accounts = "none"
  /\ report' = Warning("pool_exhausted")
  /\ UNCHANGED <<silent, accounts, verdict, health, muted, measure, proven>>

\* A plausible bug: the report is dated as it is published.
DatedLate == 0
\* as_of, taken as the verdict is read.
Dated == report.age

\* _publish_snapshot; an error is swallowed.
PublishHealth ==
  /\ report.at = "set"
  /\ \/ health' = [left |-> HealthTTL, age |-> Dated, contradiction |-> report.contradiction]
     \/ UNCHANGED health
  /\ report' = IF report.reason = "none" THEN NoReport ELSE Warning(report.reason)
  /\ UNCHANGED <<silent, accounts, verdict, muted, measure, proven>>

WarnPool(r) ==
  /\ report.at = "warn" /\ report.reason = r
  /\ Sent(r)
  /\ report' = NoReport
  /\ UNCHANGED <<silent, accounts, verdict, health, measure, proven>>

WarnPoolInVain(r) ==
  /\ report.at = "warn" /\ report.reason = r
  /\ NotSent(r)
  /\ report' = NoReport
  /\ UNCHANGED <<silent, accounts, verdict, health, measure, proven>>

ReportEnds ==
  /\ report.at # "off"
  /\ report' = NoReport
  /\ UNCHANGED <<silent, accounts, verdict, health, muted, measure, proven>>

WatchNext ==
  \/ TimePasses \/ StorePosts
  \/ \E how \in Conditions : AccountsChange(how)
  \/ BeginMeasure \/ PublishVerdict \/ Warn \/ WarnInVain \/ MeasureEnds
  \/ BeginReport \/ ReadRefused \/ PublishHealth \/ ReportEnds
  \/ \E r \in PoolReasons : WarnPool(r) \/ WarnPoolInVain(r)

-----------------------------------------------------------------------------
(* Properties.                                                             *)

\* get_pool_health: what the admin page shows as fresh.
Fresh == health.left > 0 /\ health.age <= FreshFor

\* When the page shows that all accounts are healthy and yet nothing comes in,
\* a stall was found and published no longer ago than the verdict's time-to-live
\* and the page's staleness allow, however long the collector took from reading
\* the verdict to publishing it (_ingest_contradiction: an expired key raises no
\* false alarm).
ContradictionFounded ==
  Fresh /\ health.contradiction => proven <= VerdictTTL + FreshFor

\* The condition of the accounts that a reason tells of.
Trouble(r) == IF r = "pool_exhausted" THEN "none" ELSE "few"

\* A trouble that lasts is told to the operators again and again, though a send
\* that fails, or a worker that dies before it, uses the reason's window up
\* (notify_ops: "at most one message per reason per window"): that nothing comes in,
\* that the accounts are too few, and that there is none to read with, when no
\* health is published (_acquire_ready_client: "this REPEATING alert").
TroubleTold ==
  /\ <>[](silent = Silence) => []<><<Warn>>_watchVars
  /\ \A r \in PoolReasons :
       <>[](accounts = Trouble(r)) => []<><<WarnPool(r)>>_watchVars
=============================================================================
