------------------------------ MODULE Outreach ------------------------------
(***************************************************************************)
(* The beat tasks that write to people: renewal reminders, lifecycle       *)
(* mails, showcase posts, and the warnings to the operators (module        *)
(* Watch).  They share the Celery children and the way they mark what was  *)
(* sent, and no row: a schedule that fires one of them shows all that each *)
(* can do.                                                                 *)
(***************************************************************************)
EXTENDS Renewals, Lifecycle, Showcase, Watch

VARIABLE beat  \* the task the schedule fires

vars == <<beat, sweepsVars, renewalVars, lifecycleVars, showcaseVars, watchVars>>

TypeOK ==
  /\ beat \in {"renewals", "lifecycle", "showcase", "watch"}
  /\ faults \in 0..MaxFaults /\ crossed \subseteq Workers
  /\ RenewalsTypeOK /\ LifecycleTypeOK /\ ShowcaseTypeOK /\ WatchTypeOK

Init ==
  /\ beat \in {"renewals", "lifecycle", "showcase", "watch"}
  /\ faults = 0 /\ crossed = {}
  /\ RenewalsInit /\ LifecycleInit /\ ShowcaseInit /\ WatchInit

NotMails == UNCHANGED <<beat, renewalVars, showcaseVars, watchVars>>
NotWatch == UNCHANGED <<beat, sweepsVars, renewalVars, lifecycleVars, showcaseVars>>

Renewing ==
  beat = "renewals" /\ RenewalsNext /\ UNCHANGED <<beat, lifecycleVars, showcaseVars, watchVars>>
Mails == beat = "lifecycle" /\ LifecycleNext /\ NotMails
Posts ==
  beat = "showcase" /\ ShowcaseNext /\ UNCHANGED <<beat, renewalVars, lifecycleVars, watchVars>>
Watching == beat = "watch" /\ WatchNext /\ NotWatch

Next == Renewing \/ Mails \/ Posts \/ Watching

\* Beat fires again, and a child works its sweep off.  The metric task and the
\* collector come round as well: as long as there is an account to read with some
\* read does not raise, and as long as there is none some ref that is not being
\* skipped asks for one.  That they get to the end, and a warning out, is fair in
\* the strong sense, as errors and the throttle may come first.
Fairness ==
  /\ \A w \in Workers : WF_vars(beat = "lifecycle" /\ LifecycleStep(w) /\ NotMails)
  /\ WF_vars(beat = "watch" /\ TimePasses /\ NotWatch)
  /\ WF_vars(beat = "watch" /\ BeginMeasure /\ NotWatch)
  /\ WF_vars(beat = "watch" /\ ReportRead /\ NotWatch)
  /\ SF_vars(beat = "watch" /\ ReadRefused /\ NotWatch)
  /\ SF_vars(beat = "watch" /\ PublishVerdict /\ NotWatch)
  /\ SF_vars(beat = "watch" /\ PublishHealth /\ NotWatch)
  /\ SF_vars(beat = "watch" /\ Warn /\ NotWatch)
  /\ \A r \in PoolReasons : SF_vars(beat = "watch" /\ WarnPool(r) /\ NotWatch)

Spec == Init /\ [][Next]_vars /\ Fairness

\* Who pays is warned before he runs out, and who has opted out is left alone.
WarnedNotPestered == NeverExpiresUnreminded /\ OptOutHonoured

\* Nothing is sent twice but for a race, a crash or a lost mark: a reminder of
\* a window, a digest or win-back of a cycle, a post of a cluster.
SentAgainOnlyByRace ==
  RemindedAgainOnlyByRace /\ MailedAgainOnlyByRace /\ PostedAgainOnlyByRace

\* A digest or win-back that is due is sent, or ceases to be due.
DueMailIsSent == beat = "lifecycle" => DueMailSettles

\* A trouble that lasts is told to the operators again and again, though a send
\* that fails, or a worker that dies before it, uses the reason's window up.
TroubleIsTold == beat = "watch" => TroubleTold
=============================================================================
