------------------------------ MODULE Renewals ------------------------------
(***************************************************************************)
(* Renewal reminders (billing/tasks.py): a daily sweep over subscriptions  *)
(* that run out, seen from one of them.  The sweep reads all rows once;    *)
(* the reminder of a row is sent for the window its days left fall in,     *)
(* unless last_reminder_window, the only mark, names that very window.     *)
(* Nothing resets the mark when the subscription is renewed.               *)
(*                                                                         *)
(* The invoice made in advance for the link is Billing's; here it is part  *)
(* of the time between the reading and the sending, and its failing only   *)
(* changes the link.                                                       *)
(***************************************************************************)
EXTENDS Sweeps

CONSTANT RenewalDays  \* RENEWAL_REMINDER_DAYS

ASSUME RenewalDaysParameter ==
  RenewalDays \subseteq Nat \ {0} /\ IsFiniteSet(RenewalDays) /\ RenewalDays # {}

VARIABLES
  plan,    \* the subscription's days left and its last_reminder_window
  notice,  \* the sweeps under way
  told,    \* history: windows reminded of in this paid period
  swept,   \* history: windows a sweep has met in this period, and not failed
  unmarked \* history: windows whose mark was lost or overwritten

renewalVars == <<plan, notice, told, swept, unmarked>>

Widest == CHOOSE d \in RenewalDays : \A e \in RenewalDays : e <= d
\* More days than any window has; a paid period lasts 30 or 365.
Far == Widest + 1
NoWindow == 0

NoNotice == [at |-> "off", window |-> NoWindow, renewed |-> FALSE, older |-> FALSE]

RenewalsTypeOK ==
  /\ plan \in [left : 0..Far, marker : RenewalDays \cup {NoWindow}]
  /\ notice \in [Workers -> [at : {"off", "send", "mark"}, renewed : BOOLEAN,
                             window : RenewalDays \cup {NoWindow}, older : BOOLEAN]]
  /\ told \subseteq RenewalDays
  /\ swept \subseteq RenewalDays
  /\ unmarked \subseteq RenewalDays \cup {NoWindow}

RenewalsInit ==
  /\ plan = [left |-> Far, marker |-> NoWindow]
  /\ notice = [w \in Workers |-> NoNotice]
  /\ told = {} /\ swept = {} /\ unmarked = {}

\* The tightest window.
CurrentWindow(left) ==
  CHOOSE d \in RenewalDays :
    d >= left /\ \A e \in RenewalDays : e >= left => d <= e

Noticing == {w \in Workers : notice[w].at # "off"}
Sweeping(w, n) == notice' = [notice EXCEPT ![w] = n]
SweepEnds(w) == Sweeping(w, NoNotice) /\ Leave(w)

\* The idempotency check, on the row as the sweep has read it.
Reminded(window) == window = plan.marker

\* The query: rows that expire within the widest window.
ReadPlan(w) ==
  LET window == CurrentWindow(plan.left)
  IN  /\ notice[w].at = "off"
      /\ plan.left \in 1..Widest
      /\ IF Reminded(window)
         THEN swept' = swept \cup {window} /\ UNCHANGED <<notice, crossed>>
         ELSE /\ Sweeping(w, [NoNotice EXCEPT !.at = "send", !.window = window])
              /\ Enter(w, Noticing)
              /\ UNCHANGED swept
      /\ UNCHANGED <<plan, told, unmarked, faults>>

\* history: the mail is of the paid period the sweep has read.
Tells(w) == told' = IF notice[w].renewed THEN told ELSE told \cup {notice[w].window}

Remind(w) ==
  /\ notice[w].at = "send"
  /\ Tells(w)
  /\ Sweeping(w, [notice[w] EXCEPT !.at = "mark"])
  /\ UNCHANGED <<plan, swept, unmarked, faults, crossed>>

\* The provider fails, before or after it has sent: rolled back, and retried
\* by a later sweep.
RemindFails(w) ==
  /\ notice[w].at = "send"
  /\ Fault
  /\ \/ UNCHANGED <<told, unmarked>>
     \/ Tells(w) /\ unmarked' = unmarked \cup {notice[w].window}
  /\ SweepEnds(w)
  /\ UNCHANGED <<plan, swept>>

\* A plausible bug: the mark is left for the next sweep.
MarkRemindedLater(w) ==
  /\ notice[w].at = "mark"
  /\ SweepEnds(w)
  /\ UNCHANGED <<plan, swept, unmarked, told, faults>>

\* last_reminder_window and the commit; a sweep that has overlapped another
\* may put its own window over a later one.
MarkReminded(w) ==
  /\ notice[w].at = "mark"
  /\ plan' = [plan EXCEPT !.marker = notice[w].window]
  /\ swept' = IF notice[w].renewed THEN swept ELSE swept \cup {notice[w].window}
  /\ unmarked' = IF w \in crossed THEN unmarked \cup {plan.marker} ELSE unmarked
  /\ SweepEnds(w)
  /\ UNCHANGED <<told, faults>>

\* The commit fails, or the child dies: what was sent stays sent.
RemindLost(w) ==
  /\ notice[w].at # "off"
  /\ Fault
  /\ unmarked' = IF notice[w].at = "mark" THEN unmarked \cup {notice[w].window}
                                          ELSE unmarked
  /\ SweepEnds(w)
  /\ UNCHANGED <<plan, told, swept>>

\* A payment extends the period (Billing); the mark stays.
Renew ==
  /\ plan.left < Far
  /\ plan' = [plan EXCEPT !.left = Far]
  /\ told' = {} /\ swept' = {} /\ unmarked' = {}
  /\ notice' = [w \in Workers |-> IF w \in Noticing
                                  THEN [notice[w] EXCEPT !.renewed = TRUE]
                                  ELSE notice[w]]
  /\ UNCHANGED sweepsVars

\* A sweep may see a day change, not two, and none lasts until the windows of
\* the next period.
DayOfPlan ==
  /\ plan.left > 0
  /\ \A w \in Noticing : ~notice[w].older /\ plan.left # Far
  /\ plan' = [plan EXCEPT !.left = @ - 1]
  /\ notice' = [w \in Workers |-> IF w \in Noticing
                                  THEN [notice[w] EXCEPT !.older = TRUE]
                                  ELSE notice[w]]
  /\ UNCHANGED <<told, swept, unmarked, faults, crossed>>

RenewalsNext ==
  \/ \E w \in Workers : \/ ReadPlan(w) \/ Remind(w) \/ RemindFails(w)
                        \/ MarkReminded(w) \/ RemindLost(w)
  \/ Renew
  \/ DayOfPlan

-----------------------------------------------------------------------------
(* Properties.                                                             *)

\* A subscriber whose every window a sweep has met without failing does not
\* run out without a reminder, whatever mark the period before has left
\* (_check_expiring_subscriptions: "we skip only the exact window already sent").
NeverExpiresUnreminded ==
  plan.left = 0 /\ swept = RenewalDays => told # {}

\* A sweep reminds again of a window of the same period only if it has
\* overlapped another sweep, or a mark was lost or overwritten.
RemindedAgainOnlyByRace ==
  [][\A w \in Workers :
       notice[w].at = "send" /\ notice'[w].at = "mark"
         /\ notice[w].window \in told /\ ~notice[w].renewed
       => w \in crossed \/ notice[w].window \in unmarked]_<<notice>>
=============================================================================
