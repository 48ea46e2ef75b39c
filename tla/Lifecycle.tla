----------------------------- MODULE Lifecycle ------------------------------
(***************************************************************************)
(* Lifecycle e-mails (notifications/tasks.py, notifications/lifecycle.py): *)
(* a daily sweep that sends a user the weekly digest and the win-back when *)
(* they are due, and the unsubscribe link of the mails                     *)
(* (api/routes/email_unsubscribe.py).  Due is what the row says as the     *)
(* sweep has read it; the row is read again before a send, for the opt-out *)
(* only.                                                                   *)
(*                                                                         *)
(* The sweep is seen from one verified user with a watchlist.  Ages count  *)
(* days and stop at the largest that matters; no day changes while a sweep *)
(* runs.                                                                   *)
(***************************************************************************)
EXTENDS Sweeps

CONSTANTS
  Period,    \* digest_period_days
  Inactive,  \* winback_inactive_days
  Cooldown   \* WINBACK_COOLDOWN_DAYS

ASSUME LifecycleParameters ==
  Period \in Nat \ {0} /\ Inactive \in Nat \ {0} /\ Cooldown \in Nat \ {0}

VARIABLES
  user,    \* the committed row, and the age of the latest delivered alert
  mailing, \* the sweeps under way, with the row as they have it
  sent,    \* history: what has really been sent
  lost,    \* history: mails whose mark was lost
  inFlight,\* history: mails past the re-reading when the user opted out
  late     \* history: mails sent after that

lifecycleVars == <<user, mailing, sent, lost, inFlight, late>>

Never == -1
Row == [optOut : BOOLEAN, digest : Never..Period, winback : Never..Cooldown,
        armed : BOOLEAN]     \* delivered to after the last win-back
NoRow == [optOut |-> FALSE, digest |-> Never, winback |-> Never, armed |-> FALSE]
NoMailing == [at |-> "off", row |-> NoRow, delivered |-> FALSE]

LifecycleTypeOK ==
  /\ user \in [row : Row, quiet : 0..Inactive]
  /\ mailing \in [Workers ->
       [at : {"off", "digest", "digestSend", "digestMark",
              "winback", "winbackSend", "winbackMark"},
        row : Row, delivered : BOOLEAN]]
  /\ sent \in [digest : 0..Period, winback : BOOLEAN]
  /\ lost \subseteq {"digest", "winback"}
  /\ inFlight \in 0..Cardinality(Workers) /\ late \in Nat

LifecycleInit ==
  /\ user = [row |-> NoRow, quiet |-> Inactive]
  /\ mailing = [w \in Workers |-> NoMailing]
  /\ sent = [digest |-> Period, winback |-> FALSE]
  /\ lost = {} /\ inFlight = 0 /\ late = 0

Mailing == {w \in Workers : mailing[w].at # "off"}
At(w, stage) == mailing[w].at = stage
Onto(w, stage, row) ==
  mailing' = [mailing EXCEPT ![w].at = stage, ![w].row = row]
MailingEnds(w) == mailing' = [mailing EXCEPT ![w] = NoMailing] /\ Leave(w)
UnsentVars == <<user, sent, lost, inFlight, late>>

\* is_digest_due and a week that has something in it (collect_digest_items).
DigestDue(row, quiet) ==
  ~row.optOut /\ (row.digest = Never \/ row.digest >= Period) /\ quiet < Period

\* A plausible bug: who has never had one is passed over.
WinbackDueAgain(row, delivered, quiet) ==
  /\ ~row.optOut /\ quiet >= Inactive
  /\ row.winback # Never /\ row.winback >= Cooldown /\ (row.armed \/ delivered)
\* A plausible bug: the cooldown alone re-arms.
WinbackDueByCooldown(row, delivered, quiet) ==
  /\ ~row.optOut /\ quiet >= Inactive
  /\ row.winback = Never \/ row.winback >= Cooldown
\* is_winback_due; the latest delivery is asked for when it is evaluated.
WinbackDue(row, delivered, quiet) ==
  /\ ~row.optOut /\ quiet >= Inactive
  /\ \/ row.winback = Never
     \/ row.winback >= Cooldown /\ (row.armed \/ delivered)

\* The query: verified, active, not opted out.
ReadUser(w) ==
  /\ At(w, "off") /\ ~user.row.optOut
  /\ Onto(w, "digest", user.row)
  /\ Enter(w, Mailing)
  /\ UNCHANGED <<UnsentVars, faults>>

\* A plausible bug: the opt-out is not read again before the send.
TryMailAsRead(w, stage, due, sending, next) ==
  /\ At(w, stage)
  /\ IF due THEN Onto(w, sending, mailing[w].row) /\ UNCHANGED crossed
     ELSE IF next = "off" THEN MailingEnds(w)
     ELSE Onto(w, next, mailing[w].row) /\ UNCHANGED crossed
  /\ UNCHANGED <<UnsentVars, faults>>
\* If the mail is due, the row is read again for the opt-out.
TryMail(w, stage, due, sending, next) ==
  /\ At(w, stage)
  /\ IF due /\ ~user.row.optOut THEN Onto(w, sending, user.row) /\ UNCHANGED crossed
     ELSE IF next = "off" THEN MailingEnds(w)
     ELSE /\ Onto(w, next, IF due THEN user.row ELSE mailing[w].row)
          /\ UNCHANGED crossed
  /\ UNCHANGED <<UnsentVars, faults>>

TryDigest(w) ==
  TryMail(w, "digest", DigestDue(mailing[w].row, user.quiet), "digestSend", "winback")
TryWinback(w) ==
  TryMail(w, "winback", WinbackDue(mailing[w].row, mailing[w].delivered, user.quiet),
          "winbackSend", "off")

\* The provider has it.
Goes(w) ==
  /\ sent' = IF At(w, "digestSend") THEN [sent EXCEPT !.digest = 0]
             ELSE [sent EXCEPT !.winback = ~mailing[w].delivered]
  /\ late' = IF user.row.optOut THEN late + 1 ELSE late

Send(w) ==
  /\ mailing[w].at \in {"digestSend", "winbackSend"}
  /\ Goes(w)
  /\ Onto(w, IF At(w, "digestSend") THEN "digestMark" ELSE "winbackMark", mailing[w].row)
  /\ UNCHANGED <<user, lost, inFlight, faults, crossed>>

\* digest_last_sent_at or winback_last_sent_at = now, and the commit.
Mark(w) ==
  LET digested == [mailing[w].row EXCEPT !.digest = 0]
  IN  \/ /\ At(w, "digestMark")
         /\ user' = [user EXCEPT !.row.digest = 0]
         /\ Onto(w, "winback", digested)
         /\ UNCHANGED <<sent, lost, inFlight, late, faults, crossed>>
      \/ /\ At(w, "winbackMark")
         /\ user' = [user EXCEPT !.row.winback = 0, !.row.armed = mailing[w].delivered]
         /\ MailingEnds(w)
         /\ UNCHANGED <<sent, lost, inFlight, late, faults>>

\* The mail w is at, as a set.
MailOf(w) == IF mailing[w].at \in {"digestSend", "digestMark"} THEN {"digest"}
             ELSE {"winback"}

\* The send or the commit fails: the rollback expires the row, which the
\* handler reads again; a failed send may have gone out, a failed mark has.
Fails(w) ==
  /\ mailing[w].at \in {"digestSend", "digestMark", "winbackSend", "winbackMark"}
  /\ Fault
  /\ \/ /\ mailing[w].at \in {"digestSend", "winbackSend"}
        /\ UNCHANGED <<sent, late, lost>>
     \/ /\ mailing[w].at \in {"digestSend", "winbackSend"}
        /\ Goes(w) /\ lost' = lost \cup MailOf(w)
     \/ /\ mailing[w].at \in {"digestMark", "winbackMark"}
        /\ lost' = lost \cup MailOf(w)
        /\ UNCHANGED <<sent, late>>
  /\ IF mailing[w].at \in {"digestSend", "digestMark"}
     THEN Onto(w, "winback", user.row) /\ UNCHANGED crossed
     ELSE MailingEnds(w)
  /\ UNCHANGED <<user, inFlight>>

\* The child dies.
MailerDies(w) ==
  /\ w \in Mailing
  /\ Fault
  /\ lost' = IF mailing[w].at \in {"digestMark", "winbackMark"}
             THEN lost \cup MailOf(w) ELSE lost
  /\ MailingEnds(w)
  /\ UNCHANGED <<user, sent, inFlight, late>>

\* The link of a mail; a second click finds the flag set.
Unsubscribe ==
  /\ ~user.row.optOut
  /\ user' = [user EXCEPT !.row.optOut = TRUE]
  /\ inFlight' = Cardinality({w \in Workers :
                                mailing[w].at \in {"digestSend", "winbackSend"}})
  /\ UNCHANGED <<mailing, sent, lost, late, sweepsVars>>

\* An alert is delivered to the user (AlertDelivery).
Delivered ==
  /\ user' = [user EXCEPT !.quiet = 0, !.row.armed = TRUE]
  /\ mailing' = [w \in Workers |-> IF w \in Mailing
                                   THEN [mailing[w] EXCEPT !.delivered = TRUE]
                                   ELSE mailing[w]]
  /\ sent' = [sent EXCEPT !.winback = FALSE]
  /\ lost' = lost \ {"winback"}
  /\ UNCHANGED <<inFlight, late, sweepsVars>>

Older(age, most) == IF age = Never \/ age = most THEN age ELSE age + 1

DayOfUser ==
  /\ Mailing = {}
  /\ user' = [user EXCEPT !.row.digest = Older(@, Period),
                          !.row.winback = Older(@, Cooldown),
                          !.quiet = Older(@, Inactive)]
  /\ sent' = [sent EXCEPT !.digest = Older(@, Period)]
  /\ lost' = IF sent'.digest = Period THEN lost \ {"digest"} ELSE lost
  /\ UNCHANGED <<mailing, inFlight, late, sweepsVars>>

LifecycleStep(w) ==
  ReadUser(w) \/ TryDigest(w) \/ TryWinback(w) \/ Send(w) \/ Mark(w)

LifecycleNext ==
  \/ \E w \in Workers : LifecycleStep(w) \/ Fails(w) \/ MailerDies(w)
  \/ Unsubscribe
  \/ Delivered
  \/ DayOfUser

-----------------------------------------------------------------------------
(* Properties.                                                             *)

\* After the opt-out no more mails go out than were past their re-reading
\* (_opted_out_now: "race with unsubscribe").
OptOutHonoured == late <= inFlight

\* A second digest within the period, or a second win-back without a delivery
\* in between, only when two sweeps have overlapped or a mark was lost.
MailedAgainOnlyByRace ==
  [][\A w \in Workers :
       /\ At(w, "digestSend") /\ mailing'[w].at = "digestMark" /\ sent.digest < Period
            => w \in crossed \/ "digest" \in lost
       /\ At(w, "winbackSend") /\ mailing'[w].at = "winbackMark" /\ sent.winback
            => w \in crossed \/ "winback" \in lost]_<<mailing>>

\* Inactive, and no win-back since the last delivery.
Lapsed ==
  /\ ~user.row.optOut /\ user.quiet = Inactive
  /\ \/ user.row.winback = Never
     \/ user.row.armed /\ user.row.winback = Cooldown

\* A mail that is due is sent, or ceases to be due (the user opts out, the week
\* empties, or an alert is delivered).
DueMailSettles ==
  /\ DigestDue(user.row, user.quiet) ~> ~DigestDue(user.row, user.quiet)
  /\ Lapsed ~> ~Lapsed
=============================================================================
