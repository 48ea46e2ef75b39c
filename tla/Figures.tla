------------------------------ MODULE Figures ------------------------------
(***************************************************************************)
(* The business figures of each day (analytics/aggregate.py, tasks.py) and *)
(* what the operators' page makes of them (analytics/money.py,             *)
(* api/routes/ops_business.py).  A beat task counts yesterday and then     *)
(* today, a SELECT for each figure, writes a row for each day and commits  *)
(* both; runs may be missed, repeated, or overlap.                         *)
(*                                                                         *)
(* Of the counters of what a user does for the first time (an alert, a     *)
(* verdict, a payment), and of registrations and packs, this follows the   *)
(* payments: their processed_at is set before they are committed, and they *)
(* move the subscription that churned and active_paid count.               *)
(***************************************************************************)
EXTENDS Integers, FiniteSets, FiniteSetsExt

CONSTANTS
  Payers,      \* users
  Jobs,        \* bound: the runs of the task that are followed, numbered as they begin
  Term,        \* the days a payment buys
  FunnelDays,  \* _DEFAULT_WINDOW_DAYS
  Maturity,    \* _REPEAT_MATURITY_DAYS
  LastDate,    \* bound: the calendar
  MaxPaid,     \* bound: payments
  NoFigure     \* no row of the day

ASSUME FiguresParameters ==
  /\ IsFiniteSet(Payers) /\ IsFiniteSet(Jobs) /\ Jobs \subseteq Nat
  /\ Term \in Nat \ {0}
  /\ FunnelDays \in Nat /\ Maturity \in Nat /\ FunnelDays < Maturity
  /\ LastDate \in Nat \ {0} /\ MaxPaid \in Nat

VARIABLES
  date,
  paying,    \* payments whose transaction is open
  paid,      \* payments as committed: the user and the day of processed_at
  ends,      \* the day a user's subscription expires on; 0: he has none
  figure,    \* business_metrics_daily
  job,       \* the runs
  overdue,   \* history: days of which a first payment was committed when they were over
  straddled  \* history: days a renewal of which fell between two of a run's counts

figuresVars == <<date, paying, paid, ends, figure, job, overdue, straddled>>

Dates == 1..LastDate
Payment == Payers \X Dates
Count == 0..Cardinality(Payers)
Figure == [paid : Count, churned : Count, active : Count, over : BOOLEAN]
NoFigures == [d \in 0..LastDate |-> NoFigure]
NoJob == [at |-> "off", on |-> 1, day |-> 0, paid |-> 0, churned |-> 0, active |-> 0,
          wrote |-> NoFigures]

FiguresTypeOK ==
  /\ date \in Dates
  /\ paying \subseteq Payment /\ paid \subseteq Payment
  /\ ends \in [Payers -> 0..(LastDate + Term * MaxPaid)]
  /\ figure \in [0..LastDate -> Figure \cup {NoFigure}]
  /\ job \in [Jobs -> [at : {"off", "paid", "churned", "active", "upsert", "commit", "over"},
                       on : Dates, day : 0..LastDate, paid : Count, churned : Count,
                       active : Count, wrote : [0..LastDate -> Figure \cup {NoFigure}]]]
  /\ overdue \subseteq 0..LastDate /\ straddled \subseteq 0..LastDate

FiguresInit ==
  /\ date = 1 /\ paying = {} /\ paid = {}
  /\ ends = [u \in Payers |-> 0]
  /\ figure = NoFigures
  /\ job = [j \in Jobs |-> NoJob]
  /\ overdue = {} /\ straddled = {}

-----------------------------------------------------------------------------
(* Payments.                                                               *)

NextDate ==
  /\ date < LastDate
  /\ date' = date + 1
  /\ UNCHANGED <<paying, paid, ends, figure, job, overdue, straddled>>

\* A payment is activated; one of a user at a time holds his row.
StartPayment(u) ==
  /\ Cardinality(paying \cup paid) < MaxPaid
  /\ \A p \in paying : p[1] # u
  /\ <<u, date>> \notin paid
  /\ paying' = paying \cup {<<u, date>>}
  /\ UNCHANGED <<date, paid, ends, figure, job, overdue, straddled>>

DaysPaid(u, ps) == {p[2] : p \in {q \in ps : q[1] = u}}
\* MIN(processed_at) of a user who has paid.
FirstPaid(u, ps) == Min(DaysPaid(u, ps))

CommitPayment(p) ==
  LET u == p[1]
  IN  /\ p \in paying
      /\ paying' = paying \ {p}
      /\ paid' = paid \cup {p}
      /\ ends' = [ends EXCEPT ![u] = (IF @ > p[2] THEN @ ELSE p[2]) + Term]
      /\ overdue' = IF DaysPaid(u, paid) = {} /\ p[2] < date THEN overdue \cup {p[2]} ELSE overdue
      /\ straddled' = straddled \cup {job[j].day : j \in {k \in Jobs : job[k].at = "active"}}
      /\ UNCHANGED <<date, figure, job>>

-----------------------------------------------------------------------------
(* aggregate_business_metrics.                                             *)

StartJob(j) ==
  /\ job[j].at = "off" /\ \A k \in Jobs : k < j => job[k].at # "off"
  /\ job' = [job EXCEPT ![j] = [NoJob EXCEPT !.at = "paid", !.on = date, !.day = date - 1]]
  /\ UNCHANGED <<date, paying, paid, ends, figure, overdue, straddled>>

\* _count_new_paid.
PaidOn(d) == {u \in Payers : DaysPaid(u, paid) # {} /\ FirstPaid(u, paid) = d}

CountPaid(j) ==
  /\ job[j].at = "paid"
  /\ job' = [job EXCEPT ![j].at = "churned", ![j].paid = Cardinality(PaidOn(job[j].day))]
  /\ UNCHANGED <<date, paying, paid, ends, figure, overdue, straddled>>

\* _count_churned; _day_bounds takes the day without its end.
ChurnedOn(d) == {u \in Payers : ends[u] # 0 /\ ends[u] = d}

CountChurned(j) ==
  /\ job[j].at = "churned"
  /\ job' = [job EXCEPT ![j].at = "active", ![j].churned = Cardinality(ChurnedOn(job[j].day))]
  /\ UNCHANGED <<date, paying, paid, ends, figure, overdue, straddled>>

\* _count_active_paid.
ActiveAfter(d) == {u \in Payers : ends[u] > d}

CountActive(j) ==
  /\ job[j].at = "active"
  /\ job' = [job EXCEPT ![j].at = "upsert", ![j].active = Cardinality(ActiveAfter(job[j].day))]
  /\ UNCHANGED <<date, paying, paid, ends, figure, overdue, straddled>>

Locked(d) == \E k \in Jobs : job[k].wrote[d] # NoFigure

\* upsert_row, which waits for another run's row of the day; after yesterday's
\* row it is today's turn.
UpsertFigure(j) ==
  LET d == job[j].day
      row == [paid |-> job[j].paid, churned |-> job[j].churned, active |-> job[j].active,
              over |-> d < job[j].on]
  IN  /\ job[j].at = "upsert"
      /\ ~Locked(d)
      /\ job' = [job EXCEPT ![j] = [NoJob EXCEPT !.wrote = [job[j].wrote EXCEPT ![d] = row],
                                      !.on = job[j].on, !.day = job[j].on,
                                      !.at = IF row.over THEN "paid" ELSE "commit"]]
      /\ UNCHANGED <<date, paying, paid, ends, figure, overdue, straddled>>

CommitJob(j) ==
  /\ job[j].at = "commit"
  /\ figure' = [d \in 0..LastDate |-> IF job[j].wrote[d] = NoFigure THEN figure[d]
                                                                   ELSE job[j].wrote[d]]
  /\ job' = [job EXCEPT ![j] = [NoJob EXCEPT !.at = "over"]]
  /\ UNCHANGED <<date, paying, paid, ends, overdue, straddled>>

\* An error is raised, and nothing of the run stays.
JobFails(j) ==
  /\ job[j].at \notin {"off", "over"}
  /\ job' = [job EXCEPT ![j] = [NoJob EXCEPT !.at = "over"]]
  /\ UNCHANGED <<date, paying, paid, ends, figure, overdue, straddled>>

FiguresNext ==
  \/ NextDate
  \/ \E u \in Payers : StartPayment(u)
  \/ \E p \in paying : CommitPayment(p)
  \/ \E j \in Jobs : \/ StartJob(j) \/ CountPaid(j) \/ CountChurned(j) \/ CountActive(j)
                     \/ UpsertFigure(j) \/ CommitJob(j) \/ JobFails(j)

-----------------------------------------------------------------------------
(* The operators' page.                                                    *)

Counted == {d \in 0..LastDate : figure[d] # NoFigure}
\* A plausible bug: every row there is.
FunnelOfAll == Counted
\* funnel_window.
Funnel == {d \in Counted : d >= date - FunnelDays}
\* What get_business_metrics sums for the conversion.
FunnelPaid(ds) == MapThenSumSet(LAMBDA d : figure[d].paid, ds)

\* Of whom repeat_payment_rate asks whether they paid again: those whose first payment
\* is old enough, late in the day.
Matured == {u \in Payers : DaysPaid(u, paid) # {} /\ FirstPaid(u, paid) <= date - Maturity}

-----------------------------------------------------------------------------
(* Properties.                                                             *)

\* The rows of days that were over when they were counted say who paid for the
\* first time on them, and so count every payer once, unless a payment of a day
\* is committed when the day is over; and none is both churned and active, unless
\* he renews between the two counts.  This holds however runs are missed,
\* repeated or overlap (upsert_row: "a restarted beat or a double-tick simply
\* re-computes and re-writes").
CountedOnce ==
  /\ \A d \in Counted : figure[d].over /\ d \notin overdue => figure[d].paid = Cardinality(PaidOn(d))
  /\ \A d \in Counted :
       d \notin straddled =>
         figure[d].churned + figure[d].active <= Cardinality({u \in Payers : ends[u] # 0})

\* The page's two figures of the payers are of different ones.  What the funnel of
\* the window sums never exceeds the users who paid first within it, though rows
\* are missed, counted while their day went on, or late; with the matured payers,
\* who paid first before it, it never exceeds those who have paid at all; and it
\* leaves out nobody who paid first on a past day of the window once all those
\* days have been counted when they were over.
PageAgrees ==
  LET past == {d \in Dates : date - FunnelDays <= d /\ d < date}
      payers(ds) == {u \in Payers : \E d \in ds : u \in PaidOn(d)}
  IN  /\ FunnelPaid(Funnel) <= Cardinality(payers(past \cup {date}))
      /\ FunnelPaid(Funnel) + Cardinality(Matured)
           <= Cardinality({u \in Payers : DaysPaid(u, paid) # {}})
      /\ (\A d \in past : d \in Funnel /\ figure[d].over /\ d \notin overdue)
            => Cardinality(payers(past)) <= FunnelPaid(Funnel)

FiguresHold == CountedOnce /\ PageAgrees
=============================================================================
