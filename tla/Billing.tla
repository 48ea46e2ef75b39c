------------------------------ MODULE Billing ------------------------------
(***************************************************************************)
(* Payment notifications (IPNs) and what they grant: the status of the     *)
(* invoice, the expiry of the subscription and the referral reward         *)
(* (billing/webhook.py, billing/service.py, billing/limits.py,             *)
(* referral/service.py).                                                   *)
(*                                                                         *)
(* receive_ipn runs process_ipn synchronously on the event loop of the one *)
(* API process, but its transaction is committed by the teardown of a      *)
(* dependency: after the response, in a worker thread the loop has to      *)
(* start.  Between the two other notifications may run on the loop.  They  *)
(* read what is committed and wait for the rows that are not.              *)
(*                                                                         *)
(* One user, referred by another, one paid plan and invoices of one period *)
(* length: the expiry is what makes the user's effective plan a paid one.  *)
(* Notifications with a wrong signature, order or amount change nothing    *)
(* and are left out, and so are the e-mails.                               *)
(***************************************************************************)
EXTENDS Naturals, FiniteSets

CONSTANTS
  Payments,   \* the user's invoices, by order_id
  Requests,   \* the requests the API process can have in hand at once
  NoPayment,
  Idle,       \* the event loop runs no handler
  Period,     \* PERIOD_DAYS
  Grace,      \* GRACE_PERIOD_SECONDS
  MaxTime,    \* bound: the clock stops there
  MaxRestarts \* bound: deaths of the API process

ASSUME BillingParameters ==
  /\ IsFiniteSet(Payments)
  /\ NoPayment \notin Payments
  /\ Idle \notin Requests
  /\ Period \in Nat \ {0}
  /\ Grace \in Nat
  /\ MaxTime \in Nat
  /\ MaxRestarts \in Nat

VARIABLES
  now,       \* the clock
  payment,   \* billing_payments.status
  expires,   \* subscriptions.expires_at; 0: the user has no subscription row
  reward,    \* referral_rewards: the payment that earned the reward
  paid,      \* the invoices the gateway declares finished, as often as it likes
  acked,     \* those whose finished notification was answered with 200
  loop,      \* the request whose handler occupies the event loop
  request,   \* what each request has read and is about to write
  restarts,  \* deaths so far
  granted,   \* history: the payments whose period was granted
  repeated,  \* history: a period was granted a second time
  first,     \* history: the first payment granted
  began,     \* history: when that was
  last,      \* history: when a period was granted last
  raced,     \* history: two transactions overlapped
  dropped    \* history: those whose transaction died after the 200

database == <<payment, expires, reward>>
gateway == <<paid, acked>>
history == <<granted, repeated, first, began, last>>
vars == <<now, database, gateway, loop, request, restarts, history, raced, dropped>>

\* "waiting" stands for every status that grants nothing (waiting, confirming,
\* partially_paid, expired), "finished" for finished and confirmed.
Ipn == [order : Payments, status : {"waiting", "finished"}]
PaymentStatus == {"none", "pending", "waiting", "processed"}

\* _ACTIVATING_STATUSES.
Activates(i) == i.status = "finished"

Finished(ipns) == {i.order : i \in {j \in ipns : j.status = "finished"}}

\* Bound: an expiry saturates there; only extensions by a race reach it.
MaxExpiry == MaxTime + Period * (Cardinality(Payments) + 1)
Least(a, b) == IF a < b THEN a ELSE b
Later(a, b) == IF a < b THEN b ELSE a

\* payment, subscription: the row read last; flushed: the rows are written and
\* the response is sent; commit: a thread is committing.
Stages == {"free", "payment", "subscription", "flushed", "commit"}
NoIpn == [order |-> NoPayment, status |-> "waiting"]
FreeRequest ==
  [at |-> "free", ipn |-> NoIpn, seen |-> "pending",
   known |-> FALSE, from |-> 0, rewarded |-> FALSE]

TypeOK ==
  /\ now \in 0..MaxTime
  /\ payment \in [Payments -> PaymentStatus]
  /\ expires \in 0..MaxExpiry
  /\ reward \in Payments \cup {NoPayment}
  /\ paid \subseteq Payments
  /\ acked \subseteq paid
  /\ loop \in Requests \cup {Idle}
  /\ request \in [Requests ->
       [at : Stages, ipn : Ipn \cup {NoIpn}, seen : PaymentStatus, known : BOOLEAN,
        from : 0..MaxExpiry, rewarded : BOOLEAN]]
  /\ restarts \in 0..MaxRestarts
  /\ granted \subseteq Payments
  /\ repeated \in BOOLEAN
  /\ first \in Payments \cup {NoPayment}
  /\ began \in 0..MaxTime
  /\ last \in 0..MaxTime
  /\ raced \in BOOLEAN
  /\ dropped \subseteq acked

Init ==
  /\ now = 0
  /\ payment = [p \in Payments |-> "none"]
  /\ expires = 0
  /\ reward = NoPayment
  /\ paid = {}
  /\ acked = {}
  /\ loop = Idle
  /\ request = [r \in Requests |-> FreeRequest]
  /\ restarts = 0
  /\ granted = {}
  /\ repeated = FALSE
  /\ first = NoPayment
  /\ began = 0
  /\ last = 0
  /\ raced = FALSE
  /\ dropped = {}

-----------------------------------------------------------------------------
Open(r) == request[r].at # "free"

\* The unit is the day: a transaction takes no time.
Advance ==
  /\ now < MaxTime
  /\ \A r \in Requests : ~Open(r)
  /\ now' = now + 1
  /\ UNCHANGED <<database, gateway, loop, request, restarts, history, raced, dropped>>

\* create_invoice: a pending row under a fresh order_id.
CreateInvoice(p) ==
  /\ payment[p] = "none"
  /\ payment' = [payment EXCEPT ![p] = "pending"]
  /\ UNCHANGED <<now, expires, reward, gateway, loop, request, restarts, history,
                 raced, dropped>>

\* The user pays and the gateway declares the invoice finished.
Pay(p) ==
  /\ p \notin paid
  /\ payment[p] # "none"
  /\ paid' = paid \cup {p}
  /\ UNCHANGED <<now, database, acked, loop, request, restarts, history, raced, dropped>>

\* The notifications under way: of an invoice, in any order, any number of times.
\* What the gateway has not signed, or is incomplete, is refused (verify_ipn).
Delivered(i) ==
  /\ payment[i.order] # "none"
  /\ i.status = "finished" => i.order \in paid

-----------------------------------------------------------------------------
Close(r) == request' = [request EXCEPT ![r] = FreeRequest]

\* A plausible bug: the status of the payment is not looked at.
ReceiveAlways(r, i) ==
  /\ loop = Idle
  /\ ~Open(r)
  /\ Delivered(i)
  /\ loop' = r
  /\ raced' = (raced \/ \E q \in Requests : Open(q))
  /\ request' = [request EXCEPT ![r] =
       [FreeRequest EXCEPT !.at = "payment", !.ipn = i, !.seen = payment[i.order]]]
  /\ UNCHANGED <<now, database, gateway, restarts, history, dropped>>

\* A delivery, the first or a repeated one: the handler takes the loop and reads
\* the payment, which is not processed yet.
Receive(r, i) ==
  /\ loop = Idle
  /\ ~Open(r)
  /\ Delivered(i)
  /\ payment[i.order] # "processed"
  /\ loop' = r
  /\ raced' = (raced \/ \E q \in Requests : Open(q))
  /\ request' = [request EXCEPT ![r] =
       [FreeRequest EXCEPT !.at = "payment", !.ipn = i, !.seen = payment[i.order]]]
  /\ UNCHANGED <<now, database, gateway, restarts, history, dropped>>

\* The payment is processed already: "a replay is a no-op 200".
Replay(i) ==
  /\ loop = Idle
  /\ Delivered(i)
  /\ payment[i.order] = "processed"
  /\ acked' = acked \cup Finished({i})
  /\ UNCHANGED <<now, database, paid, loop, request, restarts, history, raced, dropped>>

\* A plausible bug: an extension starts now, and not at the expiry.
ReadNowOnly(r) ==
  /\ request[r].at = "payment"
  /\ Activates(request[r].ipn)
  /\ request' = [request EXCEPT ![r] =
       [@ EXCEPT !.at = "subscription", !.known = expires > 0, !.from = now]]
  /\ UNCHANGED <<now, database, gateway, loop, restarts, history, raced, dropped>>

\* An activating status: activate_or_extend reads the subscription; the period
\* begins at max(now, expires_at).
ReadSubscription(r) ==
  /\ request[r].at = "payment"
  /\ Activates(request[r].ipn)
  /\ request' = [request EXCEPT ![r] =
       [@ EXCEPT !.at = "subscription", !.known = expires > 0, !.from = Later(now, expires)]]
  /\ UNCHANGED <<now, database, gateway, loop, restarts, history, raced, dropped>>

\* The rows that an open transaction has written and locks until it ends.
Written(r) == request[r].at \in {"flushed", "commit"}
Changes(r) == Activates(request[r].ipn) \/ request[r].seen # request[r].ipn.status
PaymentLocked(p) == \E q \in Requests : Written(q) /\ Changes(q) /\ request[q].ipn.order = p
SubscriptionLocked == \E q \in Requests : Written(q) /\ Activates(request[q].ipn)

\* process_ipn returned: the response is sent and the handler leaves the loop.
Answer(r) ==
  /\ loop' = Idle
  /\ acked' = acked \cup Finished({request[r].ipn})
  /\ UNCHANGED <<now, database, paid, restarts, history, raced, dropped>>

\* is_first_payment_for_referral: no payment processed, no reward given.
RewardDue == reward = NoPayment /\ \A p \in Payments : payment[p] # "processed"

\* The flush of an activation waits for the rows; the reward is inserted under a
\* savepoint, and a failure of it is swallowed.
FlushActivation(r) ==
  /\ request[r].at = "subscription"
  /\ ~SubscriptionLocked
  /\ ~PaymentLocked(request[r].ipn.order)
  /\ request[r].known \/ expires = 0
  /\ \E inserted \in {FALSE, RewardDue} :
       request' = [request EXCEPT ![r].at = "flushed", ![r].rewarded = inserted]
  /\ Answer(r)

\* A plausible bug: a failed insert is answered with 200.
InsertConflictSwallowed(r) ==
  /\ request[r].at = "subscription"
  /\ ~SubscriptionLocked
  /\ ~request[r].known /\ expires > 0
  /\ Close(r)
  /\ Answer(r)

\* Another transaction inserted the user's subscription meanwhile: an
\* IntegrityError, a rollback and a 500, upon which the gateway resends.
InsertConflict(r) ==
  /\ request[r].at = "subscription"
  /\ ~SubscriptionLocked
  /\ ~request[r].known /\ expires > 0
  /\ Close(r)
  /\ loop' = Idle
  /\ UNCHANGED <<now, database, gateway, restarts, history, raced, dropped>>

\* Any other status is only recorded.
FlushStatus(r) ==
  /\ request[r].at = "payment"
  /\ ~Activates(request[r].ipn)
  /\ Changes(r) => ~PaymentLocked(request[r].ipn.order)
  /\ request' = [request EXCEPT ![r].at = "flushed"]
  /\ Answer(r)

\* A loop that no handler occupies hands the teardown to a thread ...
StartTeardown(r) ==
  /\ request[r].at = "flushed"
  /\ loop = Idle
  /\ request' = [request EXCEPT ![r].at = "commit"]
  /\ UNCHANGED <<now, database, gateway, loop, restarts, history, raced, dropped>>

CommitActivation(r) ==
  LET p == request[r].ipn.order IN
  /\ payment' = [payment EXCEPT ![p] = "processed"]
  /\ expires' = Least(request[r].from + Period, MaxExpiry)
  /\ reward' = IF request[r].rewarded THEN p ELSE reward
  /\ granted' = granted \cup {p}
  /\ repeated' = (repeated \/ p \in granted)
  /\ first' = IF granted = {} THEN p ELSE first
  /\ began' = IF granted = {} THEN now ELSE began
  /\ last' = now

CommitStatus(r) ==
  /\ payment' = IF Changes(r)
                THEN [payment EXCEPT ![request[r].ipn.order] = request[r].ipn.status]
                ELSE payment
  /\ UNCHANGED <<expires, reward, history>>

\* ... where get_session commits, whatever the loop does.
Commit(r) ==
  /\ request[r].at = "commit"
  /\ \/ Activates(request[r].ipn) /\ CommitActivation(r)
     \/ ~Activates(request[r].ipn) /\ CommitStatus(r)
  /\ Close(r)
  /\ UNCHANGED <<now, gateway, loop, restarts, raced, dropped>>

\* The API process dies or is restarted: open transactions are rolled back, also
\* those that were answered with 200.
Restart ==
  /\ restarts < MaxRestarts
  /\ restarts' = restarts + 1
  /\ dropped' = dropped \cup Finished({request[r].ipn : r \in {q \in Requests : Written(q)}})
  /\ request' = [r \in Requests |-> FreeRequest]
  /\ loop' = Idle
  /\ UNCHANGED <<now, database, gateway, history, raced>>

-----------------------------------------------------------------------------
Handle(r) ==
  ReadSubscription(r) \/ FlushActivation(r) \/ InsertConflict(r) \/ FlushStatus(r) \/ Commit(r)

Next ==
  \/ Advance \/ Restart
  \/ \E p \in Payments : CreateInvoice(p) \/ Pay(p)
  \/ \E i \in Ipn : Replay(i)
  \/ \E r \in Requests : Handle(r) \/ StartTeardown(r) \/ \E i \in Ipn : Receive(r, i)

\* The gateway repeats a finished notification until it is answered with 200.
Notify(p) ==
  p \notin acked /\ \E r \in Requests : Receive(r, [order |-> p, status |-> "finished"])

\* A handler and a commit go on; the loop serves every request it is given, in
\* turn, when it comes free.
Fairness ==
  /\ \A r \in Requests : WF_vars(Handle(r)) /\ SF_vars(StartTeardown(r))
  /\ \A p \in Payments : SF_vars(Notify(p))

Spec == Init /\ [][Next]_vars /\ Fairness

-----------------------------------------------------------------------------
\* effective_plan is a paid plan: for the time paid, and the grace after it.
Active == now < expires
Entitled == expires > 0 /\ now < expires + Grace

\* However often and in whatever order the notifications of an invoice arrive,
\* its period is granted at most once (webhook.py: "a replay is a no-op"), unless
\* two transactions overlap.
GrantedOnce == ~raced => ~repeated

\* Renewals add up: a user who has paid n invoices is served for n periods from
\* the first one on, and for a period after the last, before any grace, restarts, repeats and
\* reordered notifications notwithstanding (service.py: "a renewal never loses the
\* remaining period").
PaidTimeServed ==
  ~raced /\ granted # {}
    => /\ now < began + Period * Cardinality(granted) => Active
       /\ now < last + Period => Active

\* And nobody is served longer: only invoices that the gateway declared finished
\* buy time (limits.py: then the grace, then Free).
NoFreeTime ==
  ~raced /\ Entitled => now < last + Period * Cardinality(paid) + Grace

\* Users are served for what they paid, no less and no more.
ServedAsPaid == PaidTimeServed /\ NoFreeTime

\* The referrer is rewarded for the first payment or not at all.
RewardFollowsFirstPayment == ~raced /\ reward # NoPayment => reward = first

\* A payment is good for one period, and the first one for the reward.
PaymentsCountOnce == GrantedOnce /\ RewardFollowsFirstPayment

\* As long as the event loop comes free, every invoice that the gateway declares
\* finished is processed, unless the process dies with a transaction that was
\* answered with 200.
PaidIsProcessed ==
  []<>(loop = Idle) =>
    \A p \in Payments :
      <>(p \in paid) => <>(payment[p] = "processed" \/ p \in dropped)

\* What the handler promises of every invoice, overlaps included (webhook.py: "is
\* idempotent by NOWPayments `payment_id`").
NeverGrantedTwice == ~repeated
=============================================================================
