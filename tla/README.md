# trend-pulse in TLA+

trend-pulse watches public sources (Telegram channels, Twitter accounts, subreddits)
for its tenants, clusters what is said there, scores how fast a story spreads, and
alerts each tenant through the channels he has configured. It sells plans through a
crypto-payment gateway. The backend is Python: one FastAPI process, Celery workers and a
beat, PostgreSQL, Redis. This directory models the parts of the backend
(`src/backend/src`) in which the order of steps, several actors or a failure decide
whether the result is right. TLC checks the models on small instances; TLAPS proves
their safety properties for every value of the constants (section 4 says which).

All paths below without a leading directory are relative to `src/backend/src`.

## 1. Inventory

### How the parts interact

    beat --> collect_tick --read--> Telegram pool, Twitter, Reddit --RPUSH--> raw:{kind}:{handle}
    beat --> run_user_batch(user) --LRANGE+DEL--> dedup, embed, cluster --> posts, clusters
    beat --> score_tick --> snapshots, scores, alerts (pending) --enqueue--> dispatch_alert --> channels
    beat --> resweep --enqueue--> dispatch_alert
    beat --> reminders, digests, win-backs, showcase posts, metrics and warnings
    beat --> adaptation --> thresholds of watchlists <-- PATCH, POST, packs (API)
    gateway --IPN--> FastAPI --> payments, subscriptions, referral_rewards
    subscriptions --> effective_plan --> limits of watchlists, delay of alerts
    beat --> factory_tick --buy, register, probation--> factory_accounts --promote--> pool_sessions
    admin --QR login--> pool_sessions --signals--> Telegram pool of each child
    snapshots --> offline gate --> report on the scorer
    alerts, scores --> alert list, live signals (API); alerts --> feedback taps, latency report
    users, payments, alerts --> business_daily --> the operators' page

Redis holds the locks, the markers, stamps, counters, signals and the raw buffers;
PostgreSQL all else. Celery runs with `acks_late`, so a task may run again; the pool
kills tasks that outlive a hard limit and raises `SoftTimeLimitExceeded` at a soft one.

### Components

| component | state | what is hard | what makes it correct | module |
|---|---|---|---|---|
| Task locks (`pipeline/locks.py`, `collector/locks.py`) | one Redis key with an expiry, a token per holder | crashes, expiry under a running task, GET and DEL are two commands | no lock is lost before its TTL, no foreign lock is deleted, none is held for ever | `TaskLock`, `Lease` |
| Alert delivery (`alerts/`) | `alerts.delivery_status`, `deliver_after`, messages in the broker | no lock between reading a row and writing it, lost and repeated messages, late failures | no early delivery, status tells the truth, duplicates only by races, every alert settles | `AlertDelivery` |
| Collect tick (`collector/tasks.py`) | `collect:last_tick_at`, the running ticks | overlapping and dying ticks, one marker for all kinds | nothing older than the marker silently skipped | `Collect`, partly |
| Account pool (`collector/telegram/account_pool.py`, `reader.py`) | a slot per account, a cursor, skip counters | what an account answers is booked on the cursor | answers booked on who gave them, resting accounts left alone, every channel tried again | `AccountPool` |
| Pool sessions, QR login (`storage/pool_session_store.py`, `collector/registry.py`, `telegram/qr_login.py`, `api/routes/pool_admin.py`) | `pool_sessions`, two signal keys, a client per session and child, the registry of logins | signals before the commit, consumed by one child; cap checked two awaits before it is used | one client of a session per child, caps but for a race, what is stored comes into rotation, no client left behind | `PoolSessions`, `QrLogin` |
| Twitter and Reddit (`collector/twitter/`, `collector/reddit/`) | stamps, the month's counter, pauses; a bearer token | stamp before the read, charge after it; renewal and retry of a token | no window lost but for a cause that is told; budget, cadence, refusals | `TwitterReads`, `RedditReads` |
| Raw buffer and user batch (`collector/buffer.py`, `pipeline/`) | Redis lists per source, `posts` | destructive drain before the commit, a source shared by tenants, spelling of handles | nothing vanishes unaccounted, one copy is used once | `UserBatch`, partly |
| Clustering (`pipeline/steps/cluster.py`, `batch_processor.py`) | clusters with centroid and count | queries see the flushed rows, objects are ahead of them | a centroid is the mean of its posts, a story ends | `Clusters` |
| Scorer tick (`scorer/`) | scores, snapshots, alerts | guards read counts that other sessions change; row locks in any order; overlapping ticks | guards hold outside races, one hand-off per alert, snapshots and scores follow the story | `Scoring`, `Verdicts` |
| Watchlists, packs, adaptation (`api/watchlist`, `api/packs`, `billing/limits.py`, `scorer/adaptation.py`) | watchlist rows | count, then insert; read, then write a transaction later | plan limit, the user's setting, both but for races | `Watchlists`, partly |
| Offline gate (`eval/`, `scripts/eval_gate.py`) | none | ranks with ties, boundaries of a split | what it reports is what it says | `Evaluation`, partly |
| Billing, referral (`billing/`, `referral/`) | `billing_payments.status`, `subscriptions.expires_at`, rewards, codes | repeated, reordered, overlapping IPNs; commit after the response | a period is granted once, renewals add up, nobody is served for nothing, a shown link binds | `Billing`, `Access`, partly |
| Account factory (`factory/`) | `factory_accounts` with state and cost, leased proxies | one transaction around paid external steps, ticks at once; calls that are lost, or whose answer is | budget, transitions, a proxy per living account, pool rows for the promoted only, nothing paid for leaks | `Factory`, `Supply`, partly |
| Renewal reminders (`billing/tasks.py`) | `last_reminder_window` | never reset on renewal, sent before marked | nobody swept in time runs out unreminded | `Renewals` |
| Lifecycle e-mails (`notifications/`) | sent markers, opt-out | rows read at the sweep's start | opt-out honoured, due mail sent | `Lifecycle` |
| Showcase (`showcase/`) | published posts | two ticks post the same | one post per cluster, daily cap, but for races | `Showcase` |
| Observability (`observability/`) | three Redis keys with lifetimes; latencies | a verdict shown minutes after it was read; clocks of others | what is shown is founded, trouble is told, percentiles in order | `Watch`, `Ratings`, partly |
| Beat schedule, configuration | periods, limits | — | — | as constants and fairness |
| Retention and account deletion (`compliance/`) | — | a cascade beside taps and registrations | nothing of a deleted user is counted | `Ratings`, `Access`, `UserBatch`, partly |
| Business metrics (`analytics/`) | a row per day | counts in several queries, runs missed, repeated, overlapping | a payer is counted once, the page's figures agree | `Figures`, partly |
| HTTP API, authentication, keys (`api/`) | `api_keys`, `alert_feedback`, users | pages while rows are added, requests side by side | pages without gap or double, the last tap stands, a revoked key stays revoked | `Feed`, `Ratings`, `Access`, partly |

`PROJECT.json` lists the components with their files and status, and under `hazards`
every place where this code can go wrong in a way a test hardly reaches, with the
properties that would notice.

## 2. The modules

An MC module instantiates a module for TLC, a Proofs module holds its theorems. Each
module starts with a comment that says what it abstracts. Definitions that stand just
before an action and change it slightly (`AcquireWithoutNX` before `Acquire`) are
mutations: a plausible bug for which the named property must fail. They are not part
of `Next`.

`Tenant` (watchlists, stories, verdicts, the gate), `Collectors` (sessions, Twitter,
Reddit, QR logins), `Outreach` (reminders, mails, showcase, watch) and `Service` (the
lock of the tick, pages, ratings, the ways in, figures, purchases) put together
parts that share no row: a behaviour follows one of them, chosen in `Init`, with all
that can happen to it. `Reckoning` has what several modules reckon with: exact fractions,
and the order of a query as a sequence (`Sorted`).

### TaskLock and Lease

One Redis key, any number of workers. `holder` and `ttl` are the key, `pc`, `token`,
`elapsed` a worker's task, `got` and `dirty` the value and the status of its WATCH.

| action | code |
|---|---|
| `Acquire`, `SkipLocked` | `acquire_user_batch_lock`, `acquire_collect_lock`: one `SET NX EX` |
| `LeaveBody`, `SoftTimeLimit` | return or exception in the body, into `finally` |
| `ReadForRelease`, `Release`, `RetryRelease` | the transaction callback of the release, with redis-py's retry on `WatchError` |
| `Crash`, `HardTimeLimit`, `Tick` | the process dies, the pool kills it, the key expires |

The two locks of the code differ only in the order of TTL, soft and hard limit, so both
are instances. `Lease` is what the protocol promises: who is inside, and which of these
have lost the lock; a second one enters only when every other has lost its lock.
`TaskLock` implements it (`ImplementsLease`).

### AlertDelivery

From the committed `pending` row to the final status. `row` is what is committed;
`task` the dispatch messages and executions; `handoff` and `sweep` the ids that the
scorer and the resweep hold in memory. Instants are reduced to the two comparisons the
code makes: `due` and `stale`.

| action | code |
|---|---|
| `CreateAlert`, `HandOff`, `ScorerCrash` | `_create_alert_idempotent`, commit, `_enqueue_delivery` after all commits |
| `Load` | session.get, deliver_after guard with reschedule, idempotency guard, channels |
| `Send` | the loop over the channels with `Verdict` |
| `Commit` | the flush: writes a status only where it differs from the one loaded |
| `Retry`, `MarkFailed` | `task.retry`; `_mark_failed` in its own session |
| `Select`, `Reenqueue`, `SweepCrash` | `resweep_pending_alerts` |
| `WorkerCrash` | message lost with the child, or redelivered (`acks_late`) |

`raced` collects the alerts that were dispatched twice at once or whose dispatch died
between the send and the commit. The safety properties that cannot survive such a race
are stated for the others.

### Collect

The marker, the window, the kinds. A post is its source and the instant of its
publication. `missed` collects the posts a tick knows it leaves behind (cut reads,
a window that does not begin at the marker), `passed` those of kinds a tick could not run
(`registry.is_registered`, `PoolConfigError`) while another kind moved the marker, which all
kinds share. The reader's account pool is inside `Read` and `ReadCut`: a read succeeds, or
ends early with some suffix of the window buffered.
Ticks overlap freely here, which the collect lock permits: its key may expire before
the hard limit of its holder (section 5).

### AccountPool

The reader inside a tick: the coroutines of one child (`read`), the pool's books on each
account (`slot`: healthy, cooling down, quarantined, dead), its cursor (`index`), a
channel's failures and skips (`refFails`, `refSkip`), and what the accounts really
answered (`told`).

| action | code |
|---|---|
| `StartTick`, `SoftLimit` | `loop.run_until_complete` of the tick; the limit raised while it waits leaves its coroutine in the loop, and the next tick runs both |
| the steps of a coroutine (`Step`) | `acquire`, `connect`, the read and its handlers: flood wait (inline or rotate), refusal, failure, clean read, `FinishRead` |
| `Pass` | cooldowns, quarantines and skips run out |

### PoolSessions and QrLogin

`PoolSessions` follows a session from the scan to the reader: `Poll` and `Login` store
it and set the signals before the commit, `Abort` rolls it back, `Tick` consumes a signal
and rebuilds the pool (`DropPool` takes the old one out of the cache, `AwaitClose`
disconnects its clients) or swaps one slot, `Read` meets a revoked session, `WorkerEnds` is
the recycling of a child. `QrLogin` follows the login before that: `StartLogin`,
`Reaped`, `Connect`, `Register` are `start` between its awaits, `BeginPoll` to `Closed`
are `poll`, `ScanEnds` the task that waits for the scan.

### TwitterReads and RedditReads

`TwitterReads`: each child's pass over the accounts (`turn`), stamps and counter in
Redis, its own pause; what is published before a read's window and behind the last
one is `covered` or lost for a cause. `RedditReads`: a pass over the refs with the
token on its way through `Issue`, `Receive`, `Refused`, `Limited`, `TryAgain`, `Broken`,
`Answered`; a submission is its subreddit, date and number, and the newest ones fit in an
answer.

### UserBatch

What the collect tick writes and the batches of all tenants drain. A push that finds the
buffer full trims its oldest copy (`Trimmed`). A row keeps its
handle as it was typed and `Canon` is what the buffer's key makes of it (`buffer_key`
normalises Telegram handles only). `Drain` and `Persist` are separate steps, as in the
code, with the deduplication in `Persist`: of each group with one text exactly one post is
kept, which one depends on the order. The batches of one user exclude each other: this
is the theorem `BatchExclusion`, used here as the shape of `batch`. What `WritePost`
may write is more than `Collect` buffers.

### Clusters

`StartBatch`, `Sort` (a drained post joins the nearest group or seeds one), `Place` (a
group merges into a stored cluster within the loose threshold, window and span, or opens
one), `CommitBatch`, `BatchFails`, `Hour`. Three copies of the clusters are kept, as in
the code: `stored` (committed), `seen` (flushed, what a query sees) and `held` (the objects
of the session, ahead of both because of `autoflush=False`). An embedding is a point of a
line, a centroid a fraction (`Reckoning`).

### Scoring and Verdicts

`Scoring` has the transactions of a tick: `StartTick`, the steps `Works` (find, guards,
create, commit, hand-off), `PersistScore` with the row lock of the upsert,
`DeadlockDetected`, `TickFails`. `Verdicts` has what the ticks make of one story: posts
that are stored late or come from a clock ahead (`Grow`), snapshots of the windows of
its first hour inside a savepoint, inputs, score, topic and the row of the score.
It begins with the score's arithmetic, in exact fractions; the logarithm is a table
(`Engaged`), saturated at 100 beyond it.

### Watchlists

The requests of one user, each a check and a write in separate steps (`CheckCreate`,
`Create`; `ReadPatch`, `Patch`; `CheckSubscribe`, `Subscribe`), the adaptation in two
(`ReadAdapt`, `Adapt`), `Delete` and `Unsubscribe`. The ORM writes only the columns that
differ from what was read. Which way ratings move a threshold is left open.

### Evaluation

The gate as pure algorithms: `Tell` adds a story with its snapshot, `Evaluate` is
`compute_window_report`: `Ahead` and `Behind` are `split_by_time` with its gap at both
boundaries, `Doubled` the labels above the median, `RocAuc` the tie-averaged rank sum,
`Precision` the average precision.

### Billing

Notifications on an event loop. `process_ipn` runs synchronously on the loop of the
one API process, but the session it uses is a FastAPI dependency that commits in its
teardown, in a worker thread, after the response was sent. So a request goes through
the stages *payment* (row read), *subscription* (row read), *flushed* (written,
answered, row locks held) and *commit*, and the loop is free to run another handler
between the last two. `expires` is the subscription, `payment` the status per invoice,
`granted`, `first`, `began`, `last` remember what was granted. `raced` becomes true
when a handler starts while another transaction is open. A rejected or malformed
notification changes no state and is left out.

| action | code |
|---|---|
| `CreateInvoice`, `Pay` | `create_invoice`; the gateway |
| `Receive`, `Replay` | `receive_ipn`, the replay guard of `process_ipn` |
| `ReadSubscription`, `FlushActivation`, `InsertConflict` | `activate_or_extend`, its reward, the failing insert of a second subscription |
| `FlushStatus` | the branch for every other status |
| `StartTeardown`, `Commit` | the teardown of `get_db_session` |
| `Restart` | the process dies, its open transactions are rolled back |

### Factory

One tick is one transaction around a purchase and any number of promotions, and nothing
keeps two ticks apart: the beat, a redelivered task and the admin's button all call
`run_factory_tick`. `row`, `until`, `spent`, `pool`, `others` are what is committed;
`run` is a tick under way: the account it bought, its price, what is left to judge, the
account in hand, and what it has flushed (`wrote`, `added`). `leased` and `registered`
are outside the database and do not roll back.

| action | code |
|---|---|
| `StartToBuy`, `StartToPromote` | `_read_pool_health`, `needs_topup`, `can_afford` |
| `NoNumber`, `BuyFails`, `Buy` | `buy_number`, `allocate`, with the errors caught and not caught |
| `Register`, `CodeTimeout`, `RegisterRejected` | the rest of `_provision` and of `_buy_phase`: row with its cost, transitions up to probation, or the off-ramps |
| `Reject`, `Admit`, `JudgementFails` | one turn of the loop of `_promote_phase`: probe, then `transition` or the count of `upsert_revive_or_add` |
| `InsertPoolRow`, `InsertFails`, `Write` | the flushes, which wait for rows another tick has written |
| `Commit`, `Dies` | `get_session` |
| `AddByQr`, `Advance` | a QR login of the owner; the clock, in days |

A row is read and written in separate steps, because `transition` reads without a lock;
committed state that changes in between is overwritten. `raced` collects the accounts two
ticks judge at once, `undone` those of a rolled-back tick; the properties are stated
for the others, and TLC finds each of them violated without these conditions.

### Sweeps: Renewals, Lifecycle, Showcase; Watch

`Sweeps` has what the three sweeps share: runs that overlap (`crossed`) and faults.
Each sweep reads rows, sends, and marks afterwards: `ReadPlan`, `Remind`, `MarkReminded`;
`LifecycleStep`, with the opt-out read again before each send; `ShowcaseStep`: fix the
cases, choose, commit a pending row, re-read, send, mark. `RemindLost`, `MailerDies`,
`TickDies` are a death between the send and the commit of its mark.
`Watch` has the metric task (`BeginMeasure`, `PublishVerdict`, `Warn`), the collector's
report at the end of a read that did not raise (`BeginReport`, `PublishHealth`, `WarnPool`),
the read that finds no account to use (`ReadRefused`), and the keys between them. Its time
has no bound: all instants are ages.

### Service: Feed, Ratings, Access, Figures, Supply

What is asked of the system at its edges while it writes, each part with variables and a
`Next` of its own:

* `Feed`. The alert list: `ListAlerts` answers one page from a keyset cursor of `first_seen`
  and id, with one row more than fits to know of a next one, while `AddAlert`, `NextDay`,
  `ChangeTariff` change what is there. The live signals: `DeskChannels`, `DeskScores`,
  `DeskAlerts` are the three queries, between which `Hear`, `Rescore`, `AlertOn` commit.
* `Ratings`. `Tap`, `Upsert`, `Answer` of a feedback link beside other taps and
  `DeleteAccount`, `AccountDeleted` with its cascade; `Come` and `MeasureLatency`:
  delays on the clocks of others, cut off at 0, and interpolated percentiles.
* `Access`. API keys: `MatchKey`, `CheckPlan`, `FlushKey`, `CommitKey` of a request with a
  key, `StartRevoke` of one that revokes it; the ORM writes the column that was assigned.
  Sign-up: `AskLink`, `FlushLink`, `ShowLink`; `Register`, `Resolve`, `Bind`; `Verify` and
  its welcome mail.
* `Figures`. A job counts yesterday and today, one SELECT for each figure (`CountPaid`,
  `CountChurned`, `CountActive`), upserts and commits, beside payments whose instant is
  set before their commit; and what the operators' page makes of the rows of its window
  (`Funnel`, 30 days) and of the payers whose first payment is older still (`Matured`,
  35 days).
* `Supply`. One account of the factory from number to login, call by call: each may be
  refused, get lost, or get lost with its answer (`astray`); proxies from a lease or from the fixed
  pool; the rejection of an account on probation, whose port is given back (`Rejects`) before
  the tick commits it as failed (`Rejected`) or rolls it back (`RejectionLost`); the
  operators' list, one SELECT for each state.

## 3. The runs

| run | instance | shows |
|---|---|---|
| `service` | 2 workers, 3 tokens, TTL 2, soft 2, hard 4; 3 alerts, pages of at most 2, histories 0 to 2, 2 clusters in 2 channels; 2 alerts with taps, delays -1 to 2; 1 key, 2 callers, 1 newcomer; 2 payers, 2 jobs, clock to day 3, funnel of 1 day, matured after 2; 2 attempts, 1 fixed proxy | with the collect tick's limits: a task loses its lock only after a full TTL, releases never hit a foreign lock, the protocol implements the lease (`HeldLikeALease`), the key is freed again and again; pages without gap or double (`PagesHold`), the last tap stands and percentiles are sound (`RatingsHold`), revoked keys, links and welcome mails (`AccessHolds`), payers counted once (`FiguresHold`), nothing paid for leaks (`SupplyHolds`) |
| `alert_delivery` | a delayed alert with two channels, one without channels; 2 tasks, 1 retry, sweep of 1, 1 fault | no early delivery, duplicates only by a race (`ShownInTimeAndOnce`), no false status (`RowTellsOutcome`), every alert settles |
| `collect` | 2 sources of different kinds, 2 ticks, clock to 2, retention 1, 1 post | no silent gap below the marker; every post is buffered or knowingly left behind |
| `account_pool` | 2 accounts, 2 channels, 2 coroutines, 2 troubles, 1 cut tick | until a tick is cut the books are true and no resting account is asked (`BooksKept`); a channel is tried again and again as long as an account is left |
| `collectors` | 2 children; 2 accounts, 2 requests, 2 sessions, cap 1; 1 Twitter account, 1 tweet, budget 1; 1 subreddit, 2 submissions, the newest one per answer; 2 logins, 2 polls | sessions, logins and budget within their bounds, nothing skipped but for a cause that is told, cadence, refusals, and what is stored comes into rotation |
| `user_batch` | 2 tenants, a shared source, two rows in another spelling, 5 posts of which one is a repost, 2 copies of one, a buffer holds 2 | nothing vanishes, a copy is used once, no buffer that a row names waits for ever (`PostsAccounted`, `BufferedIsProcessed`) |
| `user_batch_shared` | the same, 1 post | *violation*: only one of two tenants gets a shared post |
| `scoring` | 2 users, 2 clusters of the first, of one topic or two, 2 ticks, limit 1, 1 fault | the guards hold outside races, one hand-off per alert, every user's turn comes unless ticks keep failing |
| `tenant` | 2 rows, 2 packs, limit 1, 2 requests; embeddings 0, 2, 3, four posts; a story of 3 posts in 2 channels, posts dated up to 1 before or ahead of their batch, windows of 15 and 30, 2 ticks; 5 stories at the gate, a fifth trains, a fifth validates, gap 1 | plan limit and settings but for races, centroids and the end of stories, snapshots and scores that follow a story, an honest report |
| `billing` | 2 invoices, 2 requests, period 1, grace 1, clock to 2, 1 restart | without an overlap: granted once, periods add up and no free time (`ServedAsPaid`), reward to the first; with overlaps too: every paid invoice is processed |
| `factory` | 2 ticks at once, 3 accounts, number and proxy for 1 each, budget 2, pool of 1, probation of 1 day, 1 death | the books exceed the budget by a bounded amount; outside races proxies, rows and pool agree and final states stay (`RecordsFollowRows`); probation ends |
| `outreach` | 2 workers; windows of 3, 2 and 1 days, period 1; 2 clusters, 1 post a day; 2 faults | nobody swept in time runs out unreminded, opt-outs, nothing sent again but by a race, due mail is sent, what is shown is founded, trouble is told |

Every safety property above is a conjunction of what the theorems of section 4 state.
`TypeOK` is not in the configurations: it is proved in each Proofs module.

A property that several questions share is a conjunction of named parts:
`WatchlistsHold` is the plan limit and the settings, `PaymentsCountOnce` the grants and
the reward, `WarnedNotPestered` the reminders and the opt-out, `ClientsAccounted` the
sessions' bounds and the logins, `PostsAccounted` what vanishes and what is used twice.

The largest runs are `tenant` (2.08 million distinct states), `service` (1.52 million),
`collectors` (730,826), `outreach` (about 334,000) and `user_batch` (310,500); each takes
two to three and a half minutes on two workers.

### Why the bounds are enough

* **TaskLock.** A worker's run interacts with at most one holder at a time and with one
  key; two workers and one token more than workers give every order of acquire, expire
  and release. The limits are the smallest with the order that the code's values have (tick:
  soft = TTL < hard), with a hard limit of TTL + 2 so that a lock can expire and be taken and
  expire again under one task. The batch's order (soft < hard < TTL) needs no run: that two
  tasks are then never in the body at once is the theorem `BatchExclusion`.
* **Feed.** Three alerts on pages of one or two: a page that ends between equally old ones, and
  a third alert that comes behind the cursor or before it. Two clusters share a channel or not.
* **Ratings, Access.** Two taps or requests cross in every way; a third tap meets
  what two have left.
* **Figures.** Two runs cross in every way. The window is shorter than the age at which a payer
  has matured, as in the code (1 and 2 days for 30 and 35), and the third date is the first on
  which somebody has left the window and matured; a term of one day makes payers churn
  and renew.
* **Supply.** Two attempts choose a proxy side by side or one after the other; the pool of one
  is used up by one account.
* **AlertDelivery.** A race takes two dispatches of one alert, which the two slots give;
  the second alert competes for slots and for the sweep's batch of one, and covers the
  owner without channels. One retry distinguishes a first from a last attempt, one
  fault reaches every loss and every redelivery.
* **Collect.** Two ticks overlap in all ways; the clock passes the lookback and the retention
  (1) and reaches the marker's expiry (2). One kind may be without a collector for a while.
  The properties speak of each post by itself, and posts do not influence the ticks, so one
  post at any instant in any source stands for all.
* **AccountPool.** Two coroutines share the cursor only after a cut; two accounts are the
  fewest with a rotation, two channels the fewest that one tick reads with different ones.
  A flood is shorter or longer than the cap for waiting inline.
* **Collectors.** Caps of one are exceeded by two; two children differ in what they have
  cached; one tweet, two submissions for an answer of one: each is more than fits.
* **UserBatch.** The interesting cases are a shared source, a source of one's own, a
  near-duplicate, a post written again, a row whose spelling is not the buffer's, a buffer that
  overflows: the instance has one of each.
* **Scoring.** A limit of one is reached by the first alert. Deadlock takes two clusters and
  two ticks; the second user, who has none, shows that the tick goes on.
* **Tenant.** A limit of one is exceeded by two requests. Three embeddings give near, near
  enough to merge, and neither; four posts give two batches with two groups, one of which
  merges. Two overlapping ticks and windows meet at every order of snapshot and growth; the
  third post raises the count behind a snapshot. Of five stories three are tested: a median
  that is one of them, ties, one class only. `CONSTRAINT Counted`: once two requests have
  counted side by side, adaptation and patches are not followed further; nothing the limit
  says is about them. Rows, packs, requests and ticks are symmetric (`Alike`); no
  liveness is checked in this run.
* **Billing.** Two invoices give renewals before and after the expiry; two requests
  the overlap. The clock passes one period and the grace. `MaxExpiry` caps the expiry at a value that only repeated grants reach.
* **Factory.** Two ticks give every overlap of a purchase and of a judgement; the theorems hold
  for any number. Three accounts are one more than the budget pays for, so that the overspending
  of two ticks happens. The pool of one is full as soon as anything is in it. The probation ends
  within the clock.
* **Outreach.** Two runs of a sweep overlap in all ways; three windows leave one between
  the first and the last; two faults lose a mark and fail its repetition. The cap of one
  with two clusters makes the cap decide.

`CHECK_DEADLOCK FALSE` stands in `billing`, `tenant`, `collectors` and `service`, where the
clock, the posts, the invoices or the attempts are used up and nothing more can happen.

### Fairness

* `TaskLock`, in `Service` when the lock is followed: time passes and the pool enforces its
  hard limit. A body may hang, no release need run. Nothing else of `Service` has a fairness.
* `AlertDelivery`: the clock, the beat that fires the resweep, the broker, and workers
  that do not die go on. Nothing forces an alert to exist, a channel to accept or a
  process to die; faults are finite in number.
* `Collect`: the beat starts ticks and one that does not die goes on. `EveryPostSettles` has
  the premise `TicksRead` (from some point on ticks end only when done): ticks that all die
  read nothing, and the model is free to let them.
* `AccountPool`: time passes, ticks start, a coroutine that can go on does.
* `Collectors`: only that a child is recycled at last (`max_tasks_per_child`): this alone
  brings a stored session into a child that missed the signal.
* `UserBatch`: the batch of each user goes on, with the premise `BatchesDrain`.
* `Scoring`: ticks start, PostgreSQL finds deadlocks, a tick that can go on does; an
  upsert that waits for a row gets it when the row comes free again and again (strong:
  PostgreSQL's lock queue is first come, first served). Premise of `EveryUserScored`:
  ticks do not keep failing.
* `Billing`: a handler that has begun and a commit go on (weak); the loop serves a finished
  request's teardown and the repeated notification in their turn (strong: the loop is
  taken and freed in between, and the event loop's queue is first come, first served).
  The gateway repeats until it gets a 200. `PaidIsProcessed` has the premise that the loop
  comes free again and again: a handler that waits for a row lock *on the loop* keeps
  out the teardown that would release it, and nothing in the repository says when
  that wait ends (listed as a hazard).
* `Factory`: time passes, the beat starts ticks, one that does not die goes on.
  `ProbationEnds` has the premise `TicksCommit`: a tick that fails to buy ends before its
  promotions, and one account that cannot be promoted rolls back those before it and bars
  those behind it, tick after tick (listed as a hazard).
* `Outreach`: lifecycle sweeps go on, time passes, the metric task begins again and again. As
  long as an account can be used, reads that do not raise end in reports again and again
  (`ReportRead`); without one, channels that are not being skipped ask for one again and again
  and are refused (`ReadRefused`), and a report comes at most from a channel that is being skipped.
  What is published and sent is strongly fair, since a report may end early, but not always.

## 4. What is proved

For all values of the constants that satisfy the ASSUME of the module: any number of
users, workers, accounts, clusters, posts, ticks, any limits and lifetimes. Every
safety property that a passing run checks is the statement of a theorem.

| module | theorem | states | further assumption |
|---|---|---|---|
| `TenantProofs` (locks) | `LockTypeCorrect`, `LeaseLasts`, `Exclusion`, `OwnReleasesOnly`, `Refinement`, `LeaseIsHeld` | `LockTypeOK`, `LeaseLastsTTL`, `ExclusiveWithinLease`, `NeverDropsForeignLock`, `ImplementsLease`, `HeldLikeALease` | — |
| | `BatchExclusion` | `MutualExclusion` | `HardLimit < TTL` |
| `TenantProofs` (batch) | `BatchTypeCorrect`, `PostsAreAccounted` | `BatchTypeOK`, `PostsAccounted` | — |
| `TenantProofs` (tenant) | `TenantTypes`, `WatchlistsAreKept`, `StoriesAreHeld`, `VerdictsAreFair`, `ReportsAreHonest` | `TypeOK`, `WatchlistsHold`, `StoriesHold`, `VerdictsFollowGrowth`, `ReportIsHonest` | — |
| `IntakeDeliveryProofs` (delivery) | `TypeCorrect`, `DelayHonoured`, `DeliveredIsTrue`, `AtMostOnceWithoutRace`, `OutcomeRecorded`, `RowIsTrue`, `ShownWell` | `TypeOK`, `NeverBeforeDue`, `DeliveredMeansReached`, `DuplicateOnlyByRace`, `AcceptedIsRecorded`, `RowTellsOutcome`, `ShownInTimeAndOnce` | — |
| `IntakeDeliveryProofs` (intake) | `CollectTypeCorrect`, `MarkerIsSafe`, `PoolTypeCorrect`, `BooksAreTrue`, `RestingIsLeftAlone`, `BooksAreKept` | types, `NoSilentGap`, the two parts of `BooksKept` and itself | — |
| `CollectorsProofs` | `CollectorsTypes`, `ClientsAreAccounted`, `NothingIsSkipped`, `WindowsAreContiguous`, `SubmissionsAreSettled`, `BudgetIsNearlyHeld`, `CadenceIsKept`, `RefusalsHaveCause` | `TypeOK`, `ClientsAccounted`, `NothingSkippedSilently` with its two halves, `BudgetNearlyHeld`, `CadenceKept`, `RefusedForCause` | `None` is no pool |
| `ScoringProofs` | `TypeCorrect`, `RateHolds`, `TopicsStayApart`, `GuardsHold`, `HandOffIsSingle` | `TypeOK`, the two halves of `GuardsPassedOnlyByRace` and itself, `HandedOverOnce` | — |
| `BillingProofs` | `TypeCorrect`, `PaymentsAreGoodOnce`, `RenewalsAddUp`, `NothingForFree`, `TimeIsExact` | `TypeOK`, `PaymentsCountOnce`, `PaidTimeServed`, `NoFreeTime`, `ServedAsPaid` | — |
| `FactoryProofs` | `TypeCorrect`, `BudgetHeld`, `PoolAgrees`, `ProxyFollows`, `RecordsFollow`, `FinalStays` | `TypeOK`, `OverspendBounded`, `PoolMatchesRows`, `ProxyFollowsAccount`, `RecordsFollowRows`, `FinalIsFinal` | — |
| `OutreachProofs` | `OutreachTypes`, `Founded`, `NothingSentAgain` | `TypeOK`, `ContradictionFounded`, `SentAgainOnlyByRace` | — |
| | `RemindersAndOptOuts` | `WarnedNotPestered` | two different windows |
| `ServiceProofs` | `ServiceTypes`, `PagesAreWhole`, `RatingsAreKept`, `AccessIsKept`, `FiguresAreKept`, `SuppliesAreKept` | `ServiceTypeOK`, `PagesHold`, `RatingsHold`, `AccessHolds`, `FiguresHold`, `SupplyHolds` | — |

None of the properties is inductive by itself. What each proof adds:

* **TaskLock.** Who has a token follows from the place (`PlacesInv`), a token names one
  acquisition (`TokensDiffer`), a present key has a time to live (`KeyExpires`); a task that
  still has its lock has run as long as the lock has been held, `ttl + elapsed >= TTL`, and one
  that has lost it has run a full TTL (`LeaseInv`); a clean WATCH still shows the key (`WatchInv`),
  which gives `OwnReleasesOnly`. The exclusion follows: of two in the body one has lost
  its lock, hence has run a full TTL, which a hard limit below the TTL forbids. `Refinement`
  maps each step to one of `Lease`, or to a stutter.
* **AlertDelivery.** Per task: one that has gone past `Load` has found its alert due; one
  that is *accepted* has reached somebody. Outside races: at most one working task per
  alert, its `loaded` is the row, and a reached alert is delivered or in the hands of
  the task that will write it.
* **Collect.** The invariant carries the marker's property over to every running tick:
  what is older than a tick's `since` was covered when it began, what lies between `since` and its
  start and belongs to a source already done is covered, and all that is published
  later is not older than the start. A tick that ends puts what it passed over for want of a
  collector on record with the marker (`PassedBy`), so nothing is assumed of the kinds.
* **AccountPool.** Until a cut one coroutine reads (`OneReader`), for the channel it holds
  (`ForARef`), and nothing turns the cursor between its request and the answer.
* **Collectors.** Sessions: every client is of a session its child has a slot for, a swap
  connects only what is not connected, and a popped pool is closed before another is built
  (`SlotsStored`, `ClientsMatch`, `SwapReady`, `PoppedCloses`), so that
  rebuilds and swaps in any order leave one client. Twitter: a stamp is at most the end of
  what was asked for, the windows of one account meet (`WindowsMeet`, `Stamped`, `Paced`), what
  is charged lags by one read of each child (`ChargeBounded`). Reddit: what is older than the
  pass is settled ref by ref (`OldSettled`, `ReadSettled`), a token's dates and who chose it
  (`TokenDated`, `TokenChosen`). QR: every client is in the registry or in hands that
  disconnect it (`AllHeld`), and starts past the cap count themselves (`CapHeld`).
* **UserBatch.** That nothing is lost needs only that the state is typed and that an idle
  batch holds nothing (`IdleHoldsNothing`); the proof goes through `Drain` and `Persist`, with
  the near-duplicate that stands for a dropped post. That a copy is used once is a
  conservation law: the copies in buffers, batches, rows and losses are counted as one set,
  and each step adds or takes one element (`CopiesInv`).
* **Scoring.** `HandOffs`: an alert is in the memory of one tick or of none. `Undisturbed`: as
  long as no guard was passed beside another transaction, what a guard has counted is all
  there is.
* **Watchlists.** What a patch and an adaptation have read differs from the row only where
  `raced` says so (`PatchesOfRows`, `AdaptsOfRows`). Until requests have counted side by side, a
  request that has passed its check is alone of its kind (`AloneOfItsKind`) and there is room
  for what it will write (`RoomForRow`, `RoomForPack`).
* **Clusters.** The three copies are sequences over the same clusters with the same births
  (`ClustersInv`); a group or held cluster whose count is known has the sum of its posts
  (`Counting`), so the merged centroid, weighed by count, is the mean (`MeansAreWeighted`).
* **Verdicts.** A tick's inputs are the posts up to its start, in its order among the ticks
  (`TicksWell`, `TicksAhead`); windows that are due have nothing uncaptured below them
  (`Complete`); a tick that none overlaps holds no less than any snapshot (`TickAlone`,
  `SnapshotsGrow`). The bounds of the score go through lemmas on fractions (`FracIsSame`,
  `PlusIsMonotonic`, `TimesWithin`), which hold for whatever Euclid's algorithm computes:
  `Frac` keeps a fraction that its divisor does not divide.
* **Evaluation.** `Sorted` picks by counting what comes before. That the ranks exist and
  differ (`RanksExist`, `RanksDiffer`) is the pigeonhole principle; it follows that births
  follow the order (`OrderIsKept`), that the shares leave room (`ValidatedFits`), that the parts
  are apart, and that at most half are above the median (`HalfAtMostDouble`). The figures are
  folds over sets and sequences. `SmallestFails` gives the induction they need: of the finite
  sets on which a statement fails there is one without a smaller one. With it a rank sum
  becomes a sum over pairs (`SumOfRanks`), hence ROC-AUC the share of the pairs ordered
  rightly (`RocIsShareOfPairs`). For PR-AUC, an order that has its hits earlier has at each hit
  the higher precision (`HitsComeEarlier`, `EarlierHitsArePreciser`); a fraction's lead over
  another is kept by whatever is added to both (`Gap`, `LeadIsKept`), so the average is
  higher too (`PrecisionIsMonotonic`), and of orders by the same scores the one that puts
  misses first has its hits last (`TiesAreOrdered`).
* **Billing.** The invariant is conditional on `~raced`: then at most one transaction
  is open (`Alone`), what it has read is still true (`Fresh`), and the expiry is a function of the
  history (`Ledger`): between `began` plus a period per grant and `last` plus a period per
  invoice paid. Without the condition each part fails.
* **Factory.** The budget: what is spent plus one account for every tick that has passed
  `can_afford` stays covered (`Covered`), a sum over the ticks that pay. The rest first reduces
  each action to what it does to rows, pool, proxies and the tick's hands (`Effect`). Then,
  with the knowledge each tick has of its own purchase and of what it flushed (`Kept`), an
  account no two ticks judge at once is in one tick's hands only and on probation until that
  tick commits (`Serial`), so a commit takes it from probation or from nothing; pool and
  final states follow. `Proxied` follows a proxy through the hands of its tick.
* **Outreach.** Each sweep has an invariant of its own (`WatchInv`, `RenewalInv`,
  `LifecycleInv`, `ShowcaseInv`) and one more for what holds until runs cross
  (`RenewalRace`, `LifecycleRace`, `ShowcaseRace`): a row in the hands of a run is as that run
  read it. `ContradictionFounded` adds up the ages and lifetimes of the keys on the way.
  With a single window `WarnedNotPestered` is false: the mark left by the last period makes the
  sweep skip the only reminder of the next one. The code has three
  (`RENEWAL_REMINDER_DAYS`).
* **Feed.** `ListInv`: what the reader has is in order, the cursor is the last of it
  (`CursorIsLast`), and what of his history he has not is behind the cursor. A page is the first of a
  sorted sequence, so it continues that order and leaves nothing out between (`Sorted` and its
  ranks, from the lemmas for the gate). `DeskInv`: a scored cluster stays scored, hence a channel
  that was heard of when the request came finds a score in the second query.
* **Ratings.** A tap that is alone has read what is stored and writes what it answers
  (`TapsWell`); once the account is gone every tap that waits finds no alert
  (`GoneLeavesNothing`). A percentile lies between two order statistics, which are picked by
  counting what comes before, so the figures are in order.
* **Access.** A request that may write `revoked_at` is the one that revokes; the others
  assign another column (`KeyInv`). A use that none crossed is alone from its match to its
  commit, so what it has read of `last_used_at` is the row (`UsedAlone`). One who asks for his link
  alone flushes the code he shows (`OneAsks`); of the requests that verify a newcomer only
  ones side by side both find him unverified (`OneVerifies`).
* **Figures.** `FigureInv` says of every row, and of every count a run has in its hands, what
  the payments of that day say, as long as the day is neither `overdue` nor `straddled`: a
  payment of a day that is over is `overdue`, and counts that differ because of a renewal
  between them are `straddled`. The page's sum over its window is then at most the number of
  payers first seen on the days of the window, a union of disjoint sets (`SumIs`), to which no
  matured payer belongs, since the window is shorter than the age of the matured
  (`FunnelDays < Maturity`, assumed of the constants as it is of `money.py`'s). The type of
  `ends` needs more than types: no subscription ends later than today plus the terms its
  payments bought (`EndsWithin`).
* **Supply.** `CostInv` says for every place of an attempt what has been paid for and is not
  yet given back (`Fits`); the only steps that leave it are marked `astray`. A proxy of the
  fixed pool that is chosen is free, or used by an account `beside` (`ShareInv`). What is listed
  of an account that nothing moved is its state, so it is met once (`ListingInv`).

Each Proofs module ends with the temporal theorems, obtained from these invariants.

### Only model-checked

* All liveness (`LockFreedAgain`, `EveryAlertSettles`, `EveryPostSettles`, `EveryRefTried`,
  `StoredServes`, `BufferedIsProcessed`, `PaidIsProcessed`, `EveryUserScored`,
  `ProbationEnds`, `DueMailIsSent`, `TroubleIsTold`): fairness and `ENABLED` are beyond
  the prover.

The library's induction theorems take the statement as an operator parameter, which the
provers cannot instantiate. Where a proof here needs an induction over data it goes through
a smallest or first counterexample, which first-order set theory can state (`SmallestFails`).

`ImplementsLease` is a safety property and is proved.

## 5. What the models found

Kept as a run:

* **`user_batch_shared`.** Buffers are per source and drained destructively per user:
  of the tenants that watch a source one gets each post.

Found with TLC, and reproducible from the configurations here:

* **Period granted twice.** The replay guard reads a status whose change is committed after
  the response: two notifications of one invoice close together grant two periods.
  (`PaymentsCountOnce` without the `~raced` of its first half, in `billing.cfg`.)
* **`failed` over `delivered`.** The grace of the resweep counts from the cluster's `first_seen`,
  so an alert of an older cluster may be dispatched twice at once; the dispatch that
  fails last overwrites `delivered`. (`alert_delivery.cfg` with `NumAlerts = 1`,
  `MaxFaults = 0`, no delay: a failed alert that reached nobody, without the `raced`.)
* **One marker for all kinds.** A kind whose credentials arrive later starts reading at a
  marker that others have moved. (`collect.cfg` with `NoGapWhenCredentialsArrive`: what
  `NoSilentGap` says, without the posts that a tick has `passed`.)
* **Hard cap for the books only.** Recording a purchase and promoting accounts are one
  transaction. A due account that finds the pool full rolls back the purchase just made, and its
  cost with it, so every tick buys again. (`factory.cfg`, one tick at a time: the price of
  what is `registered` against the budget.)
* **Rows never drained.** Handles are stored as typed (`api/watchlist/refs.py:50`,
  `api/packs/data.py:100`) and `buffer_key` normalises Telegram handles only: posts of a
  Twitter or subreddit row in another spelling wait in a buffer that no batch reads, and
  those of a mixed-case Telegram row are drained and then skipped.
* **Reminder suppressed.** `last_reminder_window` survives a renewal, so
  the window it names is skipped in the next period; with a single window nothing would be
  sent at all (found while proving `WarnedNotPestered`).
* **Cap of the showcase.** Two ticks that post the same cluster count it once
  (found while proving `NothingSentAgain`), although a comment says that the UNIQUE
  constraint prevents a double post.

Seen while modelling:

* *Ticks.* A collect tick that outlives its soft limit shares the account pool with the next one,
  although a comment promises the contrary (`collector/tasks.py:343`). From then on answers are
  booked on the wrong account. A connect error outside the handlers ends the whole tick; the
  skip counter compares `==` its threshold and never trips again.
* *Sessions.* The signals are set before the commit and consumed by one prefork child: the
  others learn of a session when they are recycled, and two children may hold clients of one
  session. Two writers that count before they insert fill `pool_sessions` beyond
  `POOL_MAX`.
* *QR logins.* `reap_expired` runs only inside `start()` at the cap, though docstring and
  constant promise a periodic sweep: an abandoned login stays connected. The comment that the
  minted session "is still handed back" on a 409 (`api/routes/pool_admin.py`) does not hold; a
  scan that races the expiry loses its session; `poll` can raise `CancelledError`.
* *Twitter.* The stamp is set before the read and outlives the pause: a failed read loses its window
  silently. The budget is checked before and charged after; resolving a name is not charged.
* *Reddit.* Rows are distinct by raw handle: a subreddit in two spellings is read twice, though
  `dedup.py` says once. Only the newest 50 of a tick are read; undated submissions pass `since`
  in every tick.
* *Buffer.* LTRIM keeps the posts pushed last, though the reader pushes the newest first; posts
  without text count as near-duplicates of each other.
* *Clusters.* A second group of one batch that merges into a cluster is weighed against the rows flushed
  before the first, against the comment "weighted by current members"
  (`batch_processor.py:394`).
* *Verdicts.* `first_seen` is the time of the batch, and a snapshot counts posts with `posted_at >=
  first_seen`: a story of one batch never gets one, though `scorer/tasks.py` says "for EVERY
  fresh cluster". A DB error in the snapshot's SELECTs, outside the savepoint, aborts the
  transaction though it is caught. In `score.py`, "temporal collapses to 0" for one channel
  and "unique <= watched by definition" do not hold; the clamp keeps the score at most 100.
* *Scoring.* No error of one user is contained: it ends the tick for those behind. Alerts
  of clusters older than the rate window escape the rate guard.
* *Watchlists.* A PATCH crossing an adaptation loses one of the two; saving the adapted value again
  ratchets the floor. A pack whose rows all conflict leaves no marker and takes no slot.
* *Showcase, reminders, mails.* All send first and mark afterwards; overlapping sweeps read
  only the opt-out again.
* *Watch.* Health is published per ref and not per cycle; when every ref fails none is, and the
  degradation disappears with the snapshot: then only `pool_exhausted` or `all_flood`
  tells. A warning that fails to send uses up its throttle.
* *Gate.* The docstring of `split_by_time` asks more of the gap than the guarantee needs: the
  proof of `PartsApart` uses only the boundary of the test part. Ties in the average precision are
  ranked by test order.
* *Feed.* The stable order of the pages is no snapshot: alerts behind the cursor that are added
  later show up, those before it do not; those he began with are shown all the same.
* *Ratings.* The docstring of `signal_latency` excludes alerts without posts from the end-to-end
  figure, but the LEFT JOIN gives them NULL and `GREATEST(NULL, 0)` counts them as 0. Two
  taps that cross leave the verdict that commits last.
* *Access.* A request that matched a key before its revocation is still served. Two first
  requests for a referral link may show two codes, of which one binds nobody; two requests that
  verify one user send two welcome mails.
* *Figures.* A payment dated before midnight and committed after the day's last count is in no row.
  The page's funnel covers 30 days and its repeat rate only payers older than 35, so no payer
  is in both figures.
* *Supply.* `_used_proxies` leaves promoted accounts out, so their proxies are given again; an
  order or a port whose answer is lost is known to nobody; an error after the registration
  cancels the number of an account that lives; a tick that rolls a rejection back has released the
  port of an account that is on probation again. The operators' list reads state after state and can
  miss an account that moves meanwhile, or show it twice.
* *Billing.* A handler may wait on the event loop for a lock that only the loop can release.

## 6. What is not modelled

Contents of messages, e-mails and signatures; embeddings (points of a line) and a trained
viral model; plans of different rank and their quotas (one paid plan stands for them); HTTP
access to platforms and channels (a nondeterministic outcome); a PATCH that moves a
watchlist to another channel or topic; which of a full buffer's posts is the oldest;
the offline harnesses outside the gate; framework code, what only goes to the log, and the
components marked so in the table above. External pieces — channels, broker refusal, the
gateway, redis-py's retry, the number and proxy providers, the locks and unique keys of
PostgreSQL — are modelled from how the code uses them.

## 7. Plan

What is left, the most important first:

1. The composition of `Collect` and `UserBatch`, from the platform to the rows, as a
   refinement of one abstract buffer: what `WritePost` may write covers what a tick buffers.
2. Abstract machines for the sweeps (a mark, a send, an expiry) and for the account's
   transitions, which `Renewals`, `Lifecycle`, `Showcase` and `Factory` implement outside races.
3. Bounds for the figures of the gate: that ROC-AUC and PR-AUC lie between 0 and 1 follows
   from ranks and needs no fold beyond a sum.
4. The rest of the HTTP API: sessions and passwords, the packs' data, the operators' other pages.
