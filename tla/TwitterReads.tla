---------------------------- MODULE TwitterReads ----------------------------
(***************************************************************************)
(* The Twitter collector (collector/twitter/reader.py): within the collect *)
(* tick an account is read at most once an interval, up to a monthly       *)
(* budget, and not at all while the child it runs in pauses.               *)
(*                                                                         *)
(* Stamps and counter are in Redis, shared by all children; a pause is an  *)
(* attribute of the collector that a child caches (collector/registry.py). *)
(* Ticks may overlap (module TaskLock says when).  A tweet is its account  *)
(* and the instant of its publication.  The cache of user ids, the sleep   *)
(* before the one retry of a short 429 and a Redis that fails are left     *)
(* out: without Redis no tick gets its lock.                               *)
(***************************************************************************)
EXTENDS Integers, FiniteSets, FiniteSetsExt

CONSTANTS
  Children,    \* the Celery children
  Handles,     \* watched accounts
  Interval,    \* TWITTER_MIN_READ_INTERVAL_SECONDS
  StampTTL,    \* _LASTREAD_TTL_SECONDS
  PauseCap,    \* TWITTER_RATE_LIMIT_PAUSE_CAP_SECONDS
  Credits,     \* TWITTER_CREDITS_COOLDOWN_SECONDS
  Lookback,    \* collect_lookback_seconds
  MaxResults,  \* TWITTER_MAX_RESULTS_PER_TICK
  Budget,      \* MAX_TWITTER_READS_PER_MONTH
  MaxTime,     \* bound: the clock
  MaxTweets,   \* bound: tweets
  Nothing      \* no key, no account

ASSUME TwitterParameters ==
  /\ IsFiniteSet(Children)
  /\ Interval \in Nat \ {0} /\ StampTTL \in Nat /\ Interval < StampTTL
  /\ PauseCap \in Nat \ {0} /\ Credits \in Nat \ {0} /\ Lookback \in Nat
  /\ MaxResults \in Nat \ {0} /\ Budget \in Nat \ {0}
  /\ MaxTime \in Nat /\ MaxTweets \in Nat
  /\ Nothing \notin Handles /\ Nothing \notin Int

VARIABLES
  clock,
  tweets,   \* what has been published
  marker,   \* collect:last_tick_at
  stamp,    \* twitter:lastread:{handle}
  reads,    \* twitter:reads:{month}
  pause,    \* each child's _pause_until
  turn,     \* each child's pass over the accounts
  covered,  \* history: tweets in the window of a read, or given up for want of a stamp
  asked     \* history: when each account was last asked for

twitterVars == <<clock, tweets, marker, stamp, reads, pause, turn, covered, asked>>
outside == <<clock, tweets>>

Time == 0..MaxTime
Tweet == Handles \X Time
NoTurn == [at |-> "off", todo |-> {}, a |-> Nothing, from |-> 0, since |-> 0, start |-> 0,
           late |-> FALSE]

TwitterTypeOK ==
  /\ clock \in Time /\ tweets \subseteq Tweet
  /\ marker \in Time \cup {Nothing}
  /\ stamp \in [Handles -> Time \cup {Nothing}]
  /\ reads \in Nat
  /\ pause \in [Children -> Nat]
  /\ turn \in [Children -> [at : {"off", "refs", "marking", "asking"}, todo : SUBSET Handles,
                           a : Handles \cup {Nothing}, from : Int, since : Int, start : Time,
                           late : BOOLEAN]]  \* history: another child marked meanwhile
  /\ covered \subseteq Tweet
  /\ asked \in [Handles -> Time \cup {Nothing}]

TwitterInit ==
  /\ clock = 0 /\ tweets = {}
  /\ marker = Nothing
  /\ stamp = [a \in Handles |-> Nothing]
  /\ reads = 0
  /\ pause = [w \in Children |-> 0]
  /\ turn = [w \in Children |-> NoTurn]
  /\ covered = {}
  /\ asked = [a \in Handles |-> Nothing]

-----------------------------------------------------------------------------
(* The outside world.                                                      *)

Publish(a) ==
  /\ Cardinality(tweets) < MaxTweets
  /\ tweets' = tweets \cup {<<a, clock>>}
  /\ UNCHANGED <<clock, marker, stamp, reads, pause, turn, covered, asked>>

\* Time passes, Redis drops the stamps that expire, and pauses are over.
Advance ==
  /\ clock < MaxTime
  /\ clock' = clock + 1
  /\ stamp' = [a \in Handles |->
                 IF stamp[a] # Nothing /\ stamp[a] + StampTTL <= clock' THEN Nothing ELSE stamp[a]]
  /\ pause' = [w \in Children |-> IF pause[w] <= clock' THEN 0 ELSE pause[w]]
  /\ UNCHANGED <<tweets, marker, reads, turn, covered, asked>>

\* The counter's key names the month.
NewMonth ==
  /\ reads > 0
  /\ reads' = 0
  /\ UNCHANGED <<outside, marker, stamp, pause, turn, covered, asked>>

-----------------------------------------------------------------------------
(* A pass over the accounts.                                               *)

Step(w, place) == turn' = [turn EXCEPT ![w].at = place]
NextAccount(w) ==
  turn' = [turn EXCEPT ![w] = [@ EXCEPT !.at = "refs", !.a = Nothing, !.from = 0, !.late = FALSE]]

\* collect_watched_sources gives the window since the last tick.
BeginPass(w) ==
  /\ turn[w].at = "off"
  /\ turn' = [turn EXCEPT ![w] =
       [NoTurn EXCEPT !.at = "refs", !.todo = Handles, !.start = clock,
                      !.since = IF marker = Nothing THEN clock - Lookback ELSE marker]]
  /\ UNCHANGED <<outside, marker, stamp, reads, pause, covered, asked>>

Paused(w) == clock < pause[w]
\* A plausible bug: the last read of the budget is given away.
SpentLate == reads > Budget
\* _guard_read_budget.
Spent == reads >= Budget
\* _should_read_account.
Rested(a) == stamp[a] # Nothing => clock - stamp[a] >= Interval

\* A plausible bug: the stamp is read after it was set.
SinceAfterMark(a, since) == Min({clock - Interval, since})
\* _effective_since: the last read, no newer than one interval or the caller's.
EffectiveSince(a, since) ==
  Min({clock - Interval, since} \cup ({stamp[a]} \ {Nothing}))

From(a, t) == {p \in tweets : p[1] = a /\ p[2] >= t}
Before(a, t) == {p \in tweets : p[1] = a /\ p[2] < t}

\* The collector pauses, the month's budget is spent (once reported to the
\* operators), or the account was read a moment ago.
PassOver(w, a) ==
  /\ turn[w].at = "refs" /\ a \in turn[w].todo
  /\ Paused(w) \/ Spent \/ ~Rested(a)
  /\ turn' = [turn EXCEPT ![w].todo = @ \ {a}]
  /\ UNCHANGED <<outside, marker, stamp, reads, pause, covered, asked>>

\* The window is taken from the stamp; without one, what is older is given up.
Consider(w, a) ==
  LET from == EffectiveSince(a, turn[w].since)
  IN  /\ turn[w].at = "refs" /\ a \in turn[w].todo
      /\ ~Paused(w) /\ ~Spent /\ Rested(a)
      /\ turn' = [turn EXCEPT ![w].at = "marking", ![w].a = a, ![w].from = from,
                              ![w].todo = @ \ {a}, ![w].late = FALSE]
      /\ covered' = IF stamp[a] = Nothing THEN covered \cup Before(a, from) ELSE covered
      /\ UNCHANGED <<outside, marker, stamp, reads, pause, asked>>

\* A plausible bug: the attempt is not stamped.
MarkNothing(w) ==
  /\ turn[w].at = "marking"
  /\ Step(w, "asking")
  /\ asked' = [asked EXCEPT ![turn[w].a] = clock]
  /\ UNCHANGED <<outside, marker, stamp, reads, pause, covered>>

\* _mark_account_read, and the request leaves.
Mark(w) ==
  LET a == turn[w].a
  IN  /\ turn[w].at = "marking"
      /\ stamp' = [stamp EXCEPT ![a] = clock]
      /\ asked' = [asked EXCEPT ![a] = clock]
      /\ turn' = [v \in Children |->
                    IF v = w THEN [turn[v] EXCEPT !.at = "asking"]
                    ELSE IF turn[v].at = "marking" /\ turn[v].a = a
                           THEN [turn[v] EXCEPT !.late = TRUE] ELSE turn[v]]
      /\ UNCHANGED <<outside, marker, reads, pause, covered>>

Window(w) == From(turn[w].a, turn[w].from)

\* The newest MaxResults tweets of the window come back, and are charged.
Fetched(w) ==
  LET newest == {p \in Window(w) :
                   Cardinality({q \in Window(w) : q[2] > p[2]}) < MaxResults}
  IN  /\ turn[w].at = "asking"
      /\ covered' = covered \cup Window(w)
      /\ reads' = reads + Cardinality(newest)
      /\ NextAccount(w)
      /\ UNCHANGED <<outside, marker, stamp, pause, asked>>

Fails(w) ==
  /\ turn[w].at = "asking"
  /\ covered' = covered \cup Window(w)
  /\ NextAccount(w)
  /\ UNCHANGED <<outside, marker, stamp, reads, asked>>

\* SourceUnavailableError: an API or network error, a second 429, the soft time
\* limit; or no such public account.
Unavailable(w) == Fails(w) /\ UNCHANGED pause

\* _enter_pause: a long 429 or no credits; a pause is never shortened.
EnterPause(w) ==
  /\ Fails(w)
  /\ \E d \in (1..PauseCap) \cup {Credits} :
       pause' = [pause EXCEPT ![w] = Max({@, clock + d})]

EndPass(w) ==
  /\ turn[w].at = "refs" /\ turn[w].todo = {}
  /\ marker' = turn[w].start
  /\ turn' = [turn EXCEPT ![w] = NoTurn]
  /\ UNCHANGED <<outside, stamp, reads, pause, covered, asked>>

\* The child dies or is recycled, and its collector with it.
ChildEnds(w) ==
  /\ turn[w].at # "off" \/ pause[w] # 0
  /\ covered' = IF turn[w].at = "asking" THEN covered \cup Window(w) ELSE covered
  /\ turn' = [turn EXCEPT ![w] = NoTurn]
  /\ pause' = [pause EXCEPT ![w] = 0]
  /\ UNCHANGED <<outside, marker, stamp, reads, asked>>

Pass(w) ==
  \/ BeginPass(w) \/ Mark(w) \/ Fetched(w) \/ Unavailable(w) \/ EnterPause(w) \/ EndPass(w)
  \/ \E a \in Handles : PassOver(w, a) \/ Consider(w, a)

TwitterNext ==
  \/ Advance \/ NewMonth \/ \E a \in Handles : Publish(a)
  \/ \E w \in Children : Pass(w) \/ ChildEnds(w)

-----------------------------------------------------------------------------
(* Properties.                                                             *)

\* Whatever passes overlapped, paused or were cut, every tweet older than its
\* account's stamp lay in the window of a read that went out, or was given up
\* by one that found no stamp: consecutive windows leave nothing between them
\* (_effective_since: "since its previous read").
NoTweetSkipped ==
  \A p \in tweets :
    stamp[p[1]] # Nothing /\ p[2] < stamp[p[1]] =>
      \/ p \in covered
      \/ \E w \in Children : turn[w].at = "asking" /\ p \in Window(w)

\* The budget is checked before a read and charged after it, by several
\* children: it is exceeded by less than one full answer for each of them
\* (reader: "monthly read budget: hard stop").
BudgetNearlyHeld == reads < Budget + MaxResults * Cardinality(Children)

\* No account is asked for twice within an interval, whether the first read
\* succeeded, failed, paused the collector or died - unless two children had
\* both looked at the stamp before either set it.
CadenceKept ==
  [][\A w \in Children :
       turn[w].at = "marking" /\ turn'[w].at = "asking" /\ ~turn[w].late =>
         LET last == asked[turn[w].a] IN last = Nothing \/ clock - last >= Interval]_twitterVars
=============================================================================
