------------------------------ MODULE Verdicts ------------------------------
(***************************************************************************)
(* The viral score (scorer/score.py), what it is computed from             *)
(* (eval/science_features.py), the fallback model that ranks stories by    *)
(* the same formula without their posts (scorer/viral_model.py), and what  *)
(* the scorer ticks make of one story while its posts come in              *)
(* (scorer/tasks.py): snapshots of its first hour, one for each window,    *)
(* and the row of its score.  Ticks overlap: there is no lock on them, and *)
(* each works in a transaction of its own that waits for the rows another  *)
(* has written.                                                            *)
(*                                                                         *)
(* A batch stores posts some time after they were posted, and a story is   *)
(* first seen when its first batch is; a clock of a source may be ahead.   *)
(* Alerts and their guards are module Scoring's.                           *)
(*                                                                         *)
(* Times are minutes.  Terms are fractions of 1, and a score a fraction of *)
(* 100.  The logarithm of the engagement is a table in percent.            *)
(***************************************************************************)
EXTENDS Reckoning, FiniteSets, FiniteSetsExt

CONSTANTS
  Engaged,     \* weighted engagement -> engagement term, in percent
  Outlets,     \* the channels
  Subjects,    \* the topics the user watches, numbered in the order of names
  Covers,      \* topic -> the channels watched for it
  Observed,    \* OBSERVATION_WINDOW_SECONDS, in minutes
  Fresh,       \* scorer_recent_window_seconds
  Rolling,     \* score_window_seconds
  Scorers,     \* ticks that overlap
  Unit,        \* minutes from one moment to the next
  Late,        \* bound: how long before its batch a post was posted
  Skewed,       \* bound: how far the clock of a source is ahead
  Weights,     \* weights of a post
  MaxArrivals, \* bound: posts
  LastMoment   \* bound: the clock

ASSUME VerdictsParameters ==
  /\ Subjects \subseteq Nat
  /\ IsFiniteSet(Outlets) /\ Covers \in [Subjects -> (SUBSET Outlets) \ {{}}]
  /\ Observed \subseteq Nat
  /\ Fresh \in Nat /\ Rolling \in Nat /\ Unit \in Nat \ {0}
  /\ Late \in Nat /\ Skewed \in Nat
  /\ Weights \subseteq Nat /\ MaxArrivals \in Nat /\ LastMoment \in Nat

ASSUME ScoreParameters ==
  \A n \in DOMAIN Engaged :
    /\ Engaged[n] \in 0..100
    /\ \A m \in DOMAIN Engaged : m <= n => Engaged[m] <= Engaged[n]

AtLeast(a, b) == IF a <= b THEN b ELSE a

\* A post of a story: its number, when it was posted, its channel, and what it
\* weighs, views + 3 * forwards + 2 * reactions.
Moments(ps) == {p.at : p \in ps}
Extent(ps) == Max(Moments(ps)) - Min(Moments(ps))
ChannelsOf(ps) == {p.ch : p \in ps}
Weight(ps) == MapThenSumSet(LAMBDA p : p.weight, ps)

-----------------------------------------------------------------------------
(* science_features: rates per hour over the posts of a window.            *)

\* ewma_acceleration: posts in the later half less those in the earlier, by the
\* hours of a half, of which there is a minute at least.
Acceleration(ps) ==
  LET early == {p \in ps : 2 * (p.at - Min(Moments(ps))) <= Extent(ps)}
  IN  IF Extent(ps) = 0 THEN Zero
      ELSE <<120 * (Cardinality(ps \ early) - Cardinality(early)), AtLeast(2, Extent(ps))>>

\* breadth_velocity: channels per hour, over a minute at least.
Breadth(ps) == <<60 * Cardinality(ChannelsOf(ps)), AtLeast(1, Extent(ps))>>

-----------------------------------------------------------------------------
(* The three terms.                                                        *)

\* What a score is computed from; without posts (the fallback, the offline
\* replay) the aggregates must do.
Inputs(ps, watched) ==
  [posts |-> ps, weight |-> Weight(ps), unique |-> Cardinality(ChannelsOf(ps)),
   delta |-> Cardinality(ChannelsOf(ps)), span |-> Extent(ps), watched |-> watched]

\* _temporal: the mean of the positive part of the acceleration and of the
\* breadth, which takes two channels.
Temporal(in) ==
  LET accel == IF in.posts = {} THEN Zero
               ELSE Capped(Over(Floored(Acceleration(in.posts)), 10))
      rate == IF in.posts = {} THEN <<60 * in.delta, AtLeast(60, in.span)>> ELSE Breadth(in.posts)
      wide == IF in.posts = {} THEN in.delta >= 2 ELSE Cardinality(ChannelsOf(in.posts)) >= 2
  IN  Over(Plus(accel, IF wide THEN Capped(Over(rate, 30)) ELSE Zero), 2)

\* _engagement: capped at 1, which all that is off the table has reached.
Engagement(weight) == <<IF weight \in DOMAIN Engaged THEN Engaged[weight] ELSE 100, 100>>

\* A plausible bug: "unique <= watched by definition".
CrossUnclamped(unique, watched) ==
  IF watched <= 0 THEN Zero ELSE <<unique, watched>>

CrossChannel(unique, watched) ==
  IF watched <= 0 THEN Zero ELSE Capped(<<unique, watched>>)

\* compute_components.
ViralScore(in) ==
  Plus(Plus(Times(15, Temporal(in)), Times(55, Engagement(in.weight))),
       Times(30, CrossChannel(in.unique, in.watched)))

-----------------------------------------------------------------------------
(* The shadow model.                                                       *)

\* EarlyFeatures: channels, posts, the logarithm of the engagement, channels
\* per hour over an hour at least.
Features(in) ==
  [ch |-> in.unique, posts |-> Cardinality(in.posts), weight |-> in.weight,
   burst |-> <<60 * in.unique, AtLeast(60, in.span)>>]

\* FormulaFallbackModel.predict_proba: the formula, one channel short, over the
\* minutes that the burst tells, an hour at least.
Fallback(f, watched) ==
  ViralScore([posts |-> {}, weight |-> f.weight, unique |-> f.ch,
              delta |-> AtLeast(0, f.ch - 1),
              span |-> IF f.burst[1] <= 0 THEN 60
                       ELSE AtLeast(60, (60 * f.ch * f.burst[2]) \div f.burst[1]),
              watched |-> watched])

-----------------------------------------------------------------------------
(* A story and its ticks.                                                  *)

VARIABLES
  moment,
  arrived,   \* the posts of the story
  story,     \* first_seen and updated_at of its cluster
  snapshot,  \* window -> row, as committed
  verdict,   \* the row of its score
  scorer,    \* the ticks
  overlaid   \* history: two ticks have overlapped

verdictVars == <<moment, arrived, story, snapshot, verdict, scorer, overlaid>>

\* A row of a snapshot; the row of a score, and, a history, what the fallback model
\* makes of the features of the same tick.
NotYet == [age |-> -1, posts |-> {}]
Unscored == [score |-> Zero, fallback |-> Zero]
Idling == [at |-> "off", now |-> 0, due |-> {}, posts |-> {}, new |-> {}, subject |-> -1,
           row |-> Unscored]

Arrival == [at : Int, ch : Outlets, weight : Weights]
Capture == [age : Int, posts : SUBSET Arrival]

VerdictsTypeOK ==
  /\ moment \in 0..LastMoment
  /\ arrived \subseteq Arrival
  /\ story \in [first : Int, updated : Int]
  /\ snapshot \in [Observed -> Capture]
  /\ AtMost(Zero, verdict.score) /\ AtMost(Zero, verdict.fallback)
  /\ \A s \in Scorers : scorer[s].at \in {"off", "due", "read", "match", "score", "end"}
  /\ overlaid \in BOOLEAN

VerdictsInit ==
  /\ moment = 0
  /\ arrived = {}
  /\ story = [first |-> -1, updated |-> -1]
  /\ snapshot = [w \in Observed |-> NotYet]
  /\ verdict = Unscored
  /\ scorer = [s \in Scorers |-> Idling]
  /\ overlaid = FALSE

-----------------------------------------------------------------------------
(* The story grows (module Clusters): a batch commits posts of it.         *)

Now == Unit * moment

Grow ==
  /\ Cardinality(arrived) < MaxArrivals
  /\ \E at \in (moment - Late)..(moment + Skewed), ch \in Outlets, weight \in Weights :
       LET post == [at |-> Unit * at, ch |-> ch, weight |-> weight]
       IN  post \notin arrived /\ arrived' = arrived \cup {post}
  /\ story' = [first |-> IF story.first = -1 THEN Now ELSE story.first, updated |-> Now]
  /\ UNCHANGED <<moment, snapshot, verdict, scorer, overlaid>>

Minutes ==
  /\ moment < LastMoment
  /\ moment' = moment + 1
  /\ UNCHANGED <<arrived, story, snapshot, verdict, scorer, overlaid>>

-----------------------------------------------------------------------------
(* _capture_feature_snapshots.                                             *)

Turns(s, new) == scorer' = [scorer EXCEPT ![s] = new]
Captured == {w \in Observed : snapshot[w] # NotYet}

\* windows_due: crossed, and no row seen.
Due(age) == {w \in Observed \ Captured : age >= w}

\* The cluster is among the recent ones, and the rows are read.
Begin(s) ==
  /\ scorer[s].at = "off"
  /\ story.first # -1 /\ story.updated >= Now - Fresh
  /\ Turns(s, [Idling EXCEPT !.at = IF Due(Now - story.first) = {} THEN "match" ELSE "due",
                             !.now = Now, !.due = Due(Now - story.first)])
  /\ overlaid' = (overlaid \/ \E z \in Scorers \ {s} : scorer[z].at # "off")
  /\ UNCHANGED <<moment, arrived, story, snapshot, verdict>>

\* A plausible bug: the posts of the score's window instead of all since birth.
RollingPosts(now) == {p \in arrived : p.at >= now - Rolling /\ p.at <= now}
Accrued(now) == {p \in arrived : p.at >= story.first /\ p.at <= now}

ReadPosts(s) ==
  /\ scorer[s].at = "due"
  /\ LET posts == Accrued(scorer[s].now)
     IN  Turns(s, [scorer[s] EXCEPT !.at = IF posts = {} THEN "match" ELSE "read",
                                    !.due = IF posts = {} THEN {} ELSE @, !.posts = posts])
  /\ UNCHANGED <<moment, arrived, story, snapshot, verdict, overlaid>>

\* ON CONFLICT DO NOTHING, once a transaction that inserted the same has ended.
Insert(s) ==
  /\ scorer[s].at = "read"
  /\ \A z \in Scorers \ {s} : scorer[z].new \cap scorer[s].due = {}
  /\ LET new == scorer[s].due \ Captured
     IN  Turns(s, [scorer[s] EXCEPT !.at = "match", !.due = {}, !.new = new,
                                    !.posts = IF new = {} THEN {} ELSE @])
  /\ UNCHANGED <<moment, arrived, story, snapshot, verdict, overlaid>>

\* The savepoint of the snapshots is rolled back; the story is scored all the same.
InsertFails(s) ==
  /\ scorer[s].at = "read"
  /\ Turns(s, [scorer[s] EXCEPT !.at = "match", !.due = {}, !.posts = {}])
  /\ UNCHANGED <<moment, arrived, story, snapshot, verdict, overlaid>>

-----------------------------------------------------------------------------
(* The match and the score.                                                *)

Within(now) == {p \in arrived : p.at >= now - Rolling}

\* _match_topic_by_channels: the largest overlap, the first name among equals,
\* by the window of the tick's start.
Overlap(t, now) == Cardinality(Covers[t] \cap ChannelsOf(Within(now)))
Best(now) ==
  {t \in Subjects : /\ Overlap(t, now) > 0
                    /\ \A u \in Subjects : \/ Overlap(u, now) < Overlap(t, now)
                                           \/ Overlap(u, now) = Overlap(t, now) /\ t <= u}

\* compute_components over the posts that are in the window by then, and the
\* fallback over what the shadow model is given.
Judged(t, posts) ==
  LET in == Inputs(posts, Cardinality(Covers[t]))
  IN  [score |-> ViralScore(in),
       fallback |-> Fallback(Features(in), AtLeast(1, in.watched))]

\* No watched channel: no score.
Match(s) ==
  /\ scorer[s].at = "match"
  /\ IF Best(scorer[s].now) = {}
     THEN Turns(s, [scorer[s] EXCEPT !.at = "end"])
     ELSE \E t \in Best(scorer[s].now) :
            Turns(s, [scorer[s] EXCEPT !.at = "score", !.subject = t])
  /\ UNCHANGED <<moment, arrived, story, snapshot, verdict, overlaid>>

\* No post in the window by now: no score.
Judge(s) ==
  /\ scorer[s].at = "score"
  /\ Turns(s, [scorer[s] EXCEPT !.at = "end", !.subject = -1,
                                !.row = IF Within(Now) = {} THEN Unscored
                                        ELSE Judged(scorer[s].subject, Within(Now))])
  /\ UNCHANGED <<moment, arrived, story, snapshot, verdict, overlaid>>

\* _persist_score and the commit: the row is overwritten, whoever read later.
Commit(s) ==
  /\ scorer[s].at = "end"
  /\ snapshot' = [w \in Observed |-> IF w \in scorer[s].new
                                     THEN [age |-> scorer[s].now - story.first,
                                           posts |-> scorer[s].posts]
                                     ELSE snapshot[w]]
  /\ verdict' = IF scorer[s].row = Unscored THEN verdict ELSE scorer[s].row
  /\ Turns(s, Idling)
  /\ UNCHANGED <<moment, arrived, story, overlaid>>

\* An error outside the savepoint, or a worker that dies.
Abort(s) ==
  /\ scorer[s].at # "off"
  /\ Turns(s, Idling)
  /\ UNCHANGED <<moment, arrived, story, snapshot, verdict, overlaid>>

ScorerStep(s) ==
  \/ Begin(s) \/ ReadPosts(s) \/ Insert(s) \/ InsertFails(s)
  \/ Match(s) \/ Judge(s) \/ Commit(s) \/ Abort(s)

VerdictsNext == Grow \/ Minutes \/ \E s \in Scorers : ScorerStep(s)

-----------------------------------------------------------------------------
(* Properties.                                                             *)

\* The snapshots of a story are those of a growing story, whatever ticks fail
\* and however late they come: none without those of shorter windows, and none
\* that lacks a post of a shorter one - unless ticks overlapped, of which one
\* may store a shorter window with posts that came in after the other had read
\* ("cumulative since birth, NOT the score's rolling window").
SnapshotsGrow ==
  \A v, w \in Observed : v < w /\ w \in Captured =>
    /\ v \in Captured
    /\ ~overlaid => /\ snapshot[v].age <= snapshot[w].age
                    /\ snapshot[v].posts \subseteq snapshot[w].posts

\* A score is at most 100, and never below what the same formula makes of the
\* aggregates alone, over an hour at least and with a channel less: a story that
\* slows down is not penalised.
PostsOnlyRaise ==
  /\ AtMost(verdict.score, <<100, 1>>)
  /\ AtMost(verdict.fallback, verdict.score)

\* What is measured of a growing story grows, and what is made of it gives no
\* growing story less than its aggregates.
VerdictsFollowGrowth == SnapshotsGrow /\ PostsOnlyRaise
=============================================================================
