-------------------------------- MODULE Feed --------------------------------
(***************************************************************************)
(* What a user is shown of the alerts and scores while they are written:   *)
(* the alert list, read page by page with a keyset cursor                  *)
(* (api/alerts/service.py), and the live signals of his channels, put      *)
(* together from three queries that each see what is committed then        *)
(* (storage/repositories/signal_repo.py).                                  *)
(*                                                                         *)
(* An alert carries the first_seen of its cluster, so that a later alert   *)
(* can be the older one, and alerts of clusters of one batch are equally   *)
(* old.  A cursor is the pair it encodes; one that nobody handed out is    *)
(* answered with 422 and changes nothing.  Alerts vanish only with their   *)
(* user.  The list and the signals read different rows of one tenant and   *)
(* are followed one at a time.                                             *)
(***************************************************************************)
EXTENDS Reckoning, Sequences, FiniteSetsExt

CONSTANTS
  Histories,  \* how many days of history a plan gives (PLAN_LIMITS); 0 for none
  PageMax,    \* MAX_ALERTS_PAGE_SIZE
  Sizes,      \* the page sizes that are asked for
  MaxAlerts,  \* bound: alerts
  LastDay,    \* bound: the days
  Tales,      \* clusters
  Streams,    \* channels on the user's watchlists
  Values,     \* viral scores
  Desked,     \* _SIGNAL_WINDOW_SECONDS, in instants
  PerHour,    \* instants of an hour
  LastInstant, \* bound: the instants
  MaxChanges, \* bound: posts, scores and alerts stored
  Unset       \* no cursor, no score, no alert

ASSUME FeedParameters ==
  /\ Histories \subseteq Nat
  /\ PageMax \in Nat \ {0} /\ Sizes \subseteq Int
  /\ PerHour \in Nat \ {0} /\ Desked \in Nat
  /\ MaxAlerts \in Nat /\ LastDay \in Nat /\ LastInstant \in Nat /\ MaxChanges \in Nat
  /\ IsFiniteSet(Tales) /\ Values \subseteq Nat
  /\ Unset \notin Values \cup 0..LastInstant
  /\ Unset \notin [seen : Nat, id : Nat] /\ Unset \notin [at : Nat, value : Nat]

VARIABLES
  day,
  alerts,  \* the user's alerts: first_seen, by id
  tariff,  \* users.plan: its history
  scan     \* a reader's way through the pages

VARIABLES
  instant,
  heard,   \* when a cluster last had a post on a channel; Unset: never
  scored,  \* the score of a cluster
  alerted, \* first_seen of a cluster's alert
  desk,    \* the request for the signals
  changes  \* history: what has been stored

listVars == <<day, alerts, tariff, scan>>
deskVars == <<instant, heard, scored, alerted, desk, changes>>
feedVars == <<listVars, deskVars>>

Cursors == [seen : 0..LastDay, id : 1..MaxAlerts] \cup {Unset}
NoScan == [at |-> "off", cursor |-> Unset, shown |-> <<>>, known |-> 0, floor |-> 0]
ScoreRow == [at : 0..LastInstant, value : Values]
NoSignal == [score |-> Unset, line |-> [h \in {} |-> 0], alert |-> Unset]
NoDesk == [at |-> "off", start |-> 0, of |-> [ch \in Streams |-> {}], had |-> {},
           got |-> [c \in Tales |-> Unset], rows |-> [ch \in Streams |-> NoSignal]]
Rows == [Streams -> [score : Values \cup {Unset}, line : UNION {[hs -> Values] : hs \in SUBSET (0..LastInstant)},
                     alert : 0..LastInstant \cup {Unset}]]

FeedTypeOK ==
  /\ day \in 0..LastDay
  /\ alerts \in Seq(0..LastDay) /\ Len(alerts) <= MaxAlerts
  /\ tariff \in Histories
  /\ scan \in [at : {"off", "reading", "done"}, cursor : Cursors, shown : Seq(1..MaxAlerts),
               known : 0..MaxAlerts, floor : 0..LastDay]
  /\ instant \in 0..LastInstant
  /\ heard \in [Tales -> [Streams -> 0..LastInstant \cup {Unset}]]
  /\ scored \in [Tales -> ScoreRow \cup {Unset}]
  /\ alerted \in [Tales -> 0..LastInstant \cup {Unset}]
  /\ desk \in [at : {"off", "scores", "alerts", "shown"}, start : 0..LastInstant,
               of : [Streams -> SUBSET Tales], had : SUBSET Tales,
               got : [Tales -> ScoreRow \cup {Unset}], rows : Rows]
  /\ changes \in 0..MaxChanges

FeedInit ==
  /\ day = 0 /\ alerts = <<>> /\ scan = NoScan
  /\ tariff \in Histories
  /\ instant = 0 /\ changes = 0 /\ desk = NoDesk
  /\ heard = [c \in Tales |-> [ch \in Streams |-> Unset]]
  /\ scored = [c \in Tales |-> Unset]
  /\ alerted = [c \in Tales |-> Unset]

-----------------------------------------------------------------------------
(* The alert list.                                                         *)

NextDay ==
  /\ day < LastDay
  /\ day' = day + 1
  /\ UNCHANGED <<alerts, tariff, scan>>

\* The scorer alerts on a cluster that was first seen on some day so far.
AddAlert ==
  /\ Len(alerts) < MaxAlerts
  /\ \E seen \in 0..day : alerts' = Append(alerts, seen)
  /\ UNCHANGED <<day, tariff, scan>>

ChangeTariff(days) ==
  /\ tariff' = days
  /\ UNCHANGED <<day, alerts, scan>>

\* _clamp_limit.
Clamped(limit) ==
  IF limit < 1 THEN 1 ELSE IF limit > PageMax THEN PageMax ELSE limit

\* ORDER BY first_seen DESC, id DESC.
Newer(a, b) == alerts[a] > alerts[b] \/ (alerts[a] = alerts[b] /\ a > b)

\* A plausible bug: the cursor compares first_seen only.
PastByTime(a, c) == c = Unset \/ alerts[a] < c.seen
\* (first_seen, id) < (cursor_fs, cursor_id).
Past(a, c) == c = Unset \/ alerts[a] < c.seen \/ (alerts[a] = c.seen /\ a < c.id)

\* _plan_history_days: how far back the plan lets its user look.
Oldest == day - tariff

\* list_alerts, from the start or from the cursor of the page before: one more
\* row than a page holds tells that there is a next one.
ListAlerts(limit) ==
  /\ scan.at # "done" /\ tariff # 0
  /\ LET size == Clamped(limit)
         left == {a \in 1..Len(alerts) : alerts[a] >= Oldest /\ Past(a, scan.cursor)}
         sorted == Sorted(left, Newer)
         page == SubSeq(sorted, 1, IF Len(sorted) < size THEN Len(sorted) ELSE size)
         more == Len(sorted) > size
     IN  scan' = [at |-> IF more THEN "reading" ELSE "done",
                  cursor |-> IF more THEN [seen |-> alerts[page[Len(page)]], id |-> page[Len(page)]]
                                     ELSE Unset,
                  shown |-> scan.shown \o page,
                  known |-> IF scan.at = "off" THEN Len(alerts) ELSE scan.known,
                  floor |-> IF Oldest > 0 THEN Oldest ELSE 0]
  /\ UNCHANGED <<day, alerts, tariff>>

\* Without a history the page is empty and names no next one; the reader may
\* also begin anew.
StartAgain ==
  /\ scan.at # "off"
  /\ scan' = NoScan
  /\ UNCHANGED <<day, alerts, tariff>>

ListNext ==
  \/ NextDay \/ AddAlert \/ StartAgain
  \/ \E days \in Histories : ChangeTariff(days)
  \/ \E limit \in Sizes : ListAlerts(limit)

-----------------------------------------------------------------------------
(* The live signals.                                                       *)

InstantPasses ==
  /\ instant < LastInstant
  /\ instant' = instant + 1
  /\ UNCHANGED <<heard, scored, alerted, desk, changes>>

Change == changes < MaxChanges /\ changes' = changes + 1

\* A batch, the scorer's upsert and its alert.
Hear(c, ch) ==
  /\ Change
  /\ heard' = [heard EXCEPT ![c][ch] = instant]
  /\ UNCHANGED <<instant, scored, alerted, desk>>

Rescore(c, v) ==
  /\ Change
  /\ scored' = [scored EXCEPT ![c] = [at |-> instant, value |-> v]]
  /\ UNCHANGED <<instant, heard, alerted, desk>>

AlertOn(c) ==
  /\ Change /\ alerted[c] = Unset
  /\ alerted' = [alerted EXCEPT ![c] = instant]
  /\ UNCHANGED <<instant, heard, scored, desk>>

\* aggregate_for_user takes the time once.
WindowStart(start) == start - Desked

\* _channel_clusters: the clusters with a post of the window on a channel.
OnChannel(ch, from) == {c \in Tales : heard[c][ch] # Unset /\ heard[c][ch] >= from}

ScoredSince(from) == {c \in Tales : scored[c] # Unset /\ scored[c].at >= from}

DeskChannels ==
  /\ desk.at \in {"off", "shown"}
  /\ LET from == WindowStart(instant)
     IN  desk' = [NoDesk EXCEPT !.at = "scores", !.start = instant,
                    !.of = [ch \in Streams |-> OnChannel(ch, from)],
                    !.had = ScoredSince(from)]
  /\ UNCHANGED <<instant, heard, scored, alerted, changes>>

\* _scores_by_cluster, for the clusters of all channels at once.
DeskScores ==
  /\ desk.at = "scores"
  /\ LET asked == UNION {desk.of[ch] : ch \in Streams}
         found == asked \cap ScoredSince(WindowStart(desk.start))
     IN  desk' = [desk EXCEPT !.at = "alerts",
                    !.got = [c \in Tales |-> IF c \in found THEN scored[c] ELSE Unset]]
  /\ UNCHANGED <<instant, heard, scored, alerted, changes>>

Scored(cs) == {c \in cs : desk.got[c] # Unset}
Latest(cs) == {c \in Scored(cs) : \A d \in Scored(cs) : desk.got[d].at <= desk.got[c].at}

\* The highest score of every hour that has one.
HourOf(c) == desk.got[c].at \div PerHour
Sparkline(cs) ==
  [h \in {HourOf(c) : c \in Scored(cs)} |->
     Max({desk.got[c].value : c \in {d \in Scored(cs) : HourOf(d) = h}})]

LastAlert(cs) ==
  LET told == {alerted[c] : c \in cs} \ {Unset}
  IN  IF told = {} THEN Unset ELSE Max(told)

\* _build_signal: of several latest scores any one may come first.
Signals(cs) ==
  [score : IF Scored(cs) = {} THEN {Unset} ELSE {desk.got[c].value : c \in Latest(cs)},
   line : {Sparkline(cs)}, alert : {LastAlert(cs)}]

\* _last_alert_by_cluster, and the answer.
DeskAlerts ==
  /\ desk.at = "alerts"
  /\ \E rows \in [Streams -> UNION {Signals(desk.of[ch]) : ch \in Streams}] :
       /\ \A ch \in Streams : rows[ch] \in Signals(desk.of[ch])
       /\ desk' = [desk EXCEPT !.at = "shown", !.rows = rows]
  /\ UNCHANGED <<instant, heard, scored, alerted, changes>>

DeskNext ==
  \/ InstantPasses \/ DeskChannels \/ DeskScores \/ DeskAlerts
  \/ \E c \in Tales : \/ AlertOn(c)
                      \/ \E ch \in Streams : Hear(c, ch)
                      \/ \E v \in Values : Rescore(c, v)

-----------------------------------------------------------------------------
(* Properties.                                                             *)

\* Whoever reads the pages to the end has seen every alert that was there when
\* he began and is still within his plan's history, and none twice, whatever
\* was added, fell out of the history or changed of his plan meanwhile
\* (list_alerts: "stable pagination — no dupes/gaps on inserts").
FeedIsWhole ==
  /\ \A i, j \in 1..Len(scan.shown) : i < j => Newer(scan.shown[i], scan.shown[j])
  /\ scan.at = "done" =>
       \A a \in 1..scan.known : alerts[a] >= scan.floor => \E i \in 1..Len(scan.shown) : scan.shown[i] = a

\* A channel with a cluster that was scored when the request came shows a score,
\* though the cluster is scored again between the queries; the score shown is
\* within the last column of its line; and channels with the same clusters have
\* the same line and alert (signal_repo: one set of queries for all channels).
DeskAgrees ==
  desk.at = "shown" =>
    \A ch \in Streams :
      LET r == desk.rows[ch]
      IN  /\ desk.of[ch] \cap desk.had # {} => r.score # Unset
          /\ r.score = Unset <=> DOMAIN r.line = {}
          /\ DOMAIN r.line # {} => r.score <= r.line[Max(DOMAIN r.line)]
          /\ \A other \in Streams :
               desk.of[other] = desk.of[ch]
                 => desk.rows[other].line = r.line /\ desk.rows[other].alert = r.alert

\* Neither page loses or doubles what it shows.
PagesHold == FeedIsWhole /\ DeskAgrees
=============================================================================
