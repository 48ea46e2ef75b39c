------------------------------- MODULE Ratings -------------------------------
(***************************************************************************)
(* What users say about alerts, and what is measured of both.  A tap on a  *)
(* feedback link (alerts/feedback_tokens.py, api/feedback/router.py)       *)
(* stores one verdict for its alert, the last one; the user may delete his *)
(* account meanwhile (compliance/account.py), which takes his alerts and   *)
(* their verdicts along.  A beat task reports the precision of the alerts  *)
(* and how late they came (observability/signal_latency.py).               *)
(*                                                                         *)
(* One user.  A link is its alert, its verdict and its expiry: the         *)
(* signature makes no other ones.  The links are minted with the delivery  *)
(* (alerts/formatting.py) and with every detail page                       *)
(* (api/alerts/service.py).  Statements see what is committed; a row that  *)
(* another transaction has written is waited for.                          *)
(***************************************************************************)
EXTENDS Reckoning, Sequences, FiniteSetsExt

CONSTANTS
  Notices,   \* the user's alerts
  Taps,      \* bound: requests under way
  LinkTTL,   \* feedback_token_ttl_seconds
  Rated,     \* precision_window_seconds, latency_window_seconds
  Skew,     \* bound: how far another clock may be ahead of ours
  Longest,   \* bound: how late an alert may come
  LastTurn,  \* bound: the clock
  MaxTaps,   \* bound: taps
  Blank      \* no verdict, no alert, no post

\* How late an alert comes, on other clocks: sometimes before what it is about.
Delays == -Skew..Longest

ASSUME RatingsParameters ==
  /\ IsFiniteSet(Notices) /\ IsFiniteSet(Taps)
  /\ LinkTTL \in Nat /\ Rated \in Nat /\ LastTurn \in Nat /\ MaxTaps \in Nat
  /\ Skew \in Nat /\ Longest \in Nat
  /\ Blank \notin Notices /\ Blank \notin Delays

VARIABLES
  turn,
  account,  \* the user: there, being deleted, or gone
  links,    \* the links he has been given
  opinion,  \* alert_feedback: verdict and updated_at of an alert
  tap,      \* the requests
  taps,     \* history: taps so far
  answered  \* history: the tap of an alert that was the last to be answered alone

VARIABLES
  came,     \* the alerts that were delivered: when, how late after their cluster
            \* and after its first post, and whether they were held back
  latency   \* the last report

tapVars == <<account, links, opinion, tap, taps, answered>>
cameVars == <<came, latency>>
ratingVars == <<turn, tapVars, cameVars>>

Thumbs == {"up", "down"}
Link == [notice : Notices, verdict : Thumbs, until : 0..LastTurn + LinkTTL]
NoTap == [at |-> "off", notice |-> Blank, verdict |-> Blank, now |-> 0, alone |-> TRUE]
Opinion == [verdict : Thumbs, at : 0..LastTurn]
NoLatency == [count |-> 0, negative |-> 0, delivery |-> <<>>, whole |-> <<>>]

RatingsTypeOK ==
  /\ turn \in 0..LastTurn
  /\ account \in {"there", "deleting", "gone"}
  /\ links \subseteq Link
  /\ opinion \in [Notices -> Opinion \cup {Blank}]
  /\ tap \in [Taps -> [at : {"off", "found", "written"}, notice : Notices \cup {Blank},
                       verdict : Thumbs \cup {Blank}, now : 0..LastTurn, alone : BOOLEAN]]
  /\ taps \in 0..MaxTaps
  /\ answered \in [Notices -> Opinion \cup {Blank}]
  /\ came \in [Notices -> [at : 0..LastTurn, seen : Delays, post : Delays \cup {Blank},
                           held : BOOLEAN] \cup {Blank}]

RatingsInit ==
  /\ turn = 0 /\ account = "there" /\ links = {} /\ taps = 0
  /\ opinion = [a \in Notices |-> Blank]
  /\ tap = [q \in Taps |-> NoTap]
  /\ answered = [a \in Notices |-> Blank]
  /\ came = [a \in Notices |-> Blank]
  /\ latency = NoLatency

TurnPasses ==
  /\ turn < LastTurn
  /\ turn' = turn + 1
  /\ UNCHANGED <<tapVars, cameVars>>

-----------------------------------------------------------------------------
(* Taps and the deletion of the account.                                   *)

\* sign_feedback_token, for both verdicts.
Buttons(a) == {[notice |-> a, verdict |-> v, until |-> turn + LinkTTL] : v \in Thumbs}

GivesLinks(a) ==
  /\ account # "gone"
  /\ links' = links \cup Buttons(a)
  /\ UNCHANGED <<turn, account, opinion, tap, taps, answered, cameVars>>

\* build_reply_markup: an alert is delivered once, with two buttons if there is a
\* public URL.
SendButtons(a) == (\A l \in links : l.notice # a) /\ GivesLinks(a)

\* get_alert shows what opinion there is, and has new links unless they cannot be
\* made.
ShowDetail(a) == GivesLinks(a)

Under(a) == {q \in Taps : tap[q].at # "off" /\ tap[q].notice = a}

\* verify_feedback_token: the last instant still counts.
Valid(link) == link \in links /\ turn <= link.until

\* record_feedback verifies the token (else 400), finds the alert (else 410) and
\* takes the time.
Tap(q, link) ==
  /\ tap[q].at = "off" /\ taps < MaxTaps
  /\ Valid(link) /\ account # "gone"
  /\ taps' = taps + 1
  /\ tap' = [p \in Taps |->
       IF p = q THEN [at |-> "found", notice |-> link.notice, verdict |-> link.verdict,
                      now |-> turn, alone |-> Under(link.notice) = {}]
       ELSE IF p \in Under(link.notice) THEN [tap[p] EXCEPT !.alone = FALSE] ELSE tap[p]]
  /\ UNCHANGED <<turn, account, links, opinion, answered, cameVars>>

\* The upsert waits for another one of the same alert, and for the deletion,
\* whose rows its foreign keys need; after that one there is no such alert.
Upsert(q) ==
  /\ tap[q].at = "found" /\ account = "there"
  /\ \A p \in Under(tap[q].notice) : tap[p].at # "written"
  /\ tap' = [tap EXCEPT ![q].at = "written"]
  /\ UNCHANGED <<turn, account, links, opinion, taps, answered, cameVars>>

\* A plausible bug: the first verdict stays.
StoredFirst(q) ==
  LET a == tap[q].notice
  IN  opinion' = IF opinion[a] = Blank
                 THEN [opinion EXCEPT ![a] = [verdict |-> tap[q].verdict, at |-> tap[q].now]]
                 ELSE opinion
\* ON CONFLICT DO UPDATE.
Stored(q) ==
  opinion' = [opinion EXCEPT ![tap[q].notice] = [verdict |-> tap[q].verdict, at |-> tap[q].now]]

\* The commit, and "thank you".
Answer(q) ==
  LET a == tap[q].notice
  IN  /\ tap[q].at = "written"
      /\ Stored(q)
      /\ answered' = [answered EXCEPT ![a] =
                    IF tap[q].alone THEN [verdict |-> tap[q].verdict, at |-> tap[q].now] ELSE Blank]
      /\ tap' = [tap EXCEPT ![q] = NoTap]
      /\ UNCHANGED <<turn, account, links, taps, cameVars>>

\* The alert is gone, the deletion and the upsert wait for each other, or the
\* request dies: nothing is stored.
TapFails(q) ==
  /\ tap[q].at # "off"
  /\ tap' = [tap EXCEPT ![q] = NoTap]
  /\ UNCHANGED <<turn, account, links, opinion, taps, answered, cameVars>>

\* DELETE /account: the cascade waits for the verdicts being written.
DeleteAccount ==
  /\ account = "there"
  /\ \A q \in Taps : tap[q].at # "written"
  /\ account' = "deleting"
  /\ UNCHANGED <<turn, links, opinion, tap, taps, answered, cameVars>>

\* ON DELETE CASCADE, down to alert_feedback.
Cascade ==
  /\ opinion' = [a \in Notices |-> Blank]
  /\ answered' = [a \in Notices |-> Blank]

AccountDeleted ==
  /\ account = "deleting"
  /\ account' = "gone"
  /\ Cascade
  /\ UNCHANGED <<turn, links, tap, taps, cameVars>>

DeletionFails ==
  /\ account = "deleting"
  /\ account' = "there"
  /\ UNCHANGED <<turn, links, opinion, tap, taps, answered, cameVars>>

TapNext ==
  \/ TurnPasses \/ DeleteAccount \/ AccountDeleted \/ DeletionFails
  \/ \E a \in Notices : SendButtons(a) \/ ShowDetail(a)
  \/ \E q \in Taps : \/ Upsert(q) \/ Answer(q) \/ TapFails(q)
                     \/ \E link \in links : Tap(q, link)

-----------------------------------------------------------------------------
(* The measurements.                                                       *)

\* emit_alert_precision: of the alerts with a verdict of the window, it tells
\* how many were liked.
InWindow == {a \in Notices : opinion[a] # Blank /\ opinion[a].at >= turn - Rated}

\* An alert is delivered.
Come(a) ==
  /\ came[a] = Blank
  /\ \E seen \in Delays, post \in Delays \cup {Blank}, held \in BOOLEAN :
       came' = [came EXCEPT ![a] = [at |-> turn, seen |-> seen, post |-> post, held |-> held]]
  /\ UNCHANGED <<turn, tapVars, latency>>

\* The i-th smallest of the delays.
Nth(i, delay) ==
  LET upTo(a) == {b \in DOMAIN delay : delay[b] <= delay[a]}
  IN  Min({delay[a] : a \in {b \in DOMAIN delay : Cardinality(upTo(b)) >= i}})

\* PERCENTILE_CONT, in hundredths.
Percentile(p, delay) ==
  LET at == p * (Cardinality(DOMAIN delay) - 1)
      low == Nth(at \div 100 + 1, delay)
      high == IF at % 100 = 0 THEN low ELSE Nth(at \div 100 + 2, delay)
  IN  100 * low + (at % 100) * (high - low)

\* The first half of them, and 95 of 100.
HalfAndMost(delay) ==
  IF DOMAIN delay = {} THEN <<>> ELSE <<Percentile(50, delay), Percentile(95, delay)>>

\* GREATEST(..., 0), which takes NULL for 0.
AtLeastZero(d) == IF d = Blank \/ d < 0 THEN 0 ELSE d
Negative(d) == d # Blank /\ d < 0

\* emit_signal_latency: what was held back on purpose is left out.
Reported == {a \in Notices : came[a] # Blank /\ came[a].at >= turn - Rated /\ ~came[a].held}

MeasureLatency ==
  /\ latency' = [count |-> Cardinality(Reported),
                 negative |-> Cardinality({a \in Reported : Negative(came[a].seen) \/ Negative(came[a].post)}),
                 delivery |-> HalfAndMost([a \in Reported |-> AtLeastZero(came[a].seen)]),
                 whole |-> HalfAndMost([a \in Reported |-> AtLeastZero(came[a].post)])]
  /\ UNCHANGED <<turn, tapVars, came>>

LatencyNext == TurnPasses \/ MeasureLatency \/ \E a \in Notices : Come(a)

-----------------------------------------------------------------------------
(* Properties.                                                             *)

\* The verdict an alert shows (_current_verdict), and is counted with until it is
\* out of the window, is the one of the last tap that was answered, if no other
\* one crossed it, whatever links are tapped again or fail; and no verdict
\* outlives its user.
LastTapStands ==
  /\ \A a \in Notices : answered[a] # Blank => opinion[a] = answered[a]
  /\ account = "gone" => InWindow = {}

\* A report tells no delay that no alert had: its percentiles are in order, none
\* is below zero or above the longest delay there is.
LatencySound ==
  \A half \in {latency.delivery, latency.whole} :
    half # <<>> => 0 <= half[1] /\ half[1] <= half[2] /\ half[2] <= 100 * Longest

\* What is said about alerts and what is measured of them is so.
RatingsHold == LastTapStands /\ LatencySound
=============================================================================
