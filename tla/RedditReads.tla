---------------------------- MODULE RedditReads ----------------------------
(***************************************************************************)
(* The Reddit collector (collector/reddit/reader.py, client.py): within    *)
(* the collect tick one subreddit after the other is read, with an         *)
(* application-only bearer token that the client caches until shortly      *)
(* before it expires, and fetches anew when the API refuses it.            *)
(*                                                                         *)
(* One child: collector and token are its own.  A tick that the soft time  *)
(* limit cuts short is like one whose last reads fail, and a retry may     *)
(* come at any time after a short 429.  How a submission is mapped to a    *)
(* post is left out but for its date.                                      *)
(***************************************************************************)
EXTENDS Integers, FiniteSets

CONSTANTS
  Refs,         \* watched handles, as typed
  Named,        \* handle -> subreddit (normalize_handle)
  Newest,       \* REDDIT_MAX_RESULTS_PER_TICK
  TokenTTL,     \* expires_in
  Leeway,       \* REDDIT_TOKEN_EXPIRY_LEEWAY_SECONDS
  Back,         \* collect_lookback_seconds
  MaxHour,      \* bound: the clock
  MaxSubmitted  \* bound: submissions

ASSUME RedditParameters ==
  /\ IsFiniteSet(Refs) /\ Newest \in Nat \ {0}
  /\ TokenTTL \in Nat /\ Leeway \in Nat /\ Back \in Nat
  /\ MaxHour \in Nat /\ MaxSubmitted \in Nat

VARIABLES
  hour,
  submitted,  \* what has been posted: subreddit, date, number
  ticked,     \* collect:last_tick_at; -1: none
  token,      \* the client's token, or the one on its way to it
  job,        \* the pass over the refs
  settled     \* history: submissions handed over, or given up with cause

redditVars == <<hour, submitted, ticked, token, job, settled>>

\* until is _token_expiry_epoch; what the server knows: issued, revoked;
\* history: how long the token was on its way.
NoToken == [held |-> FALSE, until |-> 0, issued |-> 0, revoked |-> FALSE, lag |-> 0]

\* renewed: this request met a 401 before; history: when the token was chosen,
\* and whether it was issued for this request.
NoJob == [at |-> "off", todo |-> {}, ref |-> "", since |-> 0, start |-> 0,
          again |-> FALSE, renewed |-> FALSE, chosen |-> 0, own |-> FALSE]

Submission == {Named[r] : r \in Refs} \X (0..MaxHour) \X (1..MaxSubmitted)

RedditTypeOK ==
  /\ hour \in 0..MaxHour
  /\ submitted \subseteq Submission /\ settled \subseteq submitted
  /\ ticked \in -1..MaxHour
  /\ token \in [held : BOOLEAN, until : Nat, issued : Nat, revoked : BOOLEAN, lag : Nat]
  /\ job.at \in {"off", "refs", "issue", "receive", "get", "sleep"} /\ job.todo \subseteq Refs

RedditInit ==
  /\ hour = 0 /\ submitted = {} /\ ticked = -1
  /\ token = NoToken
  /\ job = NoJob
  /\ settled = {}

-----------------------------------------------------------------------------
(* The outside world.                                                      *)

Submit(s) ==
  /\ Cardinality(submitted) < MaxSubmitted
  /\ submitted' = submitted \cup {<<s, hour, Cardinality(submitted) + 1>>}
  /\ UNCHANGED <<hour, ticked, token, job, settled>>

HourPasses ==
  /\ hour < MaxHour
  /\ hour' = hour + 1
  /\ UNCHANGED <<submitted, ticked, token, job, settled>>

Revoke ==
  /\ token # NoToken
  /\ token' = [token EXCEPT !.revoked = TRUE]
  /\ UNCHANGED <<hour, submitted, ticked, job, settled>>

-----------------------------------------------------------------------------
(* A pass over the refs.                                                   *)

Unread(s) == {p \in submitted : p[1] = s /\ p[2] >= job.since}

StartJob ==
  /\ job.at = "off"
  /\ job' = [NoJob EXCEPT !.at = "refs", !.todo = Refs, !.start = hour,
                          !.since = IF ticked = -1 THEN hour - Back ELSE ticked]
  /\ settled' = IF ticked = -1 THEN {p \in submitted : p[2] < hour - Back} ELSE settled
  /\ UNCHANGED <<hour, submitted, ticked, token>>

EndJob ==
  /\ job.at = "refs" /\ job.todo = {}
  /\ ticked' = job.start
  /\ job' = NoJob
  /\ UNCHANGED <<hour, submitted, token, settled>>

\* _ensure_token: the cached token while it lasts, else a new one.
Ensure(j, cached) ==
  IF cached.held /\ hour < cached.until
  THEN [j EXCEPT !.at = "get", !.chosen = hour]
  ELSE [j EXCEPT !.at = "issue"]

\* read([ref]): the first of at most two tries.
TakeRef(r) ==
  /\ job.at = "refs" /\ r \in job.todo
  /\ job' = Ensure([job EXCEPT !.todo = @ \ {r}, !.ref = r, !.again = FALSE,
                               !.renewed = FALSE, !.own = FALSE], token)
  /\ UNCHANGED <<hour, submitted, ticked, token, settled>>

\* SourceUnavailableError: what is in the ref's window is given up.
SkipRef ==
  /\ settled' = settled \cup Unread(Named[job.ref])
  /\ job' = [job EXCEPT !.at = "refs"]

\* A 429, of the token's endpoint or the API's: a short one is slept, once.
Limited ==
  /\ job.at \in {"issue", "get"}
  /\ \/ /\ ~job.again
        /\ job' = [job EXCEPT !.at = "sleep"]
        /\ UNCHANGED settled
     \/ SkipRef
  /\ UNCHANGED <<hour, submitted, ticked, token>>

TryAgain ==
  /\ job.at = "sleep"
  /\ job' = Ensure([job EXCEPT !.again = TRUE, !.renewed = FALSE, !.own = FALSE], token)
  /\ UNCHANGED <<hour, submitted, ticked, token, settled>>

\* Any other error, of the network or the API.
Broken ==
  /\ job.at \in {"issue", "receive", "get"}
  /\ SkipRef
  /\ UNCHANGED <<hour, submitted, ticked, token>>

\* The server issues a token ...
Issue ==
  /\ job.at = "issue"
  /\ token' = [NoToken EXCEPT !.issued = hour]
  /\ job' = [job EXCEPT !.at = "receive", !.own = TRUE]
  /\ UNCHANGED <<hour, submitted, ticked, settled>>

\* A plausible bug: the token is used until it expires.
UntilExpiry(now) == now + TokenTTL
Until(now) == now + (IF TokenTTL > Leeway THEN TokenTTL - Leeway ELSE 0)

\* ... and the client keeps it, and sends the request.
Receive ==
  /\ job.at = "receive"
  /\ token' = [token EXCEPT !.held = TRUE, !.until = Until(hour), !.lag = hour - token.issued]
  /\ job' = [job EXCEPT !.at = "get", !.chosen = hour]
  /\ UNCHANGED <<hour, submitted, ticked, settled>>

Accepted == ~token.revoked /\ hour < token.issued + TokenTTL

\* A plausible bug: the refused token is kept, and tried again.
KeptToken == token
ClearedToken == NoToken

\* 401: the token is dropped and a new one fetched, once.
Refused ==
  /\ job.at = "get" /\ ~Accepted
  /\ IF job.renewed
     THEN SkipRef /\ UNCHANGED token
     ELSE /\ token' = ClearedToken
          /\ job' = Ensure([job EXCEPT !.renewed = TRUE], ClearedToken)
          /\ UNCHANGED settled
  /\ UNCHANGED <<hour, submitted, ticked>>

\* A plausible bug: what was submitted in the instant of the cutoff is dropped.
CutLater(posts) == {p \in posts : p[2] > job.since}
\* _read_one: the cutoff.
Cut(posts) == {p \in posts : p[2] >= job.since}

\* The newest come back, and those since the last tick are handed over; what more
\* there is in the window is not seen.
Answered ==
  LET s == Named[job.ref]
      all == {p \in submitted : p[1] = s}
      newest == {p \in all : Cardinality({q \in all : q[3] > p[3]}) < Newest}
  IN  /\ job.at = "get" /\ Accepted
      /\ settled' = settled \cup Cut(newest)
                            \cup (IF Cardinality(Unread(s)) > Newest THEN Unread(s) ELSE {})
      /\ job' = [job EXCEPT !.at = "refs"]
      /\ UNCHANGED <<hour, submitted, ticked, token>>

RedditNext ==
  \/ HourPasses \/ Revoke \/ \E r \in Refs : Submit(Named[r])
  \/ StartJob \/ EndJob \/ Limited \/ TryAgain \/ Broken \/ Issue \/ Receive \/ Refused \/ Answered
  \/ \E r \in Refs : TakeRef(r)

-----------------------------------------------------------------------------
(* Properties.                                                             *)

\* The API refuses only a token that was revoked, or one whose issue and request
\* together took longer than the leeway; and a request ends unauthorised only if
\* the token refused was issued for it, however the cached one ran out between
\* its choice, its use, a 429 and the retry (_get: "Token expired/revoked between
\* checks - refresh once and retry").
RefusedForCause ==
  [][Refused =>
       /\ token.revoked \/ token.lag + hour - job.chosen > Leeway \/ TokenTTL <= Leeway
       /\ job.renewed => job.own]_redditVars

\* What was submitted before the last finished pass began was handed over, or its
\* ref was skipped, or more than one answer can carry came in between: a failed
\* read, a long pass or a late retry leave no other gap (collect_watched_sources:
\* the marker is the start of the tick, the cutoff is inclusive).
SubmissionsSettled == \A p \in submitted : p[2] < ticked => p \in settled
=============================================================================
