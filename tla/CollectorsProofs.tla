-------------------------- MODULE CollectorsProofs --------------------------
(***************************************************************************)
(* Theorems of Collectors, for any number of children, sources, logins and *)
(* polls, and any intervals, budgets and lifetimes: what the Telegram      *)
(* sessions, the Twitter and Reddit readers and the QR logins promise.     *)
(* The parts share no state, so that each has an invariant of its own.     *)
(***************************************************************************)
EXTENDS Collectors, FiniteSetTheorems, TLAPS

-----------------------------------------------------------------------------
(* Reddit: what the pass over the refs hands over.                         *)

RedditJob ==
  [at : {"off", "refs", "issue", "receive", "get", "sleep"}, todo : SUBSET Refs,
   ref : Refs \cup {""}, since : Int, start : Nat, again : BOOLEAN, renewed : BOOLEAN,
   chosen : Nat, own : BOOLEAN]

RedditTypes ==
  /\ RedditTypeOK /\ IsFiniteSet(submitted)
  /\ job \in RedditJob
  /\ job.at \notin {"off", "refs"} => job.ref \in Refs

\* Submissions are numbered in the order of their dates, and nothing lies ahead.
Numbered ==
  /\ \A p \in submitted : p[2] <= hour /\ p[3] <= Cardinality(submitted)
  /\ \A p, q \in submitted : q[3] > p[3] => q[2] >= p[2]

NotAhead == ticked <= hour /\ job.since <= hour /\ job.start <= hour

\* A pass settles what is older than its window, and then one ref after the other.
ToBeRead(r) == r \in job.todo \/ (job.at # "refs" /\ r = job.ref)

OldSettled == job.at # "off" => \A p \in submitted : p[2] < job.since => p \in settled

ReadSettled ==
  job.at # "off" =>
    \A r \in Refs : ~ToBeRead(r) =>
      \A p \in submitted : p[1] = Named[r] /\ p[2] < job.start => p \in settled

\* What the client knows of its token, and when it chose to use it.
TokenDated ==
  /\ token.issued <= hour /\ job.chosen <= hour
  /\ token.held => token.until = token.issued + token.lag
                                 + (IF TokenTTL > Leeway THEN TokenTTL - Leeway ELSE 0)

TokenChosen ==
  /\ job.at = "get" => token.held /\ (job.chosen < token.until \/ TokenTTL <= Leeway)
  /\ job.at = "receive" => job.own
  /\ job.at = "get" /\ job.renewed => job.own

RedditInv ==
  /\ RedditTypes /\ Numbered /\ NotAhead
  /\ OldSettled /\ ReadSettled /\ SubmissionsSettled
  /\ TokenDated /\ TokenChosen

LEMMA RedditStart == RedditInit => RedditInv
<1> SUFFICES ASSUME RedditInit PROVE RedditInv
  OBVIOUS
<1>1. hour = 0 /\ submitted = {} /\ ticked = -1 /\ token = NoToken /\ job = NoJob /\ settled = {}
  BY DEF RedditInit
<1>2. NoJob \in RedditJob
  BY DEF NoJob, RedditJob
<1>3. NoToken \in [held : BOOLEAN, until : Nat, issued : Nat, revoked : BOOLEAN, lag : Nat]
  BY DEF NoToken
<1>8. job.at = "off" /\ job.todo = {} /\ job.since = 0 /\ job.start = 0 /\ job.chosen = 0
  BY <1>1 DEF NoJob
<1>9. ~token.held /\ token.issued = 0
  BY <1>1 DEF NoToken
<1>4. RedditTypes
  <2>1. IsFiniteSet(submitted) /\ submitted \subseteq Submission /\ settled \subseteq submitted
    BY <1>1, FS_EmptySet
  <2>2. hour \in 0..MaxHour /\ ticked \in -1..MaxHour
    BY <1>1, RedditParameters
  <2> QED BY <1>1, <1>2, <1>3, <1>8, <2>1, <2>2 DEF RedditTypes, RedditTypeOK
<1>5. Numbered /\ NotAhead
  BY <1>1, <1>8 DEF Numbered, NotAhead
<1>7. TokenDated /\ TokenChosen
  BY <1>1, <1>8, <1>9 DEF TokenDated, TokenChosen
<1>6. OldSettled /\ ReadSettled /\ SubmissionsSettled
  BY <1>1 DEF OldSettled, ReadSettled, SubmissionsSettled
<1> QED BY <1>4, <1>5, <1>6, <1>7 DEF RedditInv

LEMMA RedditNumbers ==
  ASSUME RedditInv
  PROVE  /\ hour \in Nat /\ ticked \in Int
         /\ job.since \in Int /\ job.start \in Nat /\ job.chosen \in Nat
         /\ token.until \in Nat /\ token.issued \in Nat /\ token.lag \in Nat
         /\ \A p \in submitted : p[2] \in Nat /\ p[3] \in Nat
<1>1. RedditTypeOK /\ job \in RedditJob
  BY DEF RedditInv, RedditTypes
<1>2. hour \in Nat /\ ticked \in Int
  BY <1>1, RedditParameters DEF RedditTypeOK
<1>3. job.since \in Int /\ job.start \in Nat /\ job.chosen \in Nat
  BY <1>1 DEF RedditJob
<1>4. token.until \in Nat /\ token.issued \in Nat /\ token.lag \in Nat
  BY <1>1 DEF RedditTypeOK
<1>5. \A p \in submitted : p[2] \in Nat /\ p[3] \in Nat
  BY <1>1, RedditParameters DEF RedditTypeOK, Submission
<1> QED BY <1>2, <1>3, <1>4, <1>5

\* A submission is dated and numbered last.
LEMMA SubmitKeeps ==
  ASSUME RedditInv, NEW r \in Refs, Submit(Named[r])
  PROVE  RedditInv'
<1> DEFINE s == <<Named[r], hour, Cardinality(submitted) + 1>>
<1> USE RedditParameters DEF RedditInv, RedditTypes, RedditTypeOK
<1>1. submitted' = submitted \cup {s} /\ UNCHANGED <<hour, ticked, token, job, settled>>
  BY DEF Submit
<1>2. Cardinality(submitted) \in Nat /\ Cardinality(submitted) + 1 \in 1..MaxSubmitted
  BY FS_CardinalityType DEF Submit
<1>3. s \in Submission
  BY <1>2 DEF Submission
<1>4. s \notin submitted
  BY <1>2 DEF Numbered
<1>5. IsFiniteSet(submitted') /\ Cardinality(submitted') = Cardinality(submitted) + 1
  BY <1>1, <1>4, FS_AddElement
<1>6. \A p \in submitted : p[3] \in Nat /\ p[2] \in Nat /\ p[3] < s[3]
  BY <1>2 DEF Numbered, Submission
<1>7. RedditTypes'
  BY <1>1, <1>3, <1>5 DEF RedditJob
<1>8. Numbered'
  <2>1. ASSUME NEW p \in submitted' PROVE p[2] <= hour' /\ p[3] <= Cardinality(submitted')
    BY <1>1, <1>2, <1>5, <1>6 DEF Numbered
  <2>2. ASSUME NEW p \in submitted', NEW q \in submitted', q[3] > p[3] PROVE q[2] >= p[2]
    <3>1. CASE p = s
      BY <2>2, <3>1, <1>1, <1>2, <1>6
    <3>2. CASE p # s /\ q = s
      BY <3>2, <1>1 DEF Numbered
    <3>3. CASE p # s /\ q # s
      BY <2>2, <3>3, <1>1 DEF Numbered
    <3> QED BY <3>1, <3>2, <3>3
  <2> QED BY <2>1, <2>2 DEF Numbered
<1>9. NotAhead' /\ TokenDated' /\ TokenChosen'
  BY <1>1 DEF NotAhead, TokenDated, TokenChosen
<1>10. OldSettled' /\ ReadSettled' /\ SubmissionsSettled'
  <2>1. /\ job.since \in Int /\ job.start \in Nat /\ ticked \in Int /\ hour \in Nat
    BY RedditNumbers
  <2>2. ~(s[2] < job.since) /\ ~(s[2] < job.start) /\ ~(s[2] < ticked)
    BY <2>1 DEF NotAhead
  <2> QED BY <1>1, <2>2 DEF OldSettled, ReadSettled, SubmissionsSettled, ToBeRead
<1> QED BY <1>7, <1>8, <1>9, <1>10

LEMMA HourKeeps == RedditInv /\ HourPasses => RedditInv'
<1> SUFFICES ASSUME RedditInv, HourPasses PROVE RedditInv'
  OBVIOUS
<1> USE RedditParameters DEF RedditInv, RedditTypes, RedditTypeOK
<1>1. hour \in Nat /\ hour' = hour + 1 /\ hour' \in 0..MaxHour
      /\ UNCHANGED <<submitted, ticked, token, job, settled>>
  BY DEF HourPasses
<1>2. RedditTypes'
  BY <1>1 DEF RedditJob
<1>3. Numbered'
  <2>1. \A p \in submitted : p[2] \in Nat
    BY DEF Submission
  <2> QED BY <1>1, <2>1 DEF Numbered
<1>4. NotAhead' /\ TokenDated' /\ TokenChosen'
  BY <1>1, RedditNumbers DEF NotAhead, TokenDated, TokenChosen
<1>5. OldSettled' /\ ReadSettled' /\ SubmissionsSettled'
  BY <1>1 DEF OldSettled, ReadSettled, SubmissionsSettled, ToBeRead
<1> QED BY <1>2, <1>3, <1>4, <1>5

\* A step of the pass that settles more, or what is older than its window, and
\* that reads no ref it has not settled.
LEMMA PassKeeps ==
  ASSUME RedditInv, job.at # "off", job' \in RedditJob,
         job'.at \notin {"off", "refs"} => job'.ref \in Refs,
         job'.at # "off", job'.since = job.since, job'.start = job.start,
         job'.chosen <= hour,
         token' \in [held : BOOLEAN, until : Nat, issued : Nat, revoked : BOOLEAN, lag : Nat],
         UNCHANGED <<hour, submitted, ticked>>,
         settled \subseteq settled', settled' \subseteq submitted,
         \A r \in Refs : ToBeRead(r) /\ ~ToBeRead(r)' =>
           \A p \in submitted : p[1] = Named[r] /\ p[2] < job.start => p \in settled',
         TokenDated', TokenChosen'
  PROVE  RedditInv'
<1> USE RedditParameters DEF RedditInv, RedditTypes, RedditTypeOK
<1>1. RedditTypes'
  BY DEF RedditJob
<1>2. Numbered' /\ NotAhead' /\ SubmissionsSettled' /\ OldSettled'
  BY DEF Numbered, NotAhead, SubmissionsSettled, OldSettled
<1>3. ReadSettled'
  BY DEF ReadSettled
<1> QED BY <1>1, <1>2, <1>3
-----------------------------------------------------------------------------
(* Reddit: the steps of a pass.                                            *)

LEMMA StartJobKeeps == RedditInv /\ StartJob => RedditInv'
<1> SUFFICES ASSUME RedditInv, StartJob PROVE RedditInv'
  OBVIOUS
<1> DEFINE since == IF ticked = -1 THEN hour - Back ELSE ticked
<1>1. hour \in Nat /\ ticked \in Int /\ \A p \in submitted : p[2] \in Nat
  BY RedditNumbers
<1>2. since \in Int /\ since <= hour
  BY <1>1, RedditParameters DEF RedditInv, NotAhead
<1>3. job' = [NoJob EXCEPT !.at = "refs", !.todo = Refs, !.start = hour, !.since = since]
  BY DEF StartJob
<1>4. job' \in RedditJob
  BY <1>1, <1>2, <1>3 DEF NoJob, RedditJob
<1>5. /\ job'.at = "refs" /\ job'.todo = Refs /\ job'.start = hour /\ job'.since = since
      /\ job'.chosen = 0
  BY <1>3 DEF NoJob
<1>6. UNCHANGED <<hour, submitted, ticked, token>>
  BY DEF StartJob
<1>7. settled' \subseteq submitted
      /\ \A p \in submitted : p[2] < since => p \in settled'
  <2>1. CASE ticked = -1
    BY <2>1 DEF StartJob
  <2>2. CASE ticked # -1
    BY <2>2 DEF StartJob, RedditInv, RedditTypes, RedditTypeOK, SubmissionsSettled
  <2> QED BY <2>1, <2>2
<1>8. RedditTypes'
  BY <1>4, <1>5, <1>6, <1>7, RedditParameters DEF RedditInv, RedditTypes, RedditTypeOK
<1>9. Numbered' /\ NotAhead'
  BY <1>1, <1>2, <1>5, <1>6 DEF RedditInv, Numbered, NotAhead
<1>10. OldSettled' /\ ReadSettled'
  BY <1>5, <1>6, <1>7 DEF OldSettled, ReadSettled, ToBeRead
<1>11. SubmissionsSettled'
  <2>1. CASE ticked = -1
    BY <2>1, <1>1, <1>6 DEF SubmissionsSettled
  <2>2. CASE ticked # -1
    BY <2>2, <1>6, <1>7 DEF SubmissionsSettled
  <2> QED BY <2>1, <2>2
<1>12. TokenDated' /\ TokenChosen'
  BY <1>1, <1>5, <1>6 DEF RedditInv, TokenDated, TokenChosen
<1> QED BY <1>8, <1>9, <1>10, <1>11, <1>12 DEF RedditInv

LEMMA EndJobKeeps == RedditInv /\ EndJob => RedditInv'
<1> SUFFICES ASSUME RedditInv, EndJob PROVE RedditInv'
  OBVIOUS
<1>1. /\ job.at = "refs" /\ job.todo = {} /\ ticked' = job.start /\ job' = NoJob
      /\ UNCHANGED <<hour, submitted, token, settled>>
  BY DEF EndJob
<1>2. /\ job'.at = "off" /\ job'.todo = {} /\ job'.since = 0 /\ job'.start = 0 /\ job'.chosen = 0
      /\ job' \in RedditJob
  <2>1. NoJob \in RedditJob
    BY DEF NoJob, RedditJob
  <2> QED BY <1>1, <2>1 DEF NoJob
<1>3. hour \in Nat /\ ticked \in Int /\ job.start \in Nat /\ \A p \in submitted : p[2] \in Nat
  BY RedditNumbers
<1>4. ticked' <= hour /\ ticked' \in -1..MaxHour
  BY <1>1, <1>3, RedditParameters DEF RedditInv, RedditTypes, RedditTypeOK, NotAhead
<1>5. RedditTypes'
  BY <1>1, <1>2, <1>4 DEF RedditInv, RedditTypes, RedditTypeOK
<1>6. Numbered' /\ NotAhead' /\ OldSettled' /\ ReadSettled'
  BY <1>1, <1>2, <1>3, <1>4 DEF RedditInv, Numbered, NotAhead, OldSettled, ReadSettled
<1>7. SubmissionsSettled'
  <2> SUFFICES ASSUME NEW p \in submitted, p[2] < job.start PROVE p \in settled
    BY <1>1 DEF SubmissionsSettled
  <2>1. PICK r \in Refs : p[1] = Named[r]
    BY DEF RedditInv, RedditTypes, RedditTypeOK, Submission
  <2>2. ~ToBeRead(r)
    BY <1>1 DEF ToBeRead
  <2> QED BY <1>1, <2>1, <2>2 DEF RedditInv, ReadSettled
<1>8. TokenDated' /\ TokenChosen'
  BY <1>1, <1>2, <1>3 DEF RedditInv, TokenDated, TokenChosen
<1> QED BY <1>5, <1>6, <1>7, <1>8 DEF RedditInv

\* The token is chosen while it lasts, or a new one is asked for.
LEMMA EnsureIs ==
  ASSUME NEW j \in RedditJob, hour \in Nat
  PROVE  /\ Ensure(j, token) \in RedditJob
         /\ Ensure(j, token).todo = j.todo /\ Ensure(j, token).ref = j.ref
         /\ Ensure(j, token).since = j.since /\ Ensure(j, token).start = j.start
         /\ \/ /\ token.held /\ hour < token.until
               /\ Ensure(j, token).at = "get" /\ Ensure(j, token).chosen = hour
               /\ Ensure(j, token).renewed = j.renewed /\ Ensure(j, token).own = j.own
            \/ Ensure(j, token).at = "issue" /\ Ensure(j, token).chosen = j.chosen
<1>1. CASE token.held /\ hour < token.until
  <2>1. Ensure(j, token) = [j EXCEPT !.at = "get", !.chosen = hour]
    BY <1>1 DEF Ensure
  <2> QED BY <1>1, <2>1 DEF RedditJob
<1>2. CASE ~(token.held /\ hour < token.until)
  <2>1. Ensure(j, token) = [j EXCEPT !.at = "issue"]
    BY <1>2 DEF Ensure
  <2> QED BY <2>1 DEF RedditJob
<1> QED BY <1>1, <1>2

LEMMA TakeRefKeeps ==
  ASSUME RedditInv, NEW r \in Refs, TakeRef(r)
  PROVE  RedditInv'
<1> DEFINE j == [job EXCEPT !.todo = @ \ {r}, !.ref = r, !.again = FALSE, !.renewed = FALSE,
                            !.own = FALSE]
<1>1. /\ job.at = "refs" /\ job' = Ensure(j, token)
      /\ UNCHANGED <<hour, submitted, ticked, token, settled>>
  BY DEF TakeRef
<1>2. job \in RedditJob /\ hour \in Nat /\ job.chosen \in Nat /\ job.chosen <= hour
  BY RedditNumbers DEF RedditInv, RedditTypes, TokenDated
<1>3. /\ j \in RedditJob /\ j.todo = job.todo \ {r} /\ j.ref = r /\ j.since = job.since
      /\ j.start = job.start /\ ~j.renewed /\ j.chosen = job.chosen
  BY <1>2 DEF RedditJob
<1> HIDE DEF j
<1>4. /\ job' \in RedditJob /\ job'.todo = job.todo \ {r} /\ job'.ref = r
      /\ job'.since = job.since /\ job'.start = job.start /\ job'.at \in {"get", "issue"}
      /\ job'.chosen <= hour
      /\ job'.at = "get" => token.held /\ job'.chosen < token.until /\ ~job'.renewed
  BY <1>1, <1>2, <1>3, EnsureIs
<1>5. \A x \in Refs : ToBeRead(x) => ToBeRead(x)'
  BY <1>1, <1>4 DEF ToBeRead
<1>6. TokenDated' /\ TokenChosen'
  BY <1>1, <1>4 DEF RedditInv, TokenDated, TokenChosen
<1> QED
  BY <1>1, <1>4, <1>5, <1>6, PassKeeps DEF RedditInv, RedditTypes, RedditTypeOK

\* A ref whose window is given up, or was read, is settled.
LEMMA LeavesRef ==
  ASSUME RedditInv, job.at \notin {"off", "refs"}, job' = [job EXCEPT !.at = "refs"],
         UNCHANGED <<hour, submitted, ticked, token>>,
         settled \subseteq settled', settled' \subseteq submitted,
         Unread(Named[job.ref]) \subseteq settled'
  PROVE  RedditInv'
<1>1. job \in RedditJob /\ job.ref \in Refs
  BY DEF RedditInv, RedditTypes
<1>2. /\ job' \in RedditJob /\ job'.at = "refs" /\ job'.todo = job.todo /\ job'.since = job.since
      /\ job'.start = job.start /\ job'.chosen = job.chosen
  BY <1>1 DEF RedditJob
<1>3. ASSUME NEW r \in Refs, ToBeRead(r), ~ToBeRead(r)',
             NEW p \in submitted, p[1] = Named[r], p[2] < job.start
      PROVE  p \in settled'
  <2>1. r = job.ref
    BY <1>2, <1>3 DEF ToBeRead
  <2>2. p[2] \in Nat /\ job.since \in Int
    BY RedditNumbers
  <2>3. CASE p[2] < job.since
    BY <2>3 DEF RedditInv, OldSettled
  <2>4. CASE p[2] >= job.since
    BY <2>1, <2>4, <1>3 DEF Unread
  <2> QED BY <2>2, <2>3, <2>4
<1>4. TokenDated' /\ TokenChosen' /\ job'.chosen <= hour
  BY <1>2 DEF RedditInv, TokenDated, TokenChosen
<1> QED
  BY <1>2, <1>3, <1>4, PassKeeps DEF RedditInv, RedditTypes, RedditTypeOK

LEMMA SkipRefKeeps ==
  ASSUME RedditInv, job.at \notin {"off", "refs"}, SkipRef, UNCHANGED <<hour, submitted, ticked, token>>
  PROVE  RedditInv'
<1>1. Unread(Named[job.ref]) \subseteq submitted
  BY DEF Unread
<1> QED
  BY <1>1, LeavesRef DEF SkipRef, RedditInv, RedditTypes, RedditTypeOK

\* A step that stays with its ref, and chooses the token as it should.
LEMMA StaysWithRef ==
  ASSUME RedditInv, job.at \notin {"off", "refs"}, job' \in RedditJob,
         job'.at \notin {"off", "refs"}, job'.todo = job.todo, job'.ref = job.ref,
         job'.since = job.since, job'.start = job.start, job'.chosen <= hour,
         token' \in [held : BOOLEAN, until : Nat, issued : Nat, revoked : BOOLEAN, lag : Nat],
         UNCHANGED <<hour, submitted, ticked, settled>>, TokenDated', TokenChosen'
  PROVE  RedditInv'
<1>1. \A r \in Refs : ToBeRead(r) => ToBeRead(r)'
  BY DEF ToBeRead
<1> QED
  BY <1>1, PassKeeps DEF RedditInv, RedditTypes, RedditTypeOK

LEMMA LimitedKeeps == RedditInv /\ Limited => RedditInv'
<1> SUFFICES ASSUME RedditInv, Limited PROVE RedditInv'
  OBVIOUS
<1>1. job.at \in {"issue", "get"} /\ UNCHANGED <<hour, submitted, ticked, token>>
  BY DEF Limited
<1>2. CASE SkipRef
  BY <1>1, <1>2, SkipRefKeeps
<1>3. CASE job' = [job EXCEPT !.at = "sleep"] /\ UNCHANGED settled
  <2>1. job \in RedditJob
    BY DEF RedditInv, RedditTypes
  <2>2. /\ job' \in RedditJob /\ job'.at = "sleep" /\ job'.todo = job.todo /\ job'.ref = job.ref
        /\ job'.since = job.since /\ job'.start = job.start /\ job'.chosen = job.chosen
    BY <1>3, <2>1 DEF RedditJob
  <2>3. TokenDated' /\ TokenChosen' /\ job'.chosen <= hour
    BY <1>1, <2>2 DEF RedditInv, TokenDated, TokenChosen
  <2> QED
    BY <1>1, <1>3, <2>2, <2>3, StaysWithRef DEF RedditInv, RedditTypes, RedditTypeOK
<1> QED BY <1>2, <1>3 DEF Limited

LEMMA TryAgainKeeps == RedditInv /\ TryAgain => RedditInv'
<1> SUFFICES ASSUME RedditInv, TryAgain PROVE RedditInv'
  OBVIOUS
<1> DEFINE j == [job EXCEPT !.again = TRUE, !.renewed = FALSE, !.own = FALSE]
<1>1. /\ job.at = "sleep" /\ job' = Ensure(j, token)
      /\ UNCHANGED <<hour, submitted, ticked, token, settled>>
  BY DEF TryAgain
<1>2. job \in RedditJob /\ hour \in Nat /\ job.chosen \in Nat /\ job.chosen <= hour
  BY RedditNumbers DEF RedditInv, RedditTypes, TokenDated
<1>3. /\ j \in RedditJob /\ j.todo = job.todo /\ j.ref = job.ref /\ j.since = job.since
      /\ j.start = job.start /\ ~j.renewed /\ j.chosen = job.chosen
  BY <1>2 DEF RedditJob
<1> HIDE DEF j
<1>4. /\ job' \in RedditJob /\ job'.todo = job.todo /\ job'.ref = job.ref
      /\ job'.since = job.since /\ job'.start = job.start /\ job'.at \in {"get", "issue"}
      /\ job'.chosen <= hour
      /\ job'.at = "get" => token.held /\ job'.chosen < token.until /\ ~job'.renewed
  BY <1>1, <1>2, <1>3, EnsureIs
<1>5. TokenDated' /\ TokenChosen'
  BY <1>1, <1>4 DEF RedditInv, TokenDated, TokenChosen
<1> QED
  BY <1>1, <1>4, <1>5, StaysWithRef DEF RedditInv, RedditTypes, RedditTypeOK

LEMMA IssueKeeps == RedditInv /\ Issue => RedditInv'
<1> SUFFICES ASSUME RedditInv, Issue PROVE RedditInv'
  OBVIOUS
<1>1. /\ job.at = "issue" /\ token' = [NoToken EXCEPT !.issued = hour]
      /\ job' = [job EXCEPT !.at = "receive", !.own = TRUE]
      /\ UNCHANGED <<hour, submitted, ticked, settled>>
  BY DEF Issue
<1>2. job \in RedditJob /\ hour \in Nat /\ job.chosen \in Nat /\ job.chosen <= hour
  BY RedditNumbers DEF RedditInv, RedditTypes, TokenDated
<1>3. /\ job' \in RedditJob /\ job'.at = "receive" /\ job'.todo = job.todo /\ job'.ref = job.ref
      /\ job'.since = job.since /\ job'.start = job.start /\ job'.chosen = job.chosen /\ job'.own
  BY <1>1, <1>2 DEF RedditJob
<1>4. /\ token' \in [held : BOOLEAN, until : Nat, issued : Nat, revoked : BOOLEAN, lag : Nat]
      /\ ~token'.held /\ token'.issued = hour
  BY <1>1, <1>2 DEF NoToken
<1>5. TokenDated' /\ TokenChosen'
  BY <1>1, <1>2, <1>3, <1>4 DEF TokenDated, TokenChosen
<1> QED
  BY <1>1, <1>2, <1>3, <1>4, <1>5, StaysWithRef

LEMMA ReceiveKeeps == RedditInv /\ Receive => RedditInv'
<1> SUFFICES ASSUME RedditInv, Receive PROVE RedditInv'
  OBVIOUS
<1>1. /\ job.at = "receive"
      /\ token' = [token EXCEPT !.held = TRUE, !.until = Until(hour), !.lag = hour - token.issued]
      /\ job' = [job EXCEPT !.at = "get", !.chosen = hour]
      /\ UNCHANGED <<hour, submitted, ticked, settled>>
  BY DEF Receive
<1>2. /\ job \in RedditJob /\ hour \in Nat /\ token.issued \in Nat /\ token.issued <= hour
      /\ token \in [held : BOOLEAN, until : Nat, issued : Nat, revoked : BOOLEAN, lag : Nat]
      /\ job.own
  BY <1>1, RedditNumbers DEF RedditInv, RedditTypes, RedditTypeOK, TokenDated, TokenChosen
<1>3. /\ job' \in RedditJob /\ job'.at = "get" /\ job'.todo = job.todo /\ job'.ref = job.ref
      /\ job'.since = job.since /\ job'.start = job.start /\ job'.chosen = hour /\ job'.own
  BY <1>1, <1>2 DEF RedditJob
<1>4. hour - token.issued \in Nat /\ Until(hour) \in Nat
      /\ Until(hour) = hour + (IF TokenTTL > Leeway THEN TokenTTL - Leeway ELSE 0)
      /\ (hour < Until(hour) \/ TokenTTL <= Leeway)
  BY <1>2, RedditParameters DEF Until
<1>5. /\ token' \in [held : BOOLEAN, until : Nat, issued : Nat, revoked : BOOLEAN, lag : Nat]
      /\ token'.held /\ token'.until = Until(hour) /\ token'.issued = token.issued
      /\ token'.lag = hour - token.issued
  BY <1>1, <1>2, <1>4
<1>6. TokenDated'
  BY <1>1, <1>2, <1>3, <1>4, <1>5, RedditParameters DEF TokenDated
<1>7. TokenChosen'
  BY <1>3, <1>4, <1>5 DEF TokenChosen
<1> QED
  BY <1>1, <1>2, <1>3, <1>5, <1>6, <1>7, StaysWithRef

LEMMA RevokeKeeps == RedditInv /\ Revoke => RedditInv'
<1> SUFFICES ASSUME RedditInv, Revoke PROVE RedditInv'
  OBVIOUS
<1>1. /\ token' = [token EXCEPT !.revoked = TRUE]
      /\ UNCHANGED <<hour, submitted, ticked, job, settled>>
  BY DEF Revoke
<1>2. token \in [held : BOOLEAN, until : Nat, issued : Nat, revoked : BOOLEAN, lag : Nat]
  BY DEF RedditInv, RedditTypes, RedditTypeOK
<1>3. /\ token' \in [held : BOOLEAN, until : Nat, issued : Nat, revoked : BOOLEAN, lag : Nat]
      /\ token'.held = token.held /\ token'.until = token.until
      /\ token'.issued = token.issued /\ token'.lag = token.lag
  BY <1>1, <1>2
<1>4. RedditTypes'
  BY <1>1, <1>3 DEF RedditInv, RedditTypes, RedditTypeOK
<1>5. Numbered' /\ NotAhead' /\ OldSettled' /\ ReadSettled' /\ SubmissionsSettled'
  BY <1>1 DEF RedditInv, Numbered, NotAhead, OldSettled, ReadSettled, SubmissionsSettled, ToBeRead
<1>6. TokenDated' /\ TokenChosen'
  BY <1>1, <1>3 DEF RedditInv, TokenDated, TokenChosen
<1> QED BY <1>4, <1>5, <1>6 DEF RedditInv

LEMMA RefusedKeeps == RedditInv /\ Refused => RedditInv'
<1> SUFFICES ASSUME RedditInv, Refused PROVE RedditInv'
  OBVIOUS
<1>1. job.at = "get" /\ UNCHANGED <<hour, submitted, ticked>>
  BY DEF Refused
<1>2. CASE job.renewed
  BY <1>1, <1>2, SkipRefKeeps DEF Refused
<1>3. CASE ~job.renewed
  <2>1. /\ token' = NoToken /\ UNCHANGED settled
        /\ job' = Ensure([job EXCEPT !.renewed = TRUE], NoToken)
    BY <1>3 DEF Refused, ClearedToken
  <2>2. job' = [job EXCEPT !.renewed = TRUE, !.at = "issue"]
    BY <2>1 DEF Ensure, NoToken, RedditInv, RedditTypes
  <2>3. job \in RedditJob /\ hour \in Nat /\ job.chosen \in Nat /\ job.chosen <= hour
    BY RedditNumbers DEF RedditInv, RedditTypes, TokenDated
  <2>4. /\ job' \in RedditJob /\ job'.at = "issue" /\ job'.todo = job.todo /\ job'.ref = job.ref
        /\ job'.since = job.since /\ job'.start = job.start /\ job'.chosen = job.chosen
    BY <2>2, <2>3 DEF RedditJob
  <2>5. /\ token' \in [held : BOOLEAN, until : Nat, issued : Nat, revoked : BOOLEAN, lag : Nat]
        /\ ~token'.held /\ token'.issued = 0
    BY <2>1 DEF NoToken
  <2>6. TokenDated' /\ TokenChosen'
    BY <1>1, <2>3, <2>4, <2>5 DEF TokenDated, TokenChosen
  <2> QED
    BY <1>1, <2>1, <2>3, <2>4, <2>5, <2>6, StaysWithRef
<1> QED BY <1>2, <1>3

\* An answer that is not full holds the whole window: what is newer than one of
\* its submissions lies in it too.
LEMMA AnswerIsWhole ==
  ASSUME RedditInv, NEW s, NEW p \in Unread(s), Cardinality(Unread(s)) <= Newest
  PROVE  Cardinality({q \in submitted : q[1] = s /\ q[3] > p[3]}) < Newest
<1> DEFINE newer == {q \in submitted : q[1] = s /\ q[3] > p[3]}
           unread == Unread(s)
<1>1. /\ p \in submitted /\ p[2] \in Nat /\ p[3] \in Nat /\ job.since \in Int
      /\ \A q \in submitted : q[2] \in Nat
  BY RedditNumbers DEF Unread
<1>2. newer \subseteq unread \ {p}
  <2> SUFFICES ASSUME NEW q \in newer PROVE q \in unread /\ q # p
    OBVIOUS
  <2>1. q \in submitted /\ q[2] >= p[2] /\ p[2] >= job.since
    BY <1>1 DEF RedditInv, Numbered, Unread
  <2> QED BY <1>1, <2>1 DEF Unread
<1>3. IsFiniteSet(unread)
  BY FS_Subset DEF Unread, RedditInv, RedditTypes
<1>4. IsFiniteSet(unread \ {p}) /\ Cardinality(unread \ {p}) = Cardinality(unread) - 1
  BY <1>3, FS_RemoveElement
<1>5. Cardinality(newer) <= Cardinality(unread \ {p})
  BY <1>2, <1>4, FS_Subset
<1>6. Cardinality(unread) \in Nat /\ Cardinality(newer) \in Nat
  BY <1>2, <1>3, <1>4, FS_Subset, FS_CardinalityType
<1> HIDE DEF newer, unread
<1>7. Cardinality(unread) <= Newest
  BY DEF unread
<1>8. Cardinality(newer) < Newest
  BY <1>4, <1>5, <1>6, <1>7, RedditParameters
<1> QED BY <1>8 DEF newer

LEMMA AnsweredKeeps == RedditInv /\ Answered => RedditInv'
<1> SUFFICES ASSUME RedditInv, Answered PROVE RedditInv'
  OBVIOUS
<1> DEFINE s == Named[job.ref]
           all == {p \in submitted : p[1] = s}
           newest == {p \in all : Cardinality({q \in all : q[3] > p[3]}) < Newest}
<1>1. /\ job.at = "get" /\ job' = [job EXCEPT !.at = "refs"]
      /\ UNCHANGED <<hour, submitted, ticked, token>>
      /\ settled' = settled \cup Cut(newest)
                            \cup (IF Cardinality(Unread(s)) > Newest THEN Unread(s) ELSE {})
  BY DEF Answered
<1>2. settled \subseteq submitted
  BY DEF RedditInv, RedditTypes, RedditTypeOK
<1>3. settled \subseteq settled' /\ settled' \subseteq submitted
  BY <1>1, <1>2 DEF Cut, Unread
<1>4. Unread(s) \subseteq settled'
  <2>1. CASE Cardinality(Unread(s)) > Newest
    BY <1>1, <2>1
  <2>2. CASE ~(Cardinality(Unread(s)) > Newest)
    <3> SUFFICES ASSUME NEW p \in Unread(s) PROVE p \in Cut(newest)
      BY <1>1
    <3>1. IsFiniteSet(Unread(s))
      BY FS_Subset DEF Unread, RedditInv, RedditTypes
    <3>2. Cardinality(Unread(s)) <= Newest
      BY <2>2, <3>1, FS_CardinalityType, RedditParameters
    <3>3. Cardinality({q \in submitted : q[1] = s /\ q[3] > p[3]}) < Newest
      BY <3>2, AnswerIsWhole
    <3>4. {q \in submitted : q[1] = s /\ q[3] > p[3]} = {q \in all : q[3] > p[3]}
      OBVIOUS
    <3>5. p \in newest
      BY <3>3, <3>4 DEF Unread
    <3> QED BY <3>5 DEF Cut, Unread
  <2> QED BY <2>1, <2>2
<1> QED BY <1>1, <1>3, <1>4, LeavesRef

LEMMA RedditStep == RedditInv /\ [RedditNext]_redditVars => RedditInv'
<1> SUFFICES ASSUME RedditInv, [RedditNext]_redditVars PROVE RedditInv'
  OBVIOUS
<1>1. CASE HourPasses
  BY <1>1, HourKeeps
<1>2. CASE Revoke
  BY <1>2, RevokeKeeps
<1>3. ASSUME NEW r \in Refs, Submit(Named[r]) PROVE RedditInv'
  BY <1>3, SubmitKeeps
<1>4. CASE StartJob
  BY <1>4, StartJobKeeps
<1>5. CASE EndJob
  BY <1>5, EndJobKeeps
<1>6. CASE Limited
  BY <1>6, LimitedKeeps
<1>7. CASE TryAgain
  BY <1>7, TryAgainKeeps
<1>8. CASE Broken
  BY <1>8, SkipRefKeeps DEF Broken
<1>9. CASE Issue
  BY <1>9, IssueKeeps
<1>10. CASE Receive
  BY <1>10, ReceiveKeeps
<1>11. CASE Refused
  BY <1>11, RefusedKeeps
<1>12. CASE Answered
  BY <1>12, AnsweredKeeps
<1>13. ASSUME NEW r \in Refs, TakeRef(r) PROVE RedditInv'
  BY <1>13, TakeRefKeeps
<1>14. CASE UNCHANGED redditVars
  BY <1>14
     DEF redditVars, RedditInv, RedditTypes, RedditTypeOK, Numbered, NotAhead, OldSettled,
         ReadSettled, ToBeRead, SubmissionsSettled, TokenDated, TokenChosen
<1> QED
  BY <1>1, <1>2, <1>3, <1>4, <1>5, <1>6, <1>7, <1>8, <1>9, <1>10, <1>11, <1>12, <1>13, <1>14
     DEF RedditNext

\* A step of the collectors is one of the part that is followed.
LEMMA StepsOfParts ==
  ASSUME [Next]_vars
  PROVE  /\ [SessionsNext]_sessionVars /\ [TwitterNext]_twitterVars
         /\ [RedditNext]_redditVars /\ [QrNext]_qrVars
BY DEF Next, vars, Telegram, NotTelegram, Twitter, Reddit, Logging

LEMMA RedditInvariance == Spec => []RedditInv
<1>1. Init => RedditInv
  BY RedditStart DEF Init
<1>2. RedditInv /\ [Next]_vars => RedditInv'
  BY RedditStep, StepsOfParts
<1> QED BY <1>1, <1>2, PTL DEF Spec

\* What was submitted before the last finished pass began is settled: handed
\* over, or its ref skipped, or more than one answer holds came in between - for
\* any lookback, answer size, token lifetime and spelling of the refs.
THEOREM SubmissionsAreSettled == Spec => []SubmissionsSettled
<1>1. RedditInv => SubmissionsSettled
  BY DEF RedditInv
<1> QED BY <1>1, RedditInvariance, PTL

\* A token that is refused was revoked, or was underway longer than the leeway,
\* and a request ends unauthorised only with a token of its own: _get's one
\* refresh is enough.
LEMMA RefusalHasCause ==
  ASSUME RedditInv, Refused
  PROVE  /\ token.revoked \/ token.lag + hour - job.chosen > Leeway \/ TokenTTL <= Leeway
         /\ job.renewed => job.own
<1>1. /\ job.at = "get" /\ token.held /\ (job.chosen < token.until \/ TokenTTL <= Leeway)
      /\ token.revoked \/ ~(hour < token.issued + TokenTTL)
  BY DEF Refused, Accepted, RedditInv, TokenChosen
<1>2. /\ hour \in Nat /\ job.chosen \in Nat /\ token.until \in Nat /\ token.issued \in Nat
      /\ token.lag \in Nat
  BY RedditNumbers
<1>3. token.until = token.issued + token.lag
                    + (IF TokenTTL > Leeway THEN TokenTTL - Leeway ELSE 0)
  BY <1>1 DEF RedditInv, TokenDated
<1>4. ~token.revoked /\ TokenTTL > Leeway => token.lag + hour - job.chosen > Leeway
  BY <1>1, <1>2, <1>3, RedditParameters
<1> QED BY <1>1, <1>4, RedditParameters DEF RedditInv, TokenChosen

THEOREM RefusalsHaveCause == Spec => RefusedForCause
<1>1. RedditInv /\ [Next]_vars =>
        [Refused =>
           /\ token.revoked \/ token.lag + hour - job.chosen > Leeway \/ TokenTTL <= Leeway
           /\ job.renewed => job.own]_redditVars
  BY RefusalHasCause
<1> QED BY <1>1, RedditInvariance, PTL DEF Spec, RefusedForCause

-----------------------------------------------------------------------------
(* Twitter: what the stamps say.                                           *)

\* The least of two numbers, or of three; the greatest of two.
LEMMA MinOfTwo ==
  ASSUME NEW a \in Int, NEW b \in Int
  PROVE  Min({a, b}) \in {a, b} /\ Min({a, b}) <= a /\ Min({a, b}) <= b
<1>1. \E x \in {a, b} : \A y \in {a, b} : x <= y
  <2>1. CASE a <= b
    BY <2>1
  <2>2. CASE b <= a
    BY <2>2
  <2> QED BY <2>1, <2>2
<1> QED BY <1>1 DEF Min

LEMMA MinOfThree ==
  ASSUME NEW a \in Int, NEW b \in Int, NEW c \in Int
  PROVE  /\ Min({a, b, c}) \in {a, b, c}
         /\ Min({a, b, c}) <= a /\ Min({a, b, c}) <= b /\ Min({a, b, c}) <= c
<1>1. \E x \in {a, b, c} : \A y \in {a, b, c} : x <= y
  <2>1. CASE a <= b /\ a <= c
    BY <2>1
  <2>2. CASE b <= a /\ b <= c
    BY <2>2
  <2>3. CASE c <= a /\ c <= b
    BY <2>3
  <2> QED BY <2>1, <2>2, <2>3
<1> QED BY <1>1 DEF Min

LEMMA MaxOfTwo ==
  ASSUME NEW a \in Nat, NEW b \in Nat
  PROVE  Max({a, b}) \in Nat
<1>1. \E x \in {a, b} : \A y \in {a, b} : x >= y
  <2>1. CASE a <= b
    BY <2>1
  <2>2. CASE b <= a
    BY <2>2
  <2> QED BY <2>1, <2>2
<1> QED BY <1>1 DEF Max

Charging == {w \in Children : turn[w].at \in {"marking", "asking"}}

Turn ==
  [at : {"off", "refs", "marking", "asking"}, todo : SUBSET Handles, a : Handles \cup {Nothing},
   from : Int, since : Int, start : Time, late : BOOLEAN]

TwitterTypes ==
  /\ TwitterTypeOK /\ IsFiniteSet(tweets)
  /\ \A w \in Charging : turn[w].a \in Handles

\* Nothing is dated after the clock, and a window begins before it.
Timely ==
  /\ \A p \in tweets : p[2] <= clock
  /\ \A a \in Handles : /\ stamp[a] # Nothing => stamp[a] <= clock
                        /\ asked[a] # Nothing => asked[a] <= clock
  /\ \A w \in Children : turn[w].at = "marking" => turn[w].from < clock

\* A tweet that a read answers for, or will.
AnsweredFor(p) == p \in covered \/ \E w \in Children : turn[w].at = "asking" /\ p \in Window(w)

\* What is older than the window about to be read was answered for before.
WindowsMeet ==
  \A w \in Children : turn[w].at = "marking" =>
    \A p \in tweets : p[1] = turn[w].a /\ p[2] < turn[w].from => AnsweredFor(p)

\* The stamp is the last request, unless it expired since.
Stamped ==
  \A a \in Handles : asked[a] # Nothing =>
    stamp[a] = asked[a] \/ (stamp[a] = Nothing /\ asked[a] + StampTTL <= clock)

Paced ==
  \A w \in Children : turn[w].at = "marking" /\ ~turn[w].late =>
    asked[turn[w].a] = Nothing \/ clock - asked[turn[w].a] >= Interval

\* What the answers that are due may still charge lies within the bound.
ChargeBounded ==
  reads + MaxResults * Cardinality(Charging) < Budget + MaxResults * Cardinality(Children)

TwitterInv ==
  /\ TwitterTypes /\ Timely /\ NoTweetSkipped /\ WindowsMeet
  /\ Stamped /\ Paced /\ ChargeBounded

LEMMA TwitterNumbers ==
  ASSUME TwitterInv
  PROVE  /\ clock \in Nat /\ reads \in Nat
         /\ \A a \in Handles : /\ stamp[a] # Nothing => stamp[a] \in Nat
                               /\ asked[a] # Nothing => asked[a] \in Nat
         /\ \A p \in tweets : p[1] \in Handles /\ p[2] \in Nat
         /\ \A w \in Children : turn[w] \in Turn /\ turn[w].from \in Int /\ turn[w].since \in Int
<1>1. TwitterTypeOK
  BY DEF TwitterInv, TwitterTypes
<1>2. clock \in Nat /\ reads \in Nat
  BY <1>1, TwitterParameters DEF TwitterTypeOK, Time
<1>3. \A a \in Handles : /\ stamp[a] # Nothing => stamp[a] \in Nat
                         /\ asked[a] # Nothing => asked[a] \in Nat
  BY <1>1, TwitterParameters DEF TwitterTypeOK, Time
<1>4. \A p \in tweets : p[1] \in Handles /\ p[2] \in Nat
  BY <1>1, TwitterParameters DEF TwitterTypeOK, Tweet, Time
<1>5. \A w \in Children : turn[w] \in Turn
  BY <1>1 DEF TwitterTypeOK, Turn
<1>6. \A w \in Children : turn[w].from \in Int /\ turn[w].since \in Int
  BY <1>5 DEF Turn
<1> QED BY <1>2, <1>3, <1>4, <1>5, <1>6

LEMMA TwitterStart == TwitterInit => TwitterInv
<1> SUFFICES ASSUME TwitterInit PROVE TwitterInv
  OBVIOUS
<1>1. /\ clock = 0 /\ tweets = {} /\ marker = Nothing /\ reads = 0 /\ covered = {}
      /\ stamp = [a \in Handles |-> Nothing] /\ asked = [a \in Handles |-> Nothing]
      /\ pause = [w \in Children |-> 0] /\ turn = [w \in Children |-> NoTurn]
  BY DEF TwitterInit
<1>2. NoTurn \in Turn /\ NoTurn.at = "off"
  BY TwitterParameters DEF NoTurn, Turn, Time
<1>3. TwitterTypeOK
  BY <1>1, <1>2, TwitterParameters DEF TwitterTypeOK, Turn, Time
<1>4. Charging = {}
  BY <1>1, <1>2 DEF Charging
<1>5. TwitterTypes
  BY <1>1, <1>3, <1>4, FS_EmptySet DEF TwitterTypes
<1>6. Timely /\ NoTweetSkipped /\ WindowsMeet /\ Stamped /\ Paced
  BY <1>1, <1>2 DEF Timely, NoTweetSkipped, WindowsMeet, Stamped, Paced
<1>7. ChargeBounded
  <2>1. Cardinality(Charging) = 0 /\ Cardinality(Children) \in Nat
    BY <1>4, FS_EmptySet, FS_CardinalityType, TwitterParameters
  <2>2. MaxResults * Cardinality(Children) \in Nat /\ MaxResults * 0 = 0
    BY <2>1, TwitterParameters
  <2> QED BY <1>1, <2>1, <2>2, TwitterParameters DEF ChargeBounded
<1> QED BY <1>5, <1>6, <1>7 DEF TwitterInv

\* A product grows with its factor.
LEMMA Product ==
  ASSUME NEW k \in Nat, NEW m \in Nat, NEW n \in Nat, m <= n
  PROVE  k * m \in Nat /\ k * n \in Nat /\ k * m <= k * n /\ k * (m + 1) = k * m + k
OBVIOUS

LEMMA ChargeShrinks ==
  ASSUME TwitterInv, reads' \in Nat, reads' <= reads, Charging' \subseteq Charging
  PROVE  ChargeBounded'
<1>1. IsFiniteSet(Children) /\ Charging \subseteq Children
  BY TwitterParameters DEF Charging
<1>2. IsFiniteSet(Charging) /\ IsFiniteSet(Charging') /\ Cardinality(Charging') <= Cardinality(Charging)
  BY <1>1, FS_Subset
<1>3. Cardinality(Charging) \in Nat /\ Cardinality(Charging') \in Nat /\ Cardinality(Children) \in Nat
  BY <1>1, <1>2, FS_CardinalityType
<1>4. /\ MaxResults * Cardinality(Charging') \in Nat /\ MaxResults * Cardinality(Charging) \in Nat
      /\ MaxResults * Cardinality(Charging') <= MaxResults * Cardinality(Charging)
      /\ MaxResults * Cardinality(Children) \in Nat
  BY <1>2, <1>3, Product, TwitterParameters
<1>5. reads \in Nat
  BY TwitterNumbers
<1> QED BY <1>4, <1>5, TwitterParameters DEF ChargeBounded, TwitterInv

\* A step of one child that asks for nothing, and answers for what it asked.
LEMMA TurnKeeps ==
  ASSUME TwitterInv, NEW w \in Children,
         turn' \in [Children -> Turn], \A v \in Children \ {w} : turn'[v] = turn[v],
         UNCHANGED <<clock, tweets, stamp, asked>>,
         turn'[w].at # "asking",
         turn'[w].at = "marking" =>
           /\ turn'[w].a \in Handles /\ turn'[w].from < clock
           /\ asked[turn'[w].a] = Nothing \/ clock - asked[turn'[w].a] >= Interval
           /\ \A p \in tweets : p[1] = turn'[w].a /\ p[2] < turn'[w].from => AnsweredFor(p)',
         covered \subseteq covered', covered' \subseteq Tweet,
         turn[w].at = "asking" => Window(w) \subseteq covered',
         marker' \in Time \cup {Nothing}, pause' \in [Children -> Nat], reads' \in Nat,
         ChargeBounded'
  PROVE  TwitterInv'
<1>1. ASSUME NEW p, AnsweredFor(p) PROVE AnsweredFor(p)'
  <2>1. CASE p \in covered
    BY <2>1 DEF AnsweredFor
  <2>2. ASSUME NEW v \in Children, turn[v].at = "asking", p \in Window(v) PROVE AnsweredFor(p)'
    <3>1. CASE v = w
      BY <2>2, <3>1 DEF AnsweredFor
    <3>2. CASE v # w
      <4>1. turn'[v] = turn[v] /\ tweets' = tweets
        BY <3>2
      <4> QED BY <2>2, <4>1 DEF AnsweredFor, Window, From
    <3> QED BY <3>1, <3>2
  <2> QED BY <1>1, <2>1, <2>2 DEF AnsweredFor
<1>2. TwitterTypes'
  BY DEF TwitterInv, TwitterTypes, TwitterTypeOK, Turn, Charging
<1>3. Timely'
  BY DEF TwitterInv, Timely
<1>4. NoTweetSkipped'
  <2>1. \A p \in tweets : stamp[p[1]] # Nothing /\ p[2] < stamp[p[1]] => AnsweredFor(p)
    BY DEF TwitterInv, NoTweetSkipped, AnsweredFor
  <2>2. \A p \in tweets : stamp[p[1]] # Nothing /\ p[2] < stamp[p[1]] => AnsweredFor(p)'
    BY <1>1, <2>1
  <2> QED BY <2>2 DEF NoTweetSkipped, AnsweredFor
<1>5. WindowsMeet'
  BY <1>1 DEF TwitterInv, WindowsMeet
<1>6. Stamped' /\ Paced'
  BY DEF TwitterInv, Stamped, Paced
<1> QED BY <1>2, <1>3, <1>4, <1>5, <1>6 DEF TwitterInv

\* A step of one child after which it is between two accounts, or off.
LEMMA BetweenAccounts ==
  ASSUME TwitterInv, NEW w \in Children, NEW t \in Turn, t.at \in {"off", "refs"},
         turn' = [turn EXCEPT ![w] = t],
         UNCHANGED <<clock, tweets, stamp, asked, reads>>,
         covered' = IF turn[w].at = "asking" THEN covered \cup Window(w) ELSE covered,
         marker' \in Time \cup {Nothing}, pause' \in [Children -> Nat]
  PROVE  TwitterInv'
<1>1. turn \in [Children -> Turn] /\ covered \subseteq Tweet /\ tweets \subseteq Tweet /\ reads \in Nat
  BY DEF TwitterInv, TwitterTypes, TwitterTypeOK, Turn
<1>2. turn' \in [Children -> Turn] /\ turn'[w] = t /\ \A v \in Children \ {w} : turn'[v] = turn[v]
  BY <1>1
<1>3. Charging' \subseteq Charging
  BY <1>2 DEF Charging
<1>4. ChargeBounded'
  BY <1>1, <1>3, ChargeShrinks
<1>5. covered' \subseteq Tweet /\ covered \subseteq covered'
  BY <1>1 DEF Window, From
<1>6. turn[w].at = "asking" => Window(w) \subseteq covered'
  OBVIOUS
<1> QED BY <1>1, <1>2, <1>4, <1>5, <1>6, TurnKeeps

LEMMA NextAccountKeeps ==
  ASSUME TwitterInv, NEW w \in Children, turn[w].at = "asking", NextAccount(w)
  PROVE  \E t \in Turn : t.at = "refs" /\ turn' = [turn EXCEPT ![w] = t]
<1> DEFINE t == [turn[w] EXCEPT !.at = "refs", !.a = Nothing, !.from = 0, !.late = FALSE]
<1>1. turn[w] \in Turn
  BY TwitterNumbers
<1>2. 0 \in Int /\ Nothing \in Handles \cup {Nothing} /\ FALSE \in BOOLEAN
  OBVIOUS
<1>3. t \in Turn /\ t.at = "refs"
  BY <1>1, <1>2 DEF Turn
<1>4. turn' = [turn EXCEPT ![w] = t]
  BY DEF NextAccount
<1> QED BY <1>3, <1>4

LEMMA BeginPassKeeps ==
  ASSUME TwitterInv, NEW w \in Children, BeginPass(w)
  PROVE  TwitterInv'
<1> DEFINE since == IF marker = Nothing THEN clock - Lookback ELSE marker
           t == [NoTurn EXCEPT !.at = "refs", !.todo = Handles, !.start = clock, !.since = since]
<1>1. /\ turn[w].at = "off" /\ turn' = [turn EXCEPT ![w] = t]
      /\ UNCHANGED <<clock, tweets, marker, stamp, reads, pause, covered, asked>>
  BY DEF BeginPass, outside
<1>2. clock \in Time /\ marker \in Time \cup {Nothing} /\ pause \in [Children -> Nat]
  BY DEF TwitterInv, TwitterTypes, TwitterTypeOK
<1>3. since \in Int
  BY <1>2, TwitterParameters DEF Time
<1> HIDE DEF since
<1>4. t \in Turn /\ t.at = "refs"
  <2>1. NoTurn \in Turn
    BY TwitterParameters DEF NoTurn, Turn, Time
  <2> QED BY <1>2, <1>3, <2>1 DEF Turn
<1> HIDE DEF t
<1> QED BY <1>1, <1>2, <1>4, BetweenAccounts

LEMMA PassOverKeeps ==
  ASSUME TwitterInv, NEW w \in Children, NEW a \in Handles, PassOver(w, a)
  PROVE  TwitterInv'
<1> DEFINE t == [turn[w] EXCEPT !.todo = @ \ {a}]
<1>1. /\ turn[w].at = "refs" /\ turn' = [turn EXCEPT ![w] = t]
      /\ UNCHANGED <<clock, tweets, marker, stamp, reads, pause, covered, asked>>
  BY DEF PassOver, outside
<1>2. turn[w] \in Turn /\ marker \in Time \cup {Nothing} /\ pause \in [Children -> Nat]
  BY TwitterNumbers DEF TwitterInv, TwitterTypes, TwitterTypeOK
<1>3. t \in Turn /\ t.at = "refs"
  BY <1>1, <1>2 DEF Turn
<1> HIDE DEF t
<1> QED BY <1>1, <1>2, <1>3, BetweenAccounts

LEMMA FailsKeeps ==
  ASSUME TwitterInv, NEW w \in Children, Fails(w), pause' \in [Children -> Nat]
  PROVE  TwitterInv'
<1>1. /\ turn[w].at = "asking" /\ covered' = covered \cup Window(w)
      /\ UNCHANGED <<clock, tweets, marker, stamp, reads, asked>>
  BY DEF Fails, outside
<1>2. PICK t \in Turn : t.at = "refs" /\ turn' = [turn EXCEPT ![w] = t]
  BY <1>1, NextAccountKeeps DEF Fails
<1>3. marker \in Time \cup {Nothing}
  BY DEF TwitterInv, TwitterTypes, TwitterTypeOK
<1> QED BY <1>1, <1>2, <1>3, BetweenAccounts

LEMMA EnterPauseKeeps ==
  ASSUME TwitterInv, NEW w \in Children, EnterPause(w)
  PROVE  TwitterInv'
<1>1. PICK d \in (1..PauseCap) \cup {Credits} :
        pause' = [pause EXCEPT ![w] = Max({@, clock + d})]
  BY DEF EnterPause
<1>2. pause \in [Children -> Nat] /\ clock \in Nat /\ d \in Nat
  BY TwitterNumbers, TwitterParameters DEF TwitterInv, TwitterTypes, TwitterTypeOK
<1>3. Max({pause[w], clock + d}) \in Nat
  BY <1>2, MaxOfTwo
<1>4. pause' \in [Children -> Nat]
  BY <1>1, <1>2, <1>3
<1> QED BY <1>4, FailsKeeps DEF EnterPause

LEMMA UnavailableKeeps ==
  ASSUME TwitterInv, NEW w \in Children, Unavailable(w)
  PROVE  TwitterInv'
BY FailsKeeps DEF Unavailable, TwitterInv, TwitterTypes, TwitterTypeOK

LEMMA EndPassKeeps ==
  ASSUME TwitterInv, NEW w \in Children, EndPass(w)
  PROVE  TwitterInv'
<1>1. /\ turn[w].at = "refs" /\ turn' = [turn EXCEPT ![w] = NoTurn] /\ marker' = turn[w].start
      /\ UNCHANGED <<clock, tweets, stamp, reads, pause, covered, asked>>
  BY DEF EndPass, outside
<1>2. turn[w] \in Turn /\ pause \in [Children -> Nat]
  BY TwitterNumbers DEF TwitterInv, TwitterTypes, TwitterTypeOK
<1>3. marker' \in Time
  BY <1>1, <1>2 DEF Turn
<1>4. NoTurn \in Turn /\ NoTurn.at = "off"
  BY TwitterParameters DEF NoTurn, Turn, Time
<1> QED BY <1>1, <1>2, <1>3, <1>4, BetweenAccounts

LEMMA ChildEndsKeeps ==
  ASSUME TwitterInv, NEW w \in Children, ChildEnds(w)
  PROVE  TwitterInv'
<1>1. /\ covered' = IF turn[w].at = "asking" THEN covered \cup Window(w) ELSE covered
      /\ turn' = [turn EXCEPT ![w] = NoTurn] /\ pause' = [pause EXCEPT ![w] = 0]
      /\ UNCHANGED <<clock, tweets, marker, stamp, reads, asked>>
  BY DEF ChildEnds, outside
<1>2. marker \in Time \cup {Nothing} /\ pause \in [Children -> Nat]
  BY DEF TwitterInv, TwitterTypes, TwitterTypeOK
<1>3. pause' \in [Children -> Nat]
  BY <1>1, <1>2
<1>4. NoTurn \in Turn /\ NoTurn.at = "off"
  BY TwitterParameters DEF NoTurn, Turn, Time
<1> QED BY <1>1, <1>2, <1>3, <1>4, BetweenAccounts

\* A window begins an interval ago or earlier, and no later than the stamp.
LEMMA WindowBegins ==
  ASSUME TwitterInv, NEW a \in Handles, NEW since \in Int
  PROVE  /\ EffectiveSince(a, since) \in Int
         /\ EffectiveSince(a, since) <= clock - Interval
         /\ stamp[a] # Nothing => EffectiveSince(a, since) <= stamp[a]
<1>1. clock - Interval \in Int /\ (stamp[a] # Nothing => stamp[a] \in Int)
  BY TwitterNumbers, TwitterParameters
<1>2. CASE stamp[a] = Nothing
  <2>1. EffectiveSince(a, since) = Min({clock - Interval, since})
    <3>1. {clock - Interval, since} \cup ({stamp[a]} \ {Nothing}) = {clock - Interval, since}
      BY <1>2
    <3> QED BY <3>1 DEF EffectiveSince
  <2> QED BY <1>1, <1>2, <2>1, MinOfTwo
<1>3. CASE stamp[a] # Nothing
  <2>1. EffectiveSince(a, since) = Min({clock - Interval, since, stamp[a]})
    <3>1. {clock - Interval, since} \cup ({stamp[a]} \ {Nothing})
            = {clock - Interval, since, stamp[a]}
      BY <1>3
    <3> QED BY <3>1 DEF EffectiveSince
  <2>2. stamp[a] \in Int /\ clock - Interval \in Int
    BY <1>1, <1>3
  <2> DEFINE m == Min({clock - Interval, since, stamp[a]})
  <2>3. /\ m \in {clock - Interval, since, stamp[a]}
        /\ m <= clock - Interval /\ m <= since /\ m <= stamp[a]
    BY <2>2, MinOfThree
  <2>4. m \in Int
    BY <2>2, <2>3
  <2> HIDE DEF m
  <2>5. EffectiveSince(a, since) = m
    BY <2>1 DEF m
  <2> QED BY <2>3, <2>4, <2>5
<1> QED BY <1>2, <1>3

LEMMA ConsiderKeeps ==
  ASSUME TwitterInv, NEW w \in Children, NEW a \in Handles, Consider(w, a)
  PROVE  TwitterInv'
<1> DEFINE from == EffectiveSince(a, turn[w].since)
           t == [turn[w] EXCEPT !.at = "marking", !.a = a, !.from = from, !.todo = @ \ {a},
                                !.late = FALSE]
<1>1. /\ turn[w].at = "refs" /\ ~Spent /\ Rested(a)
      /\ turn' = [turn EXCEPT ![w] = t]
      /\ covered' = IF stamp[a] = Nothing THEN covered \cup Before(a, from) ELSE covered
      /\ UNCHANGED <<clock, tweets, marker, stamp, reads, pause, asked>>
  BY DEF Consider, outside
<1>2. /\ turn[w] \in Turn /\ turn[w].since \in Int /\ clock \in Nat /\ reads \in Nat
      /\ turn \in [Children -> Turn] /\ tweets \subseteq Tweet /\ covered \subseteq Tweet
      /\ marker \in Time \cup {Nothing} /\ pause \in [Children -> Nat]
  BY TwitterNumbers DEF TwitterInv, TwitterTypes, TwitterTypeOK, Turn
<1>3. /\ from \in Int /\ from <= clock - Interval
      /\ stamp[a] # Nothing => from <= stamp[a]
  BY <1>2, WindowBegins
<1> HIDE DEF from
<1>4. t \in Turn /\ t.at = "marking" /\ t.a = a /\ t.from = from
  BY <1>2, <1>3 DEF Turn
<1> HIDE DEF t
<1>5. /\ turn' \in [Children -> Turn] /\ turn'[w] = t
      /\ \A v \in Children \ {w} : turn'[v] = turn[v]
  BY <1>1, <1>2, <1>4
<1>6. from < clock
  BY <1>2, <1>3, TwitterParameters
<1>7. asked[a] = Nothing \/ clock - asked[a] >= Interval
  <2>1. CASE stamp[a] # Nothing
    BY <1>1, <2>1 DEF Rested, TwitterInv, Stamped
  <2>2. CASE stamp[a] = Nothing
    <3>1. asked[a] # Nothing => asked[a] + StampTTL <= clock /\ asked[a] \in Nat
      BY <2>2, TwitterNumbers DEF TwitterInv, Stamped
    <3> QED BY <1>2, <3>1, TwitterParameters
  <2> QED BY <2>1, <2>2
<1>8. covered \subseteq covered' /\ covered' \subseteq Tweet
  BY <1>1, <1>2 DEF Before
<1>9. ASSUME NEW p \in tweets, p[1] = a, p[2] < from PROVE AnsweredFor(p)'
  <2>1. CASE stamp[a] = Nothing
    BY <1>1, <1>9, <2>1 DEF AnsweredFor, Before
  <2>2. CASE stamp[a] # Nothing
    <3>1. p[2] < stamp[p[1]]
      BY <1>3, <1>9, <2>2, TwitterNumbers
    <3>2. \/ p \in covered
          \/ \E v \in Children : turn[v].at = "asking" /\ p \in Window(v)
      BY <1>9, <2>2, <3>1 DEF TwitterInv, NoTweetSkipped
    <3>3. CASE p \in covered
      BY <1>8, <3>3 DEF AnsweredFor
    <3>4. ASSUME NEW v \in Children, turn[v].at = "asking", p \in Window(v)
          PROVE  AnsweredFor(p)'
      <4>1. turn'[v] = turn[v] /\ tweets' = tweets
        BY <1>1, <1>5, <3>4
      <4> QED BY <3>4, <4>1 DEF AnsweredFor, Window, From
    <3> QED BY <3>2, <3>3, <3>4
  <2> QED BY <2>1, <2>2
<1>10. ChargeBounded'
  <2>1. IsFiniteSet(Children) /\ Charging' \subseteq Children
    BY TwitterParameters DEF Charging
  <2>2. /\ Cardinality(Charging') \in Nat /\ Cardinality(Children) \in Nat
        /\ Cardinality(Charging') <= Cardinality(Children)
    BY <2>1, FS_Subset, FS_CardinalityType
  <2>3. /\ MaxResults * Cardinality(Charging') \in Nat /\ MaxResults * Cardinality(Children) \in Nat
        /\ MaxResults * Cardinality(Charging') <= MaxResults * Cardinality(Children)
    BY <2>2, Product, TwitterParameters
  <2>4. reads' = reads /\ reads < Budget
    BY <1>1, <1>2, TwitterParameters DEF Spent
  <2> QED BY <1>2, <2>3, <2>4, TwitterParameters DEF ChargeBounded
<1>11. turn[w].at # "asking" /\ turn'[w].at # "asking"
  BY <1>1, <1>4, <1>5
<1> QED BY <1>1, <1>2, <1>4, <1>5, <1>6, <1>7, <1>8, <1>9, <1>10, <1>11, TurnKeeps

\* A set of numbers has a least one.
LEMMA LeastOf ==
  ASSUME NEW S \in SUBSET Nat, S # {}
  PROVE  \E m \in S : \A n \in S : m <= n
<1> DEFINE R == OpToRel(<, Nat)
<1>1. IsWellFoundedOn(R, Nat)
  BY NatLessThanWellFounded
<1>2. PICK m \in S : \A n \in S : <<n, m>> \notin R
  <2> HIDE DEF R
  <2> QED BY <1>1, WFMin
<1>3. \A n \in S : ~(n < m)
  BY <1>2 DEF OpToRel
<1>4. \A n \in S : n \in Nat /\ m \in Nat
  OBVIOUS
<1> QED BY <1>3, <1>4

\* Of an account's tweets, MaxResults come back at most: behind the oldest of
\* them there are fewer.
LEMMA NewestAreFew ==
  ASSUME NEW W, IsFiniteSet(W), \A p \in W : p[2] \in Nat,
         \A p, q \in W : p[2] = q[2] => p = q
  PROVE  LET newest == {p \in W : Cardinality({q \in W : q[2] > p[2]}) < MaxResults}
         IN  IsFiniteSet(newest) /\ Cardinality(newest) \in Nat /\ Cardinality(newest) <= MaxResults
<1> DEFINE newest == {p \in W : Cardinality({q \in W : q[2] > p[2]}) < MaxResults}
<1>1. IsFiniteSet(newest) /\ Cardinality(newest) \in Nat /\ newest \subseteq W
  BY FS_Subset, FS_CardinalityType
<1> SUFFICES Cardinality(newest) <= MaxResults
  BY <1>1
<1>4. \A p \in newest : Cardinality({q \in W : q[2] > p[2]}) < MaxResults
  OBVIOUS
<1> HIDE DEF newest
<1>2. CASE newest = {}
  BY <1>2, FS_EmptySet, TwitterParameters
<1>3. CASE newest # {}
  <2>1. {p[2] : p \in newest} \in SUBSET Nat /\ {p[2] : p \in newest} # {}
    BY <1>1, <1>3
  <2>2. PICK t \in {p[2] : p \in newest} : \A n \in {p[2] : p \in newest} : t <= n
    BY <2>1, LeastOf
  <2>3. PICK oldest \in newest : oldest[2] = t
    BY <2>2
  <2> DEFINE later == {q \in W : q[2] > oldest[2]}
  <2>4. newest \ {oldest} \subseteq later
    <3> SUFFICES ASSUME NEW q \in newest, q # oldest PROVE q[2] > oldest[2]
      BY <1>1
    <3>1. q[2] \in Nat /\ oldest[2] \in Nat /\ t <= q[2] /\ q[2] # oldest[2]
      BY <1>1, <2>2, <2>3
    <3> QED BY <2>3, <3>1
  <2>5. IsFiniteSet(later) /\ Cardinality(later) \in Nat /\ Cardinality(later) < MaxResults
    <3>1. IsFiniteSet(later)
      BY FS_Subset
    <3> QED BY <1>4, <2>3, <3>1, FS_CardinalityType
  <2> HIDE DEF later
  <2>6. Cardinality(newest \ {oldest}) <= Cardinality(later)
    BY <2>4, <2>5, FS_Subset
  <2>7. Cardinality(newest \ {oldest}) = Cardinality(newest) - 1
    BY <1>1, <2>3, FS_RemoveElement
  <2> QED BY <1>1, <2>5, <2>6, <2>7, TwitterParameters
<1> QED BY <1>2, <1>3

LEMMA FetchedKeeps ==
  ASSUME TwitterInv, NEW w \in Children, Fetched(w)
  PROVE  TwitterInv'
<1> DEFINE newest == {p \in Window(w) :
                        Cardinality({q \in Window(w) : q[2] > p[2]}) < MaxResults}
<1>1. /\ turn[w].at = "asking" /\ covered' = covered \cup Window(w)
      /\ reads' = reads + Cardinality(newest)
      /\ UNCHANGED <<clock, tweets, marker, stamp, pause, asked>>
  BY DEF Fetched, outside
<1>2. PICK t \in Turn : t.at = "refs" /\ turn' = [turn EXCEPT ![w] = t]
  BY <1>1, NextAccountKeeps DEF Fetched
<1>3. /\ marker \in Time \cup {Nothing} /\ pause \in [Children -> Nat] /\ reads \in Nat
      /\ turn \in [Children -> Turn] /\ covered \subseteq Tweet /\ tweets \subseteq Tweet
  BY DEF TwitterInv, TwitterTypes, TwitterTypeOK, Turn
<1>4. /\ turn' \in [Children -> Turn] /\ turn'[w] = t
      /\ \A v \in Children \ {w} : turn'[v] = turn[v]
  BY <1>2, <1>3
<1>5. Window(w) \subseteq tweets /\ IsFiniteSet(Window(w))
  BY FS_Subset DEF Window, From, TwitterInv, TwitterTypes
<1>6. /\ \A p \in Window(w) : p[2] \in Nat
      /\ \A p, q \in Window(w) : p[2] = q[2] => p = q
  BY <1>3, <1>5, TwitterParameters DEF Window, From, Tweet, Time
<1>7. Cardinality(newest) \in Nat /\ Cardinality(newest) <= MaxResults
  BY <1>5, <1>6, NewestAreFew
<1> HIDE DEF newest
<1>8. ChargeBounded'
  <2>1. IsFiniteSet(Charging) /\ IsFiniteSet(Children)
    BY FS_Subset, TwitterParameters DEF Charging
  <2>2. w \in Charging /\ Charging' = Charging \ {w}
    BY <1>1, <1>2, <1>4 DEF Charging
  <2>3. IsFiniteSet(Charging') /\ Cardinality(Charging) = Cardinality(Charging') + 1
    <3>1. IsFiniteSet(Charging \ {w}) /\ Cardinality(Charging \ {w}) = Cardinality(Charging) - 1
      BY <2>1, <2>2, FS_RemoveElement
    <3>2. Cardinality(Charging) \in Nat
      BY <2>1, FS_CardinalityType
    <3> QED BY <2>2, <3>1, <3>2
  <2>4. Cardinality(Charging') \in Nat /\ Cardinality(Children) \in Nat
    BY <2>1, <2>3, FS_CardinalityType
  <2>5. /\ MaxResults * Cardinality(Charging) = MaxResults * Cardinality(Charging') + MaxResults
        /\ MaxResults * Cardinality(Charging') \in Nat
        /\ MaxResults * Cardinality(Children) \in Nat
    BY <2>3, <2>4, Product, TwitterParameters
  <2> QED BY <1>1, <1>3, <1>7, <2>5, TwitterParameters DEF ChargeBounded, TwitterInv
<1>9. /\ covered \subseteq covered' /\ covered' \subseteq Tweet /\ reads' \in Nat
      /\ Window(w) \subseteq covered'
  BY <1>1, <1>3, <1>5, <1>7
<1> QED BY <1>1, <1>2, <1>3, <1>4, <1>8, <1>9, TurnKeeps

\* The stamp moves to now; what is older than it was answered for before the
\* window, or is in it.
LEMMA MarkKeeps ==
  ASSUME TwitterInv, NEW w \in Children, Mark(w)
  PROVE  TwitterInv'
<1> DEFINE a == turn[w].a
<1>1. /\ turn[w].at = "marking"
      /\ stamp' = [stamp EXCEPT ![a] = clock] /\ asked' = [asked EXCEPT ![a] = clock]
      /\ turn' = [v \in Children |->
                    IF v = w THEN [turn[v] EXCEPT !.at = "asking"]
                    ELSE IF turn[v].at = "marking" /\ turn[v].a = a
                           THEN [turn[v] EXCEPT !.late = TRUE] ELSE turn[v]]
      /\ UNCHANGED <<clock, tweets, marker, reads, pause, covered>>
  BY DEF Mark, outside
<1>2. /\ turn \in [Children -> Turn] /\ a \in Handles /\ clock \in Time /\ clock \in Nat
      /\ stamp \in [Handles -> Time \cup {Nothing}] /\ asked \in [Handles -> Time \cup {Nothing}]
  BY <1>1, TwitterNumbers DEF TwitterInv, TwitterTypes, TwitterTypeOK, Turn, Charging
<1>3. ASSUME NEW v \in Children
      PROVE  /\ turn'[v] \in Turn /\ turn'[v].a = turn[v].a /\ turn'[v].from = turn[v].from
             /\ v = w => turn'[v].at = "asking"
             /\ v # w => turn'[v].at = turn[v].at
             /\ v # w /\ turn[v].at = "marking" /\ turn[v].a = a => turn'[v].late
             /\ v # w /\ ~(turn[v].at = "marking" /\ turn[v].a = a) => turn'[v] = turn[v]
  <2>1. turn[v] \in Turn
    BY <1>2
  <2>2. CASE v = w
    <3>1. turn'[v] = [turn[v] EXCEPT !.at = "asking"]
      BY <1>1, <2>2
    <3> QED BY <2>1, <2>2, <3>1 DEF Turn
  <2>3. CASE v # w /\ turn[v].at = "marking" /\ turn[v].a = a
    <3>1. turn'[v] = [turn[v] EXCEPT !.late = TRUE]
      BY <1>1, <2>3
    <3> QED BY <2>1, <2>3, <3>1 DEF Turn
  <2>4. CASE v # w /\ ~(turn[v].at = "marking" /\ turn[v].a = a)
    <3>1. turn'[v] = turn[v]
      BY <1>1, <2>4
    <3> QED BY <2>1, <2>4, <3>1
  <2> QED BY <2>2, <2>3, <2>4
<1>4. turn' \in [Children -> Turn]
  <2>1. turn' = [v \in Children |-> turn'[v]]
    BY <1>1
  <2> QED BY <2>1, <1>3
<1>5. /\ stamp'[a] = clock /\ asked'[a] = clock
      /\ \A b \in Handles \ {a} : stamp'[b] = stamp[b] /\ asked'[b] = asked[b]
      /\ stamp' \in [Handles -> Time \cup {Nothing}] /\ asked' \in [Handles -> Time \cup {Nothing}]
  BY <1>1, <1>2
<1>6. Charging' = Charging
  BY <1>1, <1>3 DEF Charging
<1>7. TwitterTypes'
  BY <1>1, <1>3, <1>4, <1>5, <1>6 DEF TwitterInv, TwitterTypes, TwitterTypeOK, Turn, Charging
<1>8. Timely'
  <2>1. \A b \in Handles : /\ stamp'[b] # Nothing => stamp'[b] <= clock
                           /\ asked'[b] # Nothing => asked'[b] <= clock
    BY <1>2, <1>5 DEF TwitterInv, Timely
  <2>2. \A v \in Children : turn'[v].at = "marking" => turn[v].at = "marking" /\ turn'[v].from = turn[v].from
    BY <1>1, <1>3
  <2> QED BY <1>1, <2>1, <2>2 DEF TwitterInv, Timely
<1>9. ASSUME NEW p, AnsweredFor(p) PROVE AnsweredFor(p)'
  <2>1. ASSUME NEW v \in Children, turn[v].at = "asking", p \in Window(v)
        PROVE  turn'[v].at = "asking" /\ p \in Window(v)'
    BY <1>1, <1>3, <2>1 DEF Window, From
  <2> QED BY <1>1, <1>9, <2>1 DEF AnsweredFor
<1>10. NoTweetSkipped'
  <2> SUFFICES ASSUME NEW p \in tweets, stamp'[p[1]] # Nothing, p[2] < stamp'[p[1]]
               PROVE  AnsweredFor(p)'
    BY <1>1 DEF NoTweetSkipped, AnsweredFor
  <2>1. p[1] \in Handles /\ p[2] \in Nat /\ turn[w].from \in Int
    BY TwitterNumbers
  <2>2. CASE p[1] # a
    <3>1. AnsweredFor(p)
      BY <2>1, <2>2, <1>5 DEF TwitterInv, NoTweetSkipped, AnsweredFor
    <3> QED BY <3>1, <1>9
  <2>3. CASE p[1] = a /\ p[2] < turn[w].from
    <3>1. AnsweredFor(p)
      BY <1>1, <2>3 DEF TwitterInv, WindowsMeet
    <3> QED BY <3>1, <1>9
  <2>4. CASE p[1] = a /\ p[2] >= turn[w].from
    BY <1>1, <1>3, <2>4 DEF AnsweredFor, Window, From
  <2> QED BY <2>1, <2>2, <2>3, <2>4
<1>11. WindowsMeet'
  <2> SUFFICES ASSUME NEW v \in Children, turn'[v].at = "marking",
                      NEW p \in tweets, p[1] = turn'[v].a, p[2] < turn'[v].from
               PROVE  AnsweredFor(p)'
    BY <1>1 DEF WindowsMeet
  <2>1. turn[v].at = "marking" /\ p[1] = turn[v].a /\ p[2] < turn[v].from
    BY <1>3
  <2> QED BY <2>1, <1>9 DEF TwitterInv, WindowsMeet
<1>12. Stamped'
  BY <1>1, <1>5 DEF TwitterInv, Stamped
<1>13. Paced'
  <2> SUFFICES ASSUME NEW v \in Children, turn'[v].at = "marking", ~turn'[v].late
               PROVE  asked'[turn'[v].a] = Nothing \/ clock - asked'[turn'[v].a] >= Interval
    BY <1>1 DEF Paced
  <2>1. /\ v # w /\ turn'[v] = turn[v] /\ turn[v].a # a
        /\ turn[v].at = "marking" /\ ~turn[v].late
    BY <1>3
  <2>2. turn[v].a \in Handles
    BY <2>1 DEF TwitterInv, TwitterTypes, Charging
  <2> QED BY <2>1, <2>2, <1>5 DEF TwitterInv, Paced
<1>14. ChargeBounded'
  BY <1>1, <1>6 DEF TwitterInv, ChargeBounded
<1> QED BY <1>7, <1>8, <1>10, <1>11, <1>12, <1>13, <1>14 DEF TwitterInv

LEMMA PublishKeeps ==
  ASSUME TwitterInv, NEW a \in Handles, Publish(a)
  PROVE  TwitterInv'
<1>1. /\ tweets' = tweets \cup {<<a, clock>>}
      /\ UNCHANGED <<clock, marker, stamp, reads, pause, turn, covered, asked>>
  BY DEF Publish
<1>2. /\ clock \in Time /\ clock \in Nat
      /\ \A b \in Handles : stamp[b] # Nothing => stamp[b] \in Nat /\ stamp[b] <= clock
      /\ \A w \in Children : turn[w].from \in Int
  BY TwitterNumbers DEF TwitterInv, TwitterTypes, TwitterTypeOK, Timely
<1>3. TwitterTypes'
  <2>1. IsFiniteSet(tweets')
    BY <1>1, FS_AddElement DEF TwitterInv, TwitterTypes
  <2>2. tweets' \subseteq Tweet
    BY <1>1, <1>2 DEF TwitterInv, TwitterTypes, TwitterTypeOK, Tweet
  <2> QED BY <1>1, <2>1, <2>2 DEF TwitterInv, TwitterTypes, TwitterTypeOK, Charging
<1>4. Timely'
  BY <1>1, <1>2 DEF TwitterInv, Timely
<1>5. ASSUME NEW p, AnsweredFor(p) PROVE AnsweredFor(p)'
  BY <1>1, <1>5 DEF AnsweredFor, Window, From
<1>6. NoTweetSkipped'
  <2> SUFFICES ASSUME NEW p \in tweets', stamp[p[1]] # Nothing, p[2] < stamp[p[1]]
               PROVE  AnsweredFor(p)'
    BY <1>1 DEF NoTweetSkipped, AnsweredFor
  <2>1. p \in tweets
    BY <1>1, <1>2
  <2>2. AnsweredFor(p)
    BY <2>1 DEF TwitterInv, NoTweetSkipped, AnsweredFor
  <2> QED BY <2>2, <1>5
<1>7. WindowsMeet'
  <2> SUFFICES ASSUME NEW w \in Children, turn[w].at = "marking",
                      NEW p \in tweets', p[1] = turn[w].a, p[2] < turn[w].from
               PROVE  AnsweredFor(p)'
    BY <1>1 DEF WindowsMeet
  <2>1. p \in tweets
    BY <1>1, <1>2 DEF TwitterInv, Timely
  <2>2. AnsweredFor(p)
    BY <2>1 DEF TwitterInv, WindowsMeet
  <2> QED BY <2>2, <1>5
<1>8. Stamped' /\ Paced' /\ ChargeBounded'
  BY <1>1 DEF TwitterInv, Stamped, Paced, ChargeBounded, Charging
<1> QED BY <1>3, <1>4, <1>6, <1>7, <1>8 DEF TwitterInv

LEMMA AdvanceKeeps == TwitterInv /\ Advance => TwitterInv'
<1> SUFFICES ASSUME TwitterInv, Advance PROVE TwitterInv'
  OBVIOUS
<1>1. /\ clock < MaxTime /\ clock' = clock + 1
      /\ stamp' = [a \in Handles |->
                     IF stamp[a] # Nothing /\ stamp[a] + StampTTL <= clock' THEN Nothing ELSE stamp[a]]
      /\ pause' = [w \in Children |-> IF pause[w] <= clock' THEN 0 ELSE pause[w]]
      /\ UNCHANGED <<tweets, marker, reads, turn, covered, asked>>
  BY DEF Advance
<1>2. /\ clock \in Nat /\ clock' \in Time
      /\ stamp \in [Handles -> Time \cup {Nothing}] /\ pause \in [Children -> Nat]
      /\ \A a \in Handles : /\ stamp[a] # Nothing => stamp[a] \in Nat /\ stamp[a] <= clock
                            /\ asked[a] # Nothing => asked[a] \in Nat /\ asked[a] <= clock
      /\ \A w \in Children : turn[w].from \in Int
      /\ \A p \in tweets : p[1] \in Handles /\ p[2] \in Nat
  BY <1>1, TwitterNumbers, TwitterParameters
     DEF TwitterInv, TwitterTypes, TwitterTypeOK, Timely, Time
<1>3. /\ stamp' \in [Handles -> Time \cup {Nothing}] /\ pause' \in [Children -> Nat]
      /\ \A a \in Handles : \/ stamp'[a] = stamp[a]
                            \/ stamp'[a] = Nothing /\ stamp[a] + StampTTL <= clock'
  BY <1>1, <1>2
<1>4. TwitterTypes'
  BY <1>1, <1>2, <1>3 DEF TwitterInv, TwitterTypes, TwitterTypeOK, Charging
<1>5. Timely'
  BY <1>1, <1>2, <1>3 DEF TwitterInv, Timely
<1>6. \A p : AnsweredFor(p)' <=> AnsweredFor(p)
  BY <1>1 DEF AnsweredFor, Window, From
<1>7. NoTweetSkipped'
  <2> SUFFICES ASSUME NEW p \in tweets, stamp'[p[1]] # Nothing, p[2] < stamp'[p[1]]
               PROVE  AnsweredFor(p)
    BY <1>1, <1>6 DEF NoTweetSkipped, AnsweredFor
  <2>1. stamp'[p[1]] = stamp[p[1]]
    BY <1>2, <1>3
  <2> QED BY <2>1 DEF TwitterInv, NoTweetSkipped, AnsweredFor
<1>8. WindowsMeet'
  BY <1>1, <1>6 DEF TwitterInv, WindowsMeet
<1>9. Stamped'
  <2> SUFFICES ASSUME NEW a \in Handles, asked[a] # Nothing
               PROVE  stamp'[a] = asked[a] \/ (stamp'[a] = Nothing /\ asked[a] + StampTTL <= clock')
    BY <1>1 DEF Stamped
  <2>1. CASE stamp[a] = asked[a]
    BY <1>3, <2>1
  <2>2. CASE stamp[a] = Nothing /\ asked[a] + StampTTL <= clock
    <3>1. stamp'[a] = Nothing
      BY <1>1, <2>2
    <3> QED BY <1>1, <1>2, <2>2, <3>1, TwitterParameters
  <2> QED BY <2>1, <2>2 DEF TwitterInv, Stamped
<1>10. Paced'
  <2> SUFFICES ASSUME NEW w \in Children, turn[w].at = "marking", ~turn[w].late,
                      asked[turn[w].a] # Nothing
               PROVE  clock' - asked[turn[w].a] >= Interval
    BY <1>1 DEF Paced
  <2>1. turn[w].a \in Handles /\ clock - asked[turn[w].a] >= Interval
    BY DEF TwitterInv, TwitterTypes, Charging, Paced
  <2>2. asked[turn[w].a] \in Nat
    BY <1>2, <2>1
  <2> QED BY <1>1, <1>2, <2>1, <2>2, TwitterParameters
<1>11. ChargeBounded'
  BY <1>1 DEF TwitterInv, ChargeBounded, Charging
<1> QED BY <1>4, <1>5, <1>7, <1>8, <1>9, <1>10, <1>11 DEF TwitterInv

LEMMA NewMonthKeeps == TwitterInv /\ NewMonth => TwitterInv'
<1> SUFFICES ASSUME TwitterInv, NewMonth PROVE TwitterInv'
  OBVIOUS
<1>1. reads > 0 /\ reads' = 0
      /\ UNCHANGED <<clock, tweets, marker, stamp, pause, turn, covered, asked>>
  BY DEF NewMonth, outside
<1>2. reads' \in Nat /\ reads' <= reads /\ Charging' = Charging
  BY <1>1, TwitterNumbers DEF Charging
<1>3. ChargeBounded'
  BY <1>2, ChargeShrinks
<1>4. TwitterTypes' /\ Timely' /\ Stamped' /\ Paced'
  BY <1>1, <1>2 DEF TwitterInv, TwitterTypes, TwitterTypeOK, Timely, Stamped, Paced
<1>5. NoTweetSkipped' /\ WindowsMeet'
  BY <1>1 DEF TwitterInv, NoTweetSkipped, WindowsMeet, AnsweredFor, Window, From
<1> QED BY <1>3, <1>4, <1>5 DEF TwitterInv

LEMMA TwitterStep == TwitterInv /\ [TwitterNext]_twitterVars => TwitterInv'
<1> SUFFICES ASSUME TwitterInv, [TwitterNext]_twitterVars PROVE TwitterInv'
  OBVIOUS
<1>1. CASE Advance
  BY <1>1, AdvanceKeeps
<1>2. CASE NewMonth
  BY <1>2, NewMonthKeeps
<1>3. ASSUME NEW a \in Handles, Publish(a) PROVE TwitterInv'
  BY <1>3, PublishKeeps
<1>4. ASSUME NEW w \in Children, Pass(w) PROVE TwitterInv'
  <2>1. CASE BeginPass(w)
    BY <2>1, BeginPassKeeps
  <2>2. CASE Mark(w)
    BY <2>2, MarkKeeps
  <2>3. CASE Fetched(w)
    BY <2>3, FetchedKeeps
  <2>4. CASE Unavailable(w)
    BY <2>4, UnavailableKeeps
  <2>5. CASE EnterPause(w)
    BY <2>5, EnterPauseKeeps
  <2>6. CASE EndPass(w)
    BY <2>6, EndPassKeeps
  <2>7. ASSUME NEW a \in Handles, PassOver(w, a) PROVE TwitterInv'
    BY <2>7, PassOverKeeps
  <2>8. ASSUME NEW a \in Handles, Consider(w, a) PROVE TwitterInv'
    BY <2>8, ConsiderKeeps
  <2> QED BY <1>4, <2>1, <2>2, <2>3, <2>4, <2>5, <2>6, <2>7, <2>8 DEF Pass
<1>5. ASSUME NEW w \in Children, ChildEnds(w) PROVE TwitterInv'
  BY <1>5, ChildEndsKeeps
<1>6. CASE UNCHANGED twitterVars
  BY <1>6
     DEF twitterVars, TwitterInv, TwitterTypes, TwitterTypeOK, Timely, NoTweetSkipped, WindowsMeet,
         AnsweredFor, Window, From, Stamped, Paced, ChargeBounded, Charging
<1> QED BY <1>1, <1>2, <1>3, <1>4, <1>5, <1>6 DEF TwitterNext

LEMMA TwitterInvariance == Spec => []TwitterInv
<1>1. Init => TwitterInv
  BY TwitterStart DEF Init
<1>2. TwitterInv /\ [Next]_vars => TwitterInv'
  BY TwitterStep, StepsOfParts
<1> QED BY <1>1, <1>2, PTL DEF Spec

\* Consecutive windows of an account leave nothing between them, whatever passes
\* overlapped, paused or died.
THEOREM WindowsAreContiguous == Spec => []NoTweetSkipped
<1>1. TwitterInv => NoTweetSkipped
  BY DEF TwitterInv
<1> QED BY <1>1, TwitterInvariance, PTL

\* Neither of the two sources' markers runs ahead of what was handed over or
\* given up.
THEOREM NothingIsSkipped == Spec => []NothingSkippedSilently
<1>1. NoTweetSkipped /\ SubmissionsSettled => NothingSkippedSilently
  BY DEF NothingSkippedSilently
<1> QED BY <1>1, WindowsAreContiguous, SubmissionsAreSettled, PTL

\* The monthly budget is exceeded by less than one full answer for each child.
THEOREM BudgetIsNearlyHeld == Spec => []BudgetNearlyHeld
<1>1. TwitterInv => BudgetNearlyHeld
  <2> SUFFICES ASSUME TwitterInv PROVE BudgetNearlyHeld
    OBVIOUS
  <2>1. reads \in Nat /\ IsFiniteSet(Charging) /\ IsFiniteSet(Children)
    BY TwitterNumbers, TwitterParameters, FS_Subset DEF Charging
  <2>2. Cardinality(Charging) \in Nat /\ Cardinality(Children) \in Nat
    BY <2>1, FS_CardinalityType
  <2>3. MaxResults * Cardinality(Charging) \in Nat /\ MaxResults * Cardinality(Children) \in Nat
    BY <2>2, Product, TwitterParameters
  <2> QED BY <2>1, <2>3, TwitterParameters DEF TwitterInv, ChargeBounded, BudgetNearlyHeld
<1> QED BY <1>1, TwitterInvariance, PTL

\* No account is asked for twice within an interval, unless two children had both
\* looked at its stamp before either set it.
THEOREM CadenceIsKept == Spec => CadenceKept
<1>1. TwitterInv /\ [Next]_vars =>
        [\A w \in Children :
           turn[w].at = "marking" /\ turn'[w].at = "asking" /\ ~turn[w].late =>
             LET last == asked[turn[w].a] IN last = Nothing \/ clock - last >= Interval]_twitterVars
  BY DEF TwitterInv, Paced
<1> QED BY <1>1, TwitterInvariance, PTL DEF Spec, CadenceKept

-----------------------------------------------------------------------------
(* QR logins: who will disconnect a client.                                *)

Held(l) ==
  \/ l \in registry
  \/ starting[l].at \in {"asking", "undoing"}
  \/ \E s \in Logins : starting[s].at = "reaping" /\ starting[s].x = l
  \/ \E p \in Pollers : polling[p].at = "closing" /\ polling[p].l = l

AllHeld == \A l \in online : Held(l)

\* The registry with those who passed the check and are not registered yet.
CapHeld == ~crossed => Cardinality(registry \cup Underway) <= AtOnce

PollsOfLogins == \A p \in Pollers : polling[p].at # "idle" => polling[p].l \in Logins

QrInv == QrTypeOK /\ AllHeld /\ CapHeld /\ PollsOfLogins

Starting ==
  [at : {"new", "reaping", "connecting", "asking", "undoing", "done"}, todo : SUBSET Logins,
   x : Logins \cup {NoLogin}]

Polling ==
  [at : {"idle", "yielding", "checking", "naming", "closing"}, l : Logins \cup {NoLogin},
   says : {"", "expired", "error", "success"}]

LEMMA QrTyped ==
  ASSUME QrInv
  PROVE  /\ starting \in [Logins -> Starting] /\ polling \in [Pollers -> Polling]
         /\ now \in Nat /\ Lifetime \in Nat
<1>1. QrTypeOK
  BY DEF QrInv
<1>2. starting \in [Logins -> Starting]
  BY <1>1 DEF QrTypeOK, Starting
<1>3. polling \in [Pollers -> Polling]
  BY <1>1 DEF QrTypeOK, Polling
<1>4. now \in 0..LastHour /\ LastHour \in Nat /\ Lifetime \in Nat
  BY <1>1, QrLoginParameters DEF QrTypeOK
<1> QED BY <1>2, <1>3, <1>4

LEMMA QrStart == QrInit => QrInv
<1> SUFFICES ASSUME QrInit PROVE QrInv
  OBVIOUS
<1>1. /\ now = 0 /\ starting = [l \in Logins |-> NewStart] /\ online = {} /\ registry = {}
      /\ deadline = [l \in Logins |-> 0] /\ scan = [l \in Logins |-> "waiting"]
      /\ polling = [p \in Pollers |-> NoPoll] /\ crossed = FALSE
  BY DEF QrInit
<1>2. NewStart \in Starting /\ NoPoll \in Polling /\ NewStart.at = "new"
  BY DEF NewStart, NoPoll, Starting, Polling
<1>3. QrTypeOK
  <2>1. starting \in [Logins -> Starting] /\ polling \in [Pollers -> Polling]
    BY <1>1, <1>2
  <2>2. now \in 0..LastHour
    BY <1>1, QrLoginParameters
  <2>4. deadline \in [Logins -> Nat] /\ crossed \in BOOLEAN
    BY <1>1
  <2>3. scan \in [Logins -> Outcome] /\ online \subseteq Logins /\ registry \subseteq Logins
    BY <1>1 DEF Outcome
  <2> QED BY <2>1, <2>2, <2>3, <2>4 DEF QrTypeOK, Starting, Polling
<1>4. Underway = {}
  BY <1>1, <1>2 DEF Underway
<1>5. CapHeld
  <2>1. registry \cup Underway = {}
    BY <1>1, <1>4
  <2> QED BY <2>1, FS_EmptySet, QrLoginParameters DEF CapHeld
<1> QED BY <1>1, <1>3, <1>5 DEF QrInv, AllHeld, PollsOfLogins, NoPoll

\* The bound stays while nobody joins the registry and those on their way to it.
LEMMA CapStays ==
  ASSUME QrInv, crossed' = crossed,
         registry' \cup Underway' \subseteq registry \cup Underway
  PROVE  CapHeld'
<1>1. IsFiniteSet(Logins)
  BY FS_Interval, QrLoginParameters DEF Logins
<1>2. IsFiniteSet(registry \cup Underway)
  BY <1>1, FS_Subset DEF QrInv, QrTypeOK, Underway
<1>3. /\ IsFiniteSet(registry' \cup Underway')
      /\ Cardinality(registry' \cup Underway') <= Cardinality(registry \cup Underway)
  BY <1>2, FS_Subset
<1>4. /\ Cardinality(registry' \cup Underway') \in Nat
      /\ Cardinality(registry \cup Underway) \in Nat
  BY <1>2, <1>3, FS_CardinalityType
<1> QED BY <1>3, <1>4, QrLoginParameters DEF QrInv, CapHeld

\* A login that leaves the registry: the task's outcome stays one.
LEMMA PoppedIs ==
  ASSUME QrInv, NEW x \in Logins, Popped(x)
  PROVE  /\ registry' = registry \ {x} /\ registry' \subseteq Logins
         /\ scan' \in [Logins -> Outcome]
BY DEF Popped, QrInv, QrTypeOK, Outcome

LEMMA ClockTicksKeeps == QrInv /\ ClockTicks => QrInv'
<1> SUFFICES ASSUME QrInv, ClockTicks PROVE QrInv'
  OBVIOUS
<1>1. /\ now < LastHour /\ now' = now + 1
      /\ UNCHANGED <<starting, online, registry, deadline, scan, polling, crossed>>
  BY DEF ClockTicks
<1>2. now' \in 0..LastHour
  BY <1>1, QrTyped, QrLoginParameters
<1> QED BY <1>1, <1>2 DEF QrInv, QrTypeOK, AllHeld, Held, CapHeld, Underway, PollsOfLogins

LEMMA ScanEndsKeeps ==
  ASSUME QrInv, NEW l \in Logins, ScanEnds(l)
  PROVE  QrInv'
<1>1. scan' \in [Logins -> Outcome]
      /\ UNCHANGED <<now, starting, online, registry, deadline, polling, crossed>>
  BY DEF ScanEnds, QrInv, QrTypeOK, Outcome
<1> QED BY <1>1 DEF QrInv, QrTypeOK, AllHeld, Held, CapHeld, Underway, PollsOfLogins

\* Where a reap begins or goes on: the login reaped before is disconnected.
Releases(l) ==
  \/ starting[l].at = "new" /\ online' = online
  \/ starting[l].at = "reaping" /\ online' = online \ {starting[l].x}

LEMMA ReleasesIs ==
  ASSUME NEW l, Releases(l)
  PROVE  /\ starting[l].at \in {"new", "reaping"} /\ online' \subseteq online
         /\ starting[l].at = "reaping" => starting[l].x \notin online'
BY DEF Releases

\* A start that reaps a login holds it.
LEMMA ReapKeeps ==
  ASSUME QrInv, NEW l \in Logins, NEW todo \in SUBSET Logins, NEW x \in todo, Reap(l, x, todo), Releases(l),
         UNCHANGED <<now, deadline, polling>>
  PROVE  QrInv'
<1>1. /\ registry' = registry \ {x} /\ registry' \subseteq Logins
      /\ scan' \in [Logins -> Outcome]
  BY PoppedIs DEF Reap
<1>2. starting \in [Logins -> Starting]
  BY QrTyped
<1> DEFINE s == [at |-> "reaping", todo |-> todo \ {x}, x |-> x]
<1>3. starting' = [starting EXCEPT ![l] = s] /\ crossed' = crossed
  BY DEF Reap
<1>4. s \in Starting /\ s.at = "reaping" /\ s.x = x
  BY DEF Starting
<1> HIDE DEF s
<1>5. /\ starting' \in [Logins -> Starting] /\ starting'[l] = s
      /\ \A k \in Logins \ {l} : starting'[k] = starting[k]
  BY <1>2, <1>3, <1>4
<1>6. online' \subseteq Logins /\ online' \subseteq online
  BY ReleasesIs DEF QrInv, QrTypeOK
<1>7. QrTypeOK'
  BY <1>1, <1>3, <1>5, <1>6 DEF QrInv, QrTypeOK, Starting
<1>8. AllHeld'
  <2> SUFFICES ASSUME NEW k \in online' PROVE Held(k)'
    BY DEF AllHeld
  <2>1. k \in online /\ k \in Logins
    BY <1>6
  <2>2. CASE k = x
    BY <2>2, <1>4, <1>5 DEF Held
  <2>3. CASE k # x
    <3>1. Held(k)
      BY <2>1 DEF QrInv, AllHeld
    <3>2. CASE k \in registry
      BY <3>2, <2>3, <1>1 DEF Held
    <3>3. CASE starting[k].at \in {"asking", "undoing"}
      <4>1. k # l
        BY <3>3, ReleasesIs
      <4> QED BY <4>1, <3>3, <2>1, <1>5 DEF Held
    <3>4. ASSUME NEW m \in Logins, starting[m].at = "reaping", starting[m].x = k PROVE Held(k)'
      <4>1. m # l
        BY <3>4, ReleasesIs
      <4> QED BY <4>1, <3>4, <1>5 DEF Held
    <3>5. CASE \E p \in Pollers : polling[p].at = "closing" /\ polling[p].l = k
      BY <3>5 DEF Held
    <3> QED BY <3>1, <3>2, <3>3, <3>4, <3>5 DEF Held
  <2> QED BY <2>2, <2>3
<1>9. Underway' \subseteq Underway
  BY <1>4, <1>5 DEF Underway
<1>10. CapHeld'
  BY <1>1, <1>3, <1>9, CapStays
<1> QED BY <1>7, <1>8, <1>10 DEF QrInv, PollsOfLogins

\* A start that passes the check is counted from then on.
LEMMA AdmitKeeps ==
  ASSUME QrInv, NEW l \in Logins, Admit(l, registry), Releases(l),
         UNCHANGED <<now, registry, deadline, scan, polling>>
  PROVE  QrInv'
<1> DEFINE s == [NewStart EXCEPT !.at = IF FullUp(registry) THEN "done" ELSE "connecting"]
<1>1. starting \in [Logins -> Starting]
  BY QrTyped
<1>2. starting' = [starting EXCEPT ![l] = s]
      /\ crossed' = (crossed \/ (~FullUp(registry) /\ Underway # {}))
  BY DEF Admit
<1>3. s \in Starting /\ s.at = IF FullUp(registry) THEN "done" ELSE "connecting"
  BY DEF NewStart, Starting
<1> HIDE DEF s
<1>4. /\ starting' \in [Logins -> Starting] /\ starting'[l] = s
      /\ \A k \in Logins \ {l} : starting'[k] = starting[k]
  BY <1>1, <1>2, <1>3
<1>5. QrTypeOK'
  <2>1. online' \subseteq Logins /\ crossed' \in BOOLEAN
    BY <1>2, ReleasesIs DEF QrInv, QrTypeOK
  <2> QED BY <2>1, <1>4 DEF QrInv, QrTypeOK, Starting
<1>6. AllHeld'
  <2> SUFFICES ASSUME NEW k \in online' PROVE Held(k)'
    BY DEF AllHeld
  <2>1. k \in online /\ k \in Logins /\ (starting[l].at = "reaping" => k # starting[l].x)
    BY ReleasesIs DEF QrInv, QrTypeOK
  <2>2. Held(k)
    BY <2>1 DEF QrInv, AllHeld
  <2>3. CASE k \in registry
    BY <2>3 DEF Held
  <2>4. CASE starting[k].at \in {"asking", "undoing"}
    BY <2>4, <2>1, <1>4, ReleasesIs DEF Held
  <2>5. ASSUME NEW m \in Logins, starting[m].at = "reaping", starting[m].x = k PROVE Held(k)'
    BY <2>1, <2>5, <1>4 DEF Held
  <2>6. CASE \E p \in Pollers : polling[p].at = "closing" /\ polling[p].l = k
    BY <2>6 DEF Held
  <2> QED BY <2>2, <2>3, <2>4, <2>5, <2>6 DEF Held
<1>7. CapHeld'
  <2>1. CASE FullUp(registry)
    <3>1. Underway' \subseteq Underway
      BY <2>1, <1>3, <1>4 DEF Underway
    <3> QED BY <3>1, <2>1, <1>2, CapStays DEF QrInv, QrTypeOK
  <2>2. CASE ~FullUp(registry) /\ Underway # {}
    BY <2>2, <1>2 DEF CapHeld
  <2>3. CASE ~FullUp(registry) /\ Underway = {}
    <3>1. registry' \cup Underway' = registry \cup {l}
      BY <2>3, <1>3, <1>4 DEF Underway
    <3>2. IsFiniteSet(Logins)
      BY FS_Interval, QrLoginParameters DEF Logins
    <3>3. IsFiniteSet(registry) /\ Cardinality(registry) \in Nat
      BY <3>2, FS_Subset, FS_CardinalityType DEF QrInv, QrTypeOK
    <3>7. \/ Cardinality(registry \cup {l}) = Cardinality(registry)
          \/ Cardinality(registry \cup {l}) = Cardinality(registry) + 1
      BY <3>3, FS_AddElement
    <3>4. Cardinality(registry \cup {l}) <= Cardinality(registry) + 1
      BY <3>3, <3>7
    <3>5. Cardinality(registry) < AtOnce
      BY <2>3, <3>3, QrLoginParameters DEF FullUp
    <3>6. Cardinality(registry \cup {l}) \in Nat
      BY <3>3, FS_AddElement, FS_CardinalityType
    <3>8. Cardinality(registry \cup {l}) <= AtOnce
      BY <3>3, <3>4, <3>5, <3>6, QrLoginParameters
    <3> QED BY <3>1, <3>8 DEF CapHeld
  <2> QED BY <2>1, <2>2, <2>3
<1> QED BY <1>5, <1>6, <1>7 DEF QrInv, PollsOfLogins

LEMMA StartLoginKeeps ==
  ASSUME QrInv, NEW l \in Logins, StartLogin(l)
  PROVE  QrInv'
<1> DEFINE stale == {x \in registry : Expired(x)}
<1>1. Releases(l) /\ UNCHANGED <<now, online, deadline, polling>>
  BY DEF StartLogin, Releases
<1>2. stale \in SUBSET Logins
  BY DEF QrInv, QrTypeOK
<1>3. CASE FullUp(registry) /\ stale # {}
  <2>1. PICK x \in stale : Reap(l, x, stale)
    BY <1>3 DEF StartLogin
  <2> QED BY <1>1, <1>2, <2>1, ReapKeeps
<1>4. CASE ~(FullUp(registry) /\ stale # {})
  <2>1. Admit(l, registry) /\ UNCHANGED <<registry, scan>>
    BY <1>4 DEF StartLogin
  <2> QED BY <1>1, <2>1, AdmitKeeps
<1> QED BY <1>3, <1>4

LEMMA ReapedKeeps ==
  ASSUME QrInv, NEW l \in Logins, Reaped(l)
  PROVE  QrInv'
<1> DEFINE todo == starting[l].todo
<1>1. Releases(l) /\ UNCHANGED <<now, deadline, polling>>
  BY DEF Reaped, Releases
<1>2. todo \in SUBSET Logins
  BY DEF QrInv, QrTypeOK
<1>3. CASE todo # {}
  <2>1. PICK x \in todo : Reap(l, x, todo)
    BY <1>3 DEF Reaped
  <2> QED BY <1>1, <1>2, <2>1, ReapKeeps
<1>4. CASE todo = {}
  <2>1. Admit(l, registry) /\ UNCHANGED <<registry, scan>>
    BY <1>4 DEF Reaped
  <2> QED BY <1>1, <2>1, AdmitKeeps
<1> QED BY <1>3, <1>4

\* A start past the check goes one place on; whoever is connected stays held.
GoesOn(l, place) ==
  /\ starting[l].at \in {"connecting", "asking", "undoing"}
  /\ starting' = [starting EXCEPT ![l].at = place]
  /\ UNCHANGED <<now, scan, polling, crossed>>

LEMMA StartGoesOn ==
  ASSUME QrInv, NEW l \in Logins, NEW place \in {"asking", "undoing", "done"}, GoesOn(l, place),
         online' \subseteq online \cup {l},
         \/ place # "done" \/ l \notin online' \/ l \in registry'
         \/ starting[l].at = "connecting" /\ l \in online,
         registry \subseteq registry', registry' \subseteq registry \cup {l},
         deadline' \in [Logins -> Nat]
  PROVE  QrInv'
<1> USE DEF GoesOn
<1>1. starting \in [Logins -> Starting]
  BY QrTyped
<1>2. /\ starting' \in [Logins -> Starting] /\ starting'[l].at = place
      /\ \A k \in Logins \ {l} : starting'[k] = starting[k]
  BY <1>1 DEF Starting
<1>3. QrTypeOK'
  <2>1. registry' \subseteq Logins /\ online' \subseteq Logins
    BY DEF QrInv, QrTypeOK
  <2> QED BY <2>1, <1>2 DEF QrInv, QrTypeOK, Starting
<1>4. ASSUME NEW k \in Logins, Held(k), ~(k = l /\ starting[l].at \in {"asking", "undoing"})
      PROVE  Held(k)'
  <2>1. CASE k \in registry
    BY <2>1 DEF Held
  <2>2. CASE starting[k].at \in {"asking", "undoing"}
    BY <2>2, <1>4, <1>2 DEF Held
  <2>3. ASSUME NEW m \in Logins, starting[m].at = "reaping", starting[m].x = k PROVE Held(k)'
    <3>1. m # l
      BY <2>3
    <3> QED BY <3>1, <2>3, <1>2 DEF Held
  <2>4. CASE \E p \in Pollers : polling[p].at = "closing" /\ polling[p].l = k
    BY <2>4 DEF Held
  <2> QED BY <1>4, <2>1, <2>2, <2>3, <2>4 DEF Held
<1>5. AllHeld'
  <2> SUFFICES ASSUME NEW k \in online' PROVE Held(k)'
    BY DEF AllHeld
  <2>1. CASE k # l
    <3>1. k \in online /\ k \in Logins
      BY <2>1 DEF QrInv, QrTypeOK
    <3>2. Held(k)
      BY <3>1 DEF QrInv, AllHeld
    <3> QED BY <3>1, <3>2, <2>1, <1>4
  <2>2. CASE k = l /\ place # "done"
    BY <2>2, <1>2 DEF Held
  <2>3. CASE k = l /\ l \in registry'
    BY <2>3 DEF Held
  <2>4. CASE k = l /\ starting[l].at = "connecting" /\ l \in online
    BY <2>4, <1>4 DEF QrInv, AllHeld
  <2> QED BY <2>1, <2>2, <2>3, <2>4
<1>6. l \in Underway /\ Underway' \subseteq Underway
  BY <1>2 DEF Underway
<1>7. CapHeld'
  BY <1>6, CapStays
<1> QED BY <1>3, <1>5, <1>7 DEF QrInv, PollsOfLogins

LEMMA ConnectKeeps ==
  ASSUME QrInv, NEW l \in Logins, Connect(l)
  PROVE  QrInv'
<1>1. starting[l].at = "connecting" /\ UNCHANGED <<now, registry, deadline, scan, polling, crossed>>
  BY DEF Connect
<1>2. online \subseteq Logins /\ deadline' \in [Logins -> Nat]
  BY <1>1 DEF QrInv, QrTypeOK
<1>3. CASE online' = online \cup {l} /\ starting' = [starting EXCEPT ![l].at = "asking"]
  <2>1. online' \subseteq online \cup {l}
    BY <1>3
  <2>2. GoesOn(l, "asking")
    BY <1>1, <1>3 DEF GoesOn
  <2>3. registry \subseteq registry' /\ registry' \subseteq registry \cup {l}
        /\ deadline' \in [Logins -> Nat]
    BY <1>1, <1>2
  <2> QED BY <2>1, <2>2, <2>3, StartGoesOn
<1>4. CASE online' = online /\ starting' = [starting EXCEPT ![l].at = "done"]
  <2>1. GoesOn(l, "done")
    BY <1>1, <1>4 DEF GoesOn
  <2> QED BY <1>1, <1>2, <1>4, <2>1, StartGoesOn
<1> QED BY <1>3, <1>4 DEF Connect

LEMMA RegisterKeeps ==
  ASSUME QrInv, NEW l \in Logins, Register(l)
  PROVE  QrInv'
<1>1. /\ starting[l].at = "asking" /\ registry' = registry \cup {l}
      /\ deadline' = [deadline EXCEPT ![l] = now + Lifetime]
      /\ starting' = [starting EXCEPT ![l].at = "done"]
      /\ UNCHANGED <<now, online, scan, polling, crossed>>
  BY DEF Register
<1>2. online \subseteq Logins /\ deadline \in [Logins -> Nat]
  BY DEF QrInv, QrTypeOK
<1>3. deadline' \in [Logins -> Nat]
  <2>1. now + Lifetime \in Nat
    BY QrTyped
  <2> QED BY <1>1, <1>2, <2>1
<1>4. GoesOn(l, "done")
  BY <1>1 DEF GoesOn
<1> QED BY <1>1, <1>2, <1>3, <1>4, StartGoesOn

LEMMA AskFailsKeeps ==
  ASSUME QrInv, NEW l \in Logins, AskFails(l)
  PROVE  QrInv'
<1>1. GoesOn(l, "undoing") /\ UNCHANGED <<online, registry, deadline>>
  BY DEF AskFails, Disconnected, GoesOn
<1> QED BY <1>1, StartGoesOn DEF QrInv, QrTypeOK

LEMMA UndoneKeeps ==
  ASSUME QrInv, NEW l \in Logins, Undone(l)
  PROVE  QrInv'
<1>1. GoesOn(l, "done") /\ online' = online \ {l} /\ UNCHANGED <<registry, deadline>>
  BY DEF Undone, GoesOn
<1> QED BY <1>1, StartGoesOn DEF QrInv, QrTypeOK

\* A poll moves: a login it takes out of the registry is in its hands, and a
\* client it had in its hands is disconnected.
LEMMA PollMoves ==
  ASSUME QrInv, NEW p \in Pollers, NEW t \in Polling, polling' = [polling EXCEPT ![p] = t],
         scan' \in [Logins -> Outcome], registry' \subseteq registry, online' \subseteq online,
         \A k \in registry \ registry' : t.at = "closing" /\ t.l = k,
         polling[p].at = "closing" => polling[p].l \notin online',
         t.at # "idle" => t.l \in Logins,
         UNCHANGED <<now, starting, deadline, crossed>>
  PROVE  QrInv'
<1>1. polling \in [Pollers -> Polling]
  BY QrTyped
<1>2. /\ polling' \in [Pollers -> Polling] /\ polling'[p] = t
      /\ \A q \in Pollers \ {p} : polling'[q] = polling[q]
  BY <1>1
<1>3. QrTypeOK'
  BY <1>2 DEF QrInv, QrTypeOK, Polling
<1>4. AllHeld'
  <2> SUFFICES ASSUME NEW k \in online' PROVE Held(k)'
    BY DEF AllHeld
  <2>1. Held(k)
    BY DEF QrInv, AllHeld
  <2>2. CASE k \in registry'
    BY <2>2 DEF Held
  <2>3. CASE k \in registry \ registry'
    BY <2>3, <1>2 DEF Held
  <2>4. CASE \/ starting[k].at \in {"asking", "undoing"}
             \/ \E s \in Logins : starting[s].at = "reaping" /\ starting[s].x = k
    BY <2>4 DEF Held
  <2>5. ASSUME NEW q \in Pollers, polling[q].at = "closing", polling[q].l = k PROVE Held(k)'
    <3>1. q # p
      BY <2>5
    <3> QED BY <3>1, <2>5, <1>2 DEF Held
  <2> QED BY <2>1, <2>2, <2>3, <2>4, <2>5 DEF Held
<1>5. CapHeld'
  BY CapStays DEF Underway
<1>6. PollsOfLogins'
  BY <1>2 DEF QrInv, PollsOfLogins
<1> QED BY <1>3, <1>4, <1>5, <1>6 DEF QrInv

LEMMA AnswerKeeps ==
  ASSUME QrInv, NEW p \in Pollers, Answer(p),
         UNCHANGED <<now, starting, registry, deadline, scan, crossed>>,
         \/ polling[p].at # "closing" /\ online' = online
         \/ online' = online \ {polling[p].l}
  PROVE  QrInv'
<1>1. NoPoll \in Polling /\ NoPoll.at = "idle"
  BY DEF NoPoll, Polling
<1>2. scan \in [Logins -> Outcome]
  BY DEF QrInv, QrTypeOK
<1> QED BY <1>1, <1>2, PollMoves DEF Answer

LEMMA EvictKeeps ==
  ASSUME QrInv, NEW p \in Pollers, NEW l \in Logins, NEW says \in {"expired", "error", "success"},
         Evict(p, l, says), polling[p].at # "closing",
         UNCHANGED <<now, starting, online, deadline, crossed>>
  PROVE  QrInv'
<1> DEFINE t == [at |-> "closing", l |-> l, says |-> says]
<1>1. t \in Polling /\ t.at = "closing" /\ t.l = l
  BY DEF Polling
<1>2. registry' = registry \ {l} /\ scan' \in [Logins -> Outcome]
  BY PoppedIs DEF Evict
<1>3. polling' = [polling EXCEPT ![p] = t]
  BY DEF Evict
<1> HIDE DEF t
<1> QED BY <1>1, <1>2, <1>3, PollMoves

\* A poll goes to another place with a login, and touches nothing else.
LEMMA PollTakes ==
  ASSUME QrInv, NEW p \in Pollers, NEW l \in Logins, NEW place \in {"yielding", "checking"},
         polling' = [polling EXCEPT ![p] = [NoPoll EXCEPT !.at = place, !.l = l]],
         polling[p].at # "closing",
         UNCHANGED <<now, starting, online, registry, deadline, scan, crossed>>
  PROVE  QrInv'
<1> DEFINE t == [NoPoll EXCEPT !.at = place, !.l = l]
<1>1. t \in Polling /\ t.l = l
  BY DEF Polling, NoPoll
<1>2. scan \in [Logins -> Outcome]
  BY DEF QrInv, QrTypeOK
<1> HIDE DEF t
<1>3. polling' = [polling EXCEPT ![p] = t]
  BY DEF t
<1> QED BY <1>1, <1>2, <1>3, PollMoves

LEMMA ResolveKeeps ==
  ASSUME QrInv, NEW p \in Pollers, NEW l \in Logins, Resolve(p, l), polling[p].at # "closing",
         UNCHANGED <<now, starting, online, deadline, crossed>>
  PROVE  QrInv'
<1>1. CASE scan[l] = "failed"
  BY <1>1, EvictKeeps DEF Resolve
<1>2. CASE scan[l] = "authorized"
  <2>1. polling' = [polling EXCEPT ![p] = [NoPoll EXCEPT !.at = "checking", !.l = l]]
        /\ UNCHANGED <<registry, scan>>
    BY <1>2 DEF Resolve
  <2> QED BY <2>1, PollTakes
<1>3. CASE scan[l] \notin {"failed", "authorized"}
  <2>1. Answer(p) /\ UNCHANGED <<registry, scan>>
    BY <1>3 DEF Resolve
  <2> QED BY <2>1, AnswerKeeps
<1> QED BY <1>1, <1>2, <1>3

LEMMA BeginPollKeeps ==
  ASSUME QrInv, NEW p \in Pollers, NEW l \in Logins, BeginPoll(p, l)
  PROVE  QrInv'
<1>1. polling[p].at = "idle" /\ UNCHANGED <<now, starting, online, deadline, crossed>>
  BY DEF BeginPoll
<1>2. CASE Expired(l)
  <2>1. Evict(p, l, "expired")
    BY <1>2 DEF BeginPoll
  <2> QED BY <1>1, <2>1, EvictKeeps
<1>3. CASE ~Expired(l) /\ scan[l] = "waiting"
  <2>1. polling' = [polling EXCEPT ![p] = [NoPoll EXCEPT !.at = "yielding", !.l = l]]
        /\ UNCHANGED <<registry, scan>>
    BY <1>3 DEF BeginPoll
  <2> QED BY <1>1, <2>1, PollTakes
<1>4. CASE ~Expired(l) /\ scan[l] # "waiting"
  <2>1. Resolve(p, l)
    BY <1>4 DEF BeginPoll
  <2> QED BY <1>1, <2>1, ResolveKeeps
<1> QED BY <1>2, <1>3, <1>4

LEMMA YieldedKeeps ==
  ASSUME QrInv, NEW p \in Pollers, Yielded(p)
  PROVE  QrInv'
<1>1. /\ polling[p].at = "yielding" /\ Resolve(p, polling[p].l)
      /\ UNCHANGED <<now, starting, online, deadline, crossed>>
  BY DEF Yielded
<1>2. polling[p].l \in Logins
  BY <1>1 DEF QrInv, PollsOfLogins
<1> QED BY <1>1, <1>2, ResolveKeeps

LEMMA CheckedKeeps ==
  ASSUME QrInv, NEW p \in Pollers, Checked(p)
  PROVE  QrInv'
<1>1. /\ polling[p].at = "checking"
      /\ UNCHANGED <<now, starting, online, registry, deadline, scan, crossed>>
  BY DEF Checked
<1>2. CASE Answer(p)
  BY <1>1, <1>2, AnswerKeeps
<1>3. CASE PollAt(p, "naming")
  <2> DEFINE t == [polling[p] EXCEPT !.at = "naming"]
  <2>1. polling[p] \in Polling /\ polling[p].l \in Logins /\ scan \in [Logins -> Outcome]
    BY <1>1, QrTyped DEF QrInv, QrTypeOK, PollsOfLogins
  <2>2. t \in Polling /\ t.l = polling[p].l
    BY <2>1 DEF Polling
  <2>3. polling' = [polling EXCEPT ![p] = t]
    BY <1>3 DEF PollAt
  <2> HIDE DEF t
  <2> QED BY <1>1, <2>1, <2>2, <2>3, PollMoves
<1> QED BY <1>2, <1>3 DEF Checked

LEMMA NamedOrNotKeeps ==
  ASSUME QrInv, NEW p \in Pollers, NamedOrNot(p)
  PROVE  QrInv'
<1>1. /\ polling[p].at = "naming"
      /\ Evict(p, polling[p].l, "success") \/ Evict(p, polling[p].l, "error")
      /\ UNCHANGED <<now, starting, online, deadline, crossed>>
  BY DEF NamedOrNot
<1>2. polling[p].l \in Logins
  BY <1>1 DEF QrInv, PollsOfLogins
<1> QED BY <1>1, <1>2, EvictKeeps

LEMMA ClosedKeeps ==
  ASSUME QrInv, NEW p \in Pollers, Closed(p)
  PROVE  QrInv'
<1>1. /\ online' = online \ {polling[p].l} /\ Answer(p)
      /\ UNCHANGED <<now, starting, registry, deadline, scan, crossed>>
  BY DEF Closed
<1> QED BY <1>1, AnswerKeeps

LEMMA QrStep == QrInv /\ [QrNext]_qrVars => QrInv'
<1> SUFFICES ASSUME QrInv, [QrNext]_qrVars PROVE QrInv'
  OBVIOUS
<1>1. CASE ClockTicks
  BY <1>1, ClockTicksKeeps
<1>2. ASSUME NEW l \in Logins, ScanEnds(l) PROVE QrInv'
  BY <1>2, ScanEndsKeeps
<1>3. ASSUME NEW l \in Logins, StartLogin(l) PROVE QrInv'
  BY <1>3, StartLoginKeeps
<1>4. ASSUME NEW l \in Logins, Reaped(l) PROVE QrInv'
  BY <1>4, ReapedKeeps
<1>5. ASSUME NEW l \in Logins, Connect(l) PROVE QrInv'
  BY <1>5, ConnectKeeps
<1>6. ASSUME NEW l \in Logins, Register(l) PROVE QrInv'
  BY <1>6, RegisterKeeps
<1>7. ASSUME NEW l \in Logins, AskFails(l) PROVE QrInv'
  BY <1>7, AskFailsKeeps
<1>8. ASSUME NEW l \in Logins, Undone(l) PROVE QrInv'
  BY <1>8, UndoneKeeps
<1>9. ASSUME NEW p \in Pollers, Yielded(p) PROVE QrInv'
  BY <1>9, YieldedKeeps
<1>10. ASSUME NEW p \in Pollers, Checked(p) PROVE QrInv'
  BY <1>10, CheckedKeeps
<1>11. ASSUME NEW p \in Pollers, NamedOrNot(p) PROVE QrInv'
  BY <1>11, NamedOrNotKeeps
<1>12. ASSUME NEW p \in Pollers, Closed(p) PROVE QrInv'
  BY <1>12, ClosedKeeps
<1>13. ASSUME NEW p \in Pollers, NEW l \in Logins, BeginPoll(p, l) PROVE QrInv'
  BY <1>13, BeginPollKeeps
<1>14. CASE UNCHANGED qrVars
  BY <1>14 DEF qrVars, QrInv, QrTypeOK, AllHeld, Held, CapHeld, Underway, PollsOfLogins
<1> QED
  BY <1>1, <1>2, <1>3, <1>4, <1>5, <1>6, <1>7, <1>8, <1>9, <1>10, <1>11, <1>12, <1>13, <1>14
     DEF QrNext

LEMMA QrInvariance == Spec => []QrInv
<1>1. Init => QrInv
  BY QrStart DEF Init
<1>2. QrInv /\ [Next]_vars => QrInv'
  BY QrStep, StepsOfParts
<1> QED BY <1>1, <1>2, PTL DEF Spec

\* Every connected client is in the registry or in the hands of one who will
\* disconnect it, and the registry keeps to its cap unless two starts passed the
\* check side by side - for any number of starts, polls and places.
THEOREM LoginsAreAccounted == Spec => []LoginsAccounted
<1>1. QrInv => LoginsAccounted
  <2> SUFFICES ASSUME QrInv PROVE LoginsAccounted
    OBVIOUS
  <2>1. ASSUME ~crossed PROVE Cardinality(registry) <= AtOnce
    <3>1. IsFiniteSet(Logins)
      BY FS_Interval, QrLoginParameters DEF Logins
    <3>2. IsFiniteSet(registry \cup Underway)
      BY <3>1, FS_Subset DEF QrInv, QrTypeOK, Underway
    <3>3. IsFiniteSet(registry) /\ Cardinality(registry) <= Cardinality(registry \cup Underway)
      BY <3>2, FS_Subset
    <3>4. Cardinality(registry) \in Nat /\ Cardinality(registry \cup Underway) \in Nat
      BY <3>2, <3>3, FS_CardinalityType
    <3>5. Cardinality(registry \cup Underway) <= AtOnce
      BY <2>1 DEF QrInv, CapHeld
    <3> QED BY <3>3, <3>4, <3>5, QrLoginParameters
  <2> QED BY <2>1 DEF QrInv, AllHeld, Held, LoginsAccounted
<1> QED BY <1>1, QrInvariance, PTL

-----------------------------------------------------------------------------
(* The Telegram pool: the stored accounts.                                 *)

Request ==
  [at : {"idle", "checked", "flushed", "told", "answered"}, a : Accounts \cup {None},
   n : 0..MaxMint, add : BOOLEAN, old : 0..MaxMint]

\* A request that goes on names an account and a session, and adds the account
\* or found it stored.
RequestsNamed ==
  \A q \in Requests :
    IF request[q].at = "idle" THEN ~request[q].add
    ELSE /\ request[q].a \in Accounts /\ request[q].n # 0
         /\ request[q].add \/ row[request[q].a] # 0

\* The stored accounts with those being added.
PoolKept == ~raced => Cardinality(Stored \cup Adding) <= PoolMax

\* A slot with a session is of a stored account.
SlotsStored ==
  \A w \in Workers : pool[w] # None =>
    \A a \in Accounts : pool[w][a].n # 0 => row[a] # 0

\* The clients that are open are those of the slots that are up, and of a pool
\* that was popped and waits for its close.
Connected(w, s) == s \in ClientsUp(w) \/ s \in popped[w]

ClientsMatch ==
  \A w \in Workers, s \in Session : open[w][s] = IF Connected(w, s) THEN 1 ELSE 0

\* Between disconnecting a slot's old client and connecting the new one, the
\* slot is down.
SwapReady ==
  tick.at = "swap" =>
    /\ tick.a \in Accounts /\ tick.n # 0 /\ row[tick.a] # 0
    /\ tick.w \in Workers /\ pool[tick.w] # None /\ ~pool[tick.w][tick.a].up

\* A worker whose popped pool is not closed yet has no other.
PoppedCloses ==
  \A w \in Workers : popped[w] # {} => tick.w = w /\ tick.at = "close" /\ pool[w] = None

SessionsInv ==
  /\ SessionsTypeOK /\ RequestsNamed /\ PoolKept
  /\ SlotsStored /\ ClientsMatch /\ SwapReady /\ PoppedCloses

LEMMA SessionsStart == SessionsInit => SessionsInv
<1> SUFFICES ASSUME SessionsInit PROVE SessionsInv
  OBVIOUS
<1>1. /\ row = FirstRow /\ minted = FirstRow /\ dead = {} /\ reload = FALSE /\ revive = None
      /\ request = [q \in Requests |-> NoRequest] /\ quar = {}
      /\ pool = [w \in Workers |-> None] /\ open = [w \in Workers |-> [s \in Session |-> 0]]
      /\ popped = [w \in Workers |-> {}] /\ tick = NoTick /\ faults = 0 /\ raced = FALSE
  BY DEF SessionsInit
<1>2. /\ NoRequest \in Request /\ NoRequest.at = "idle" /\ ~NoRequest.add
  BY PoolSessionsParameters DEF NoRequest, Request
<1>3. SessionsTypeOK
  <2>1. FirstRow \in [Accounts -> 0..MaxMint]
    BY PoolSessionsParameters
  <2>2. request \in [Requests -> Request]
    BY <1>1, <1>2
  <2>3. /\ pool \in [Workers -> [Accounts -> Slot] \cup {None}] /\ open \in [Workers -> [Session -> Nat]]
        /\ popped \in [Workers -> SUBSET Session]
    BY <1>1
  <2>4. tick \in [w : Workers \cup {None},
                  at : {"off", "drop", "close", "build", "revive", "swap", "read"},
                  a : Accounts \cup {None}, n : 0..MaxMint]
    BY <1>1, PoolSessionsParameters DEF NoTick
  <2>5. faults \in 0..MaxFaults
    BY <1>1, PoolSessionsParameters
  <2> QED BY <1>1, <2>1, <2>2, <2>3, <2>4, <2>5 DEF SessionsTypeOK, Request
<1>4. RequestsNamed
  BY <1>1, <1>2 DEF RequestsNamed
<1>5. PoolKept
  <2>1. Adding = {}
    BY <1>1, <1>2 DEF Adding
  <2>2. Stored \cup Adding = {a \in Accounts : FirstRow[a] # 0}
    BY <1>1, <2>1 DEF Stored
  <2> QED BY <2>2, PoolSessionsParameters DEF PoolKept
<1>6. SlotsStored /\ ClientsMatch /\ SwapReady /\ PoppedCloses
  BY <1>1 DEF SlotsStored, ClientsMatch, Connected, ClientsUp, SwapReady, PoppedCloses, NoTick
<1> QED BY <1>3, <1>4, <1>5, <1>6 DEF SessionsInv

LEMMA RequestTyped ==
  ASSUME SessionsInv
  PROVE  /\ request \in [Requests -> Request] /\ row \in [Accounts -> 0..MaxMint]
         /\ minted \in [Accounts -> 0..MaxMint] /\ MaxMint \in Nat /\ PoolMax \in Nat
BY PoolSessionsParameters DEF SessionsInv, SessionsTypeOK, Request

LEMMA StoredFinite ==
  ASSUME SessionsInv
  PROVE  IsFiniteSet(Stored \cup Adding)
<1>1. Stored \subseteq Accounts /\ Adding \subseteq Accounts
  <2>1. ASSUME NEW q \in Requests, request[q].add PROVE request[q].a \in Accounts
    BY <2>1 DEF SessionsInv, RequestsNamed
  <2> QED BY <2>1 DEF Stored, Adding
<1> QED BY <1>1, FS_Subset, PoolSessionsParameters

LEMMA CapShrinks ==
  ASSUME SessionsInv, raced' = raced, Stored' \cup Adding' \subseteq Stored \cup Adding
  PROVE  PoolKept'
<1>1. IsFiniteSet(Stored' \cup Adding')
      /\ Cardinality(Stored' \cup Adding') <= Cardinality(Stored \cup Adding)
  BY StoredFinite, FS_Subset
<1>2. Cardinality(Stored' \cup Adding') \in Nat /\ Cardinality(Stored \cup Adding) \in Nat
  BY <1>1, StoredFinite, FS_CardinalityType
<1> QED BY <1>1, <1>2, PoolSessionsParameters DEF SessionsInv, PoolKept

\* What the API does keeps the rows there are, and the workers' pools.
LEMMA ApiKeeps ==
  ASSUME SessionsInv, SessionsTypeOK', RequestsNamed', PoolKept',
         \A a \in Accounts : row[a] # 0 => row'[a] # 0, UNCHANGED <<pool, popped, open, tick>>
  PROVE  SessionsInv'
<1>1. SlotsStored' /\ ClientsMatch' /\ SwapReady' /\ PoppedCloses'
  BY DEF SessionsInv, SlotsStored, ClientsMatch, Connected, ClientsUp, SwapReady, PoppedCloses
<1> QED BY <1>1 DEF SessionsInv

\* A request goes on, or is given up.
LEMMA RequestMoves ==
  ASSUME SessionsInv, NEW q \in Requests, NEW r \in Request, request' = [request EXCEPT ![q] = r],
         \/ r = NoRequest
         \/ /\ r.at # "idle" /\ request[q].at # "idle" /\ r.a = request[q].a /\ r.n = request[q].n
            /\ r.add = request[q].add,
         reload' \in BOOLEAN, revive' \in Accounts \cup {None}, quar' \subseteq quar,
         faults' \in 0..MaxFaults, UNCHANGED <<row, minted, dead, pool, popped, open, tick, raced>>
  PROVE  SessionsInv'
<1>1. request \in [Requests -> Request]
  BY RequestTyped
<1>2. /\ request' \in [Requests -> Request] /\ request'[q] = r
      /\ \A p \in Requests \ {q} : request'[p] = request[p]
  BY <1>1
<1>3. SessionsTypeOK'
  BY <1>2 DEF SessionsInv, SessionsTypeOK, Request
<1>4. RequestsNamed'
  BY <1>2 DEF SessionsInv, RequestsNamed, NoRequest
<1>5. Adding' \subseteq Adding /\ Stored' = Stored
  BY <1>2 DEF Adding, Stored, NoRequest
<1>6. PoolKept'
  BY <1>5, CapShrinks
<1> QED BY <1>3, <1>4, <1>6, ApiKeeps

LEMMA FlushKeeps ==
  ASSUME SessionsInv, NEW q \in Requests, Flush(q)
  PROVE  SessionsInv'
<1> DEFINE r == [request[q] EXCEPT !.at = "flushed"]
<1>1. /\ request[q].at = "checked"
      /\ request' = [request EXCEPT ![q] = NoRequest] \/ request' = [request EXCEPT ![q] = r]
      /\ UNCHANGED <<row, minted, dead, reload, revive, quar, pool, popped, open, tick, faults, raced>>
  BY DEF Flush
<1>2. /\ request[q] \in Request /\ NoRequest \in Request
      /\ reload \in BOOLEAN /\ revive \in Accounts \cup {None} /\ faults \in 0..MaxFaults
  BY RequestTyped DEF SessionsInv, SessionsTypeOK, NoRequest, Request
<1>3. /\ r \in Request /\ r.at = "flushed" /\ r.a = request[q].a /\ r.n = request[q].n
      /\ r.add = request[q].add
  BY <1>2 DEF Request
<1> HIDE DEF r
<1> QED BY <1>1, <1>2, <1>3, RequestMoves

LEMMA SignalReloadKeeps ==
  ASSUME SessionsInv, NEW q \in Requests, SignalReload(q)
  PROVE  SessionsInv'
<1> DEFINE place == IF request[q].add THEN "answered" ELSE "told"
           r == [request[q] EXCEPT !.at = place]
<1>1. /\ request[q].at = "flushed" /\ reload' = TRUE /\ request' = [request EXCEPT ![q] = r]
      /\ UNCHANGED <<row, minted, dead, revive, quar, pool, popped, open, tick, faults, raced>>
  BY DEF SignalReload
<1>2. /\ request[q] \in Request /\ revive \in Accounts \cup {None} /\ faults \in 0..MaxFaults
      /\ place \in {"answered", "told"}
  BY RequestTyped DEF SessionsInv, SessionsTypeOK
<1> HIDE DEF place
<1>3. /\ r \in Request /\ r.at \in {"answered", "told"} /\ r.a = request[q].a
      /\ r.n = request[q].n /\ r.add = request[q].add
  BY <1>2 DEF Request
<1> HIDE DEF r
<1> QED BY <1>1, <1>2, <1>3, RequestMoves

LEMMA SignalReviveKeeps ==
  ASSUME SessionsInv, NEW q \in Requests, SignalRevive(q)
  PROVE  SessionsInv'
<1> DEFINE r == [request[q] EXCEPT !.at = "answered"]
<1>1. /\ request[q].at = "told" /\ revive' = request[q].a
      /\ quar' = quar \ {<<request[q].a, request[q].old>>}
      /\ request' = [request EXCEPT ![q] = r]
      /\ UNCHANGED <<row, minted, dead, reload, pool, popped, open, tick, faults, raced>>
  BY DEF SignalRevive
<1>2. /\ request[q] \in Request /\ reload \in BOOLEAN /\ faults \in 0..MaxFaults
  BY RequestTyped DEF SessionsInv, SessionsTypeOK
<1>3. revive' \in Accounts \cup {None} /\ quar' \subseteq quar
  BY <1>1 DEF SessionsInv, RequestsNamed
<1>4. /\ r \in Request /\ r.at = "answered" /\ r.a = request[q].a
      /\ r.n = request[q].n /\ r.add = request[q].add
  BY <1>2 DEF Request
<1> HIDE DEF r
<1> QED BY <1>1, <1>2, <1>3, <1>4, RequestMoves

LEMMA AbortKeeps ==
  ASSUME SessionsInv, NEW q \in Requests, Abort(q)
  PROVE  SessionsInv'
<1>1. /\ request' = [request EXCEPT ![q] = NoRequest] /\ faults < MaxFaults /\ faults' = faults + 1
      /\ UNCHANGED <<row, minted, dead, reload, revive, quar, pool, popped, open, tick, raced>>
  BY DEF Abort, Fault
<1>2. NoRequest \in Request /\ reload \in BOOLEAN /\ revive \in Accounts \cup {None}
  BY RequestTyped DEF SessionsInv, SessionsTypeOK, NoRequest, Request
<1>3. faults' \in 0..MaxFaults
  BY <1>1, PoolSessionsParameters DEF SessionsInv, SessionsTypeOK
<1> QED BY <1>1, <1>2, <1>3, RequestMoves

LEMMA CommitKeeps ==
  ASSUME SessionsInv, NEW q \in Requests, Commit(q)
  PROVE  SessionsInv'
<1> DEFINE a == request[q].a
           n == request[q].n
<1>1. /\ request[q].at = "answered" /\ row' = [row EXCEPT ![a] = n]
      /\ request' = [request EXCEPT ![q] = NoRequest]
      /\ UNCHANGED <<minted, dead, reload, revive, quar, pool, popped, open, tick, faults, raced>>
  BY DEF Commit
<1>2. /\ request \in [Requests -> Request] /\ row \in [Accounts -> 0..MaxMint]
      /\ a \in Accounts /\ n # 0 /\ (request[q].add \/ row[a] # 0)
  BY <1>1, RequestTyped DEF SessionsInv, RequestsNamed
<1>3. n \in 0..MaxMint
  BY <1>2 DEF Request
<1> HIDE DEF n
<1>4. /\ row' \in [Accounts -> 0..MaxMint] /\ row'[a] = n
      /\ \A b \in Accounts \ {a} : row'[b] = row[b]
  BY <1>1, <1>2, <1>3
<1>5. NoRequest \in Request /\ ~NoRequest.add /\ NoRequest.at = "idle"
  BY <1>2, RequestTyped DEF NoRequest, Request
<1>6. /\ request' \in [Requests -> Request] /\ request'[q] = NoRequest
      /\ \A p \in Requests \ {q} : request'[p] = request[p]
  BY <1>1, <1>2, <1>5
<1>7. SessionsTypeOK'
  BY <1>1, <1>4, <1>6 DEF SessionsInv, SessionsTypeOK, Request
<1>8. \A b \in Accounts : row[b] # 0 => row'[b] # 0
  BY <1>2, <1>4 DEF n
<1>9. RequestsNamed'
  BY <1>5, <1>6, <1>8 DEF SessionsInv, RequestsNamed
<1>10. Adding' \subseteq Adding
  BY <1>5, <1>6 DEF Adding
<1>11. Stored' \subseteq Stored \cup Adding
  <2>1. request[q].add => a \in Adding
    BY DEF Adding
  <2>2. \A b \in Stored' : b \in Stored \/ b = a
    BY <1>4 DEF Stored
  <2> QED BY <1>2, <2>1, <2>2 DEF Stored
<1>12. PoolKept'
  BY <1>1, <1>10, <1>11, CapShrinks
<1> QED BY <1>1, <1>7, <1>8, <1>9, <1>12, ApiKeeps

\* A new account is let in while nobody else is being added, or the race is noted.
LEMMA LoginKeeps ==
  ASSUME SessionsInv, NEW q \in Requests, NEW a \in Accounts, Login(q, a)
  PROVE  SessionsInv'
<1> DEFINE n == minted[a] + 1
           known == row[a] # 0
           r == IF known \/ ~Full
                  THEN [at |-> "checked", a |-> a, n |-> n, add |-> ~known, old |-> row[a]]
                  ELSE NoRequest
<1>1. /\ request[q].at = "idle" /\ minted[a] < MaxMint /\ minted' = [minted EXCEPT ![a] = n]
      /\ request' = [request EXCEPT ![q] = r]
      /\ raced' = (raced \/ (~known /\ ~Full /\ Adding # {}))
      /\ UNCHANGED <<row, dead, reload, revive, quar, pool, popped, open, tick, faults>>
  BY DEF Login
<1>2. /\ request \in [Requests -> Request] /\ row \in [Accounts -> 0..MaxMint]
      /\ minted \in [Accounts -> 0..MaxMint] /\ MaxMint \in Nat
  BY RequestTyped
<1>3. n \in 0..MaxMint /\ n # 0
  BY <1>1, <1>2
<1> HIDE DEF n
<1>4. r \in Request
  <2>1. CASE known \/ ~Full
    BY <2>1, <1>2, <1>3 DEF Request
  <2>2. CASE ~(known \/ ~Full)
    BY <2>2, <1>2 DEF NoRequest, Request
  <2> QED BY <2>1, <2>2
<1>5. /\ r.add <=> ~known /\ ~Full
      /\ r.at = "idle" <=> ~known /\ Full
      /\ r.at # "idle" => r.a = a /\ r.n = n
  BY DEF NoRequest
<1> HIDE DEF r
<1>6. /\ request' \in [Requests -> Request] /\ request'[q] = r
      /\ \A p \in Requests \ {q} : request'[p] = request[p]
  BY <1>1, <1>2, <1>4
<1>7. SessionsTypeOK'
  <2>1. minted' \in [Accounts -> 0..MaxMint] /\ raced' \in BOOLEAN
    BY <1>1, <1>2, <1>3 DEF SessionsInv, SessionsTypeOK
  <2> QED BY <1>1, <1>6, <2>1 DEF SessionsInv, SessionsTypeOK, Request
<1>8. RequestsNamed'
  <2> SUFFICES ASSUME NEW p \in Requests
               PROVE  IF request'[p].at = "idle" THEN ~request'[p].add
                      ELSE /\ request'[p].a \in Accounts /\ request'[p].n # 0
                           /\ request'[p].add \/ row[request'[p].a] # 0
    BY <1>1 DEF RequestsNamed
  <2>1. CASE p = q
    BY <2>1, <1>3, <1>5, <1>6
  <2>2. CASE p # q
    BY <2>2, <1>6 DEF SessionsInv, RequestsNamed
  <2> QED BY <2>1, <2>2
<1>9. Stored' = Stored /\ (~r.add => Adding' \subseteq Adding)
      /\ (r.add => Adding' \subseteq Adding \cup {a})
  BY <1>1, <1>5, <1>6 DEF Stored, Adding
<1>10. PoolKept'
  <2>1. CASE known \/ Full
    BY <2>1, <1>1, <1>5, <1>9, CapShrinks DEF SessionsInv, SessionsTypeOK
  <2>2. CASE ~known /\ ~Full /\ Adding # {}
    BY <2>2, <1>1 DEF PoolKept
  <2>3. CASE ~known /\ ~Full /\ Adding = {}
    <3>1. Stored' \cup Adding' \subseteq Stored \cup {a}
      BY <2>3, <1>5, <1>9
    <3>2. IsFiniteSet(Stored)
      BY FS_Subset, PoolSessionsParameters DEF Stored
    <3>3. IsFiniteSet(Stored \cup {a})
          /\ (\/ Cardinality(Stored \cup {a}) = Cardinality(Stored)
              \/ Cardinality(Stored \cup {a}) = Cardinality(Stored) + 1)
      BY <3>2, FS_AddElement
    <3>4. IsFiniteSet(Stored' \cup Adding')
          /\ Cardinality(Stored' \cup Adding') <= Cardinality(Stored \cup {a})
      BY <3>1, <3>3, FS_Subset
    <3>5. /\ Cardinality(Stored) \in Nat /\ Cardinality(Stored \cup {a}) \in Nat
          /\ Cardinality(Stored' \cup Adding') \in Nat
      BY <3>2, <3>3, <3>4, FS_CardinalityType
    <3>6. Cardinality(Stored) < PoolMax
      BY <2>3, <3>5, PoolSessionsParameters DEF Full
    <3>7. Cardinality(Stored' \cup Adding') <= PoolMax
      BY <3>3, <3>4, <3>5, <3>6, PoolSessionsParameters
    <3> QED BY <3>7 DEF PoolKept
  <2> QED BY <2>1, <2>2, <2>3
<1> QED BY <1>1, <1>7, <1>8, <1>10, ApiKeeps

LEMMA OutsideKeeps ==
  ASSUME SessionsInv, SignalsExpire \/ \E s \in Session : Revoked(s)
  PROVE  SessionsInv'
<1>1. /\ dead' \subseteq Session /\ reload' \in BOOLEAN /\ revive' \in Accounts \cup {None}
      /\ UNCHANGED <<row, minted, request, quar, pool, popped, open, tick, faults, raced>>
  BY DEF SignalsExpire, Revoked, store, SessionsInv, SessionsTypeOK
<1>2. SessionsTypeOK'
  BY <1>1 DEF SessionsInv, SessionsTypeOK
<1>3. RequestsNamed' /\ PoolKept'
  BY <1>1 DEF SessionsInv, RequestsNamed, PoolKept, Stored, Adding
<1> QED BY <1>1, <1>2, <1>3, ApiKeeps

-----------------------------------------------------------------------------
(* The Telegram pool: the workers' clients.                                *)

Place ==
  [w : Workers \cup {None},
   at : {"off", "drop", "close", "build", "revive", "swap", "read"},
   a : Accounts \cup {None}, n : 0..MaxMint]

PoolOf == [Accounts -> Slot]

LEMMA TickTyped ==
  ASSUME SessionsInv
  PROVE  /\ tick \in Place /\ pool \in [Workers -> PoolOf \cup {None}]
         /\ open \in [Workers -> [Session -> Nat]] /\ row \in [Accounts -> 0..MaxMint]
         /\ popped \in [Workers -> SUBSET Session]
         /\ reload \in BOOLEAN /\ revive \in Accounts \cup {None} /\ quar \subseteq Session
         /\ dead \subseteq Session /\ faults \in 0..MaxFaults
BY DEF SessionsInv, SessionsTypeOK, Place, PoolOf

\* A worker's tick leaves the store alone.
LEMMA WorkerKeeps ==
  ASSUME SessionsInv, UNCHANGED store, UNCHANGED dead,
         tick' \in Place, pool' \in [Workers -> PoolOf \cup {None}],
         open' \in [Workers -> [Session -> Nat]],
         reload' \in BOOLEAN, revive' \in Accounts \cup {None}, quar' \subseteq Session,
         faults' \in 0..MaxFaults, popped' \in [Workers -> SUBSET Session],
         SlotsStored', ClientsMatch', SwapReady', PoppedCloses'
  PROVE  SessionsInv'
<1> USE DEF store
<1>1. SessionsTypeOK'
  BY DEF SessionsInv, SessionsTypeOK, Place, PoolOf
<1>2. RequestsNamed' /\ PoolKept'
  BY DEF SessionsInv, RequestsNamed, PoolKept, Stored, Adding
<1> QED BY <1>1, <1>2 DEF SessionsInv

\* Only while a pool waits for its close has one been popped.
LEMMA NothingPopped ==
  ASSUME SessionsInv, tick.at # "close"
  PROVE  /\ \A w \in Workers : popped[w] = {}
         /\ UNCHANGED popped => PoppedCloses'
BY DEF SessionsInv, PoppedCloses

\* A step of a tick that leaves the pools alone.
LEMMA GoesElsewhere ==
  ASSUME SessionsInv, UNCHANGED <<store, dead, quar, pool, popped, open>>, tick' \in Place,
         tick.at # "close", tick'.at # "swap", reload' \in BOOLEAN, revive' \in Accounts \cup {None},
         faults' \in 0..MaxFaults
  PROVE  SessionsInv'
<1>1. SlotsStored' /\ ClientsMatch' /\ SwapReady' /\ PoppedCloses'
  BY NothingPopped DEF SessionsInv, SlotsStored, ClientsMatch, Connected, ClientsUp, SwapReady, store
<1> QED BY <1>1, TickTyped, WorkerKeeps

LEMMA GoToIs ==
  ASSUME SessionsInv, 
         NEW place \in {"off", "drop", "close", "build", "revive", "swap", "read"}, GoTo(place)
  PROVE  tick' \in Place /\ tick'.at = place /\ tick'.w = tick.w
BY TickTyped DEF GoTo, Place

LEMMA StartTickKeeps ==
  ASSUME SessionsInv, NEW w \in Workers, StartTick(w)
  PROVE  SessionsInv'
<1> DEFINE place == IF reload THEN "drop" ELSE "build"
           t == [w |-> w, at |-> place, a |-> None, n |-> 0]
<1>1. tick' = t /\ tick = NoTick /\ UNCHANGED <<store, dead, reload, revive, quar, pool, popped, open, faults>>
  BY DEF StartTick, store
<1>2. place \in {"drop", "build"}
  OBVIOUS
<1> HIDE DEF place
<1>3. t \in Place /\ t.at # "swap" /\ NoTick.at # "close"
  BY <1>2, PoolSessionsParameters DEF Place, NoTick
<1> HIDE DEF t
<1> QED BY <1>1, <1>3, TickTyped, GoesElsewhere

LEMMA NoReviveKeeps ==
  ASSUME SessionsInv, NEW w \in Workers, NoRevive(w)
  PROVE  SessionsInv'
<1>1. /\ tick.at = "revive" /\ GoTo("read") /\ revive' \in {revive, None}
      /\ UNCHANGED <<store, dead, reload, quar, pool, popped, open, faults>>
  BY DEF NoRevive, At, store
<1>2. tick' \in Place /\ tick'.at # "swap"
  BY <1>1, GoToIs
<1> QED BY <1>1, <1>2, TickTyped, GoesElsewhere

LEMMA EndTickKeeps ==
  ASSUME SessionsInv, NEW w \in Workers, EndTick(w)
  PROVE  SessionsInv'
<1>1. /\ tick.at = "read" /\ tick' = NoTick
      /\ UNCHANGED <<store, dead, reload, revive, quar, pool, popped, open, faults>>
  BY DEF EndTick, At, store
<1>2. NoTick \in Place /\ NoTick.at # "swap"
  BY PoolSessionsParameters DEF NoTick, Place
<1> QED BY <1>1, <1>2, TickTyped, GoesElsewhere

\* A worker takes its pool out of the cache; its clients stay open.
LEMMA DropPoolKeeps ==
  ASSUME SessionsInv, NEW w \in Workers, DropPool(w)
  PROVE  SessionsInv'
<1>1. /\ tick.w = w /\ tick.at = "drop" /\ GoTo("close") /\ reload' = FALSE
      /\ popped' = [popped EXCEPT ![w] = ClientsUp(w)] /\ pool' = [pool EXCEPT ![w] = None]
      /\ UNCHANGED <<store, dead, revive, quar, open, faults>>
  BY DEF DropPool, At, store
<1>2. tick' \in Place /\ tick'.at = "close" /\ tick'.w = w
  BY <1>1, GoToIs
<1>3. /\ pool' \in [Workers -> PoolOf \cup {None}] /\ pool'[w] = None
      /\ \A v \in Workers \ {w} : pool'[v] = pool[v]
  BY <1>1, TickTyped
<1>4. ClientsUp(w) \in SUBSET Session
  BY DEF ClientsUp
<1>5. /\ popped' \in [Workers -> SUBSET Session] /\ popped'[w] = ClientsUp(w)
      /\ \A v \in Workers \ {w} : popped'[v] = {}
  BY <1>1, <1>4, TickTyped, NothingPopped
<1>6. SlotsStored' /\ SwapReady' /\ PoppedCloses'
  BY <1>1, <1>2, <1>3, <1>5 DEF SessionsInv, SlotsStored, SwapReady, PoppedCloses, store
<1>7. ClientsMatch'
  <2> SUFFICES ASSUME NEW v \in Workers, NEW s \in Session
               PROVE  open[v][s] = IF Connected(v, s)' THEN 1 ELSE 0
    BY <1>1 DEF ClientsMatch
  <2>1. popped[v] = {}
    BY <1>1, NothingPopped
  <2>2. CASE v = w
    BY <2>1, <2>2, <1>3, <1>5 DEF Connected, ClientsUp, SessionsInv, ClientsMatch
  <2>3. CASE v # w
    BY <2>1, <2>3, <1>3, <1>5 DEF Connected, ClientsUp, SessionsInv, ClientsMatch
  <2> QED BY <2>2, <2>3
<1> QED BY <1>1, <1>2, <1>3, <1>5, <1>6, <1>7, TickTyped, WorkerKeeps

\* A worker's clients are those of its pool, whether it has one or not, once
\* nothing is popped.
LEMMA NoneLeft ==
  ASSUME SessionsInv, NEW w \in Workers, open' \in [Workers -> [Session -> Nat]],
         \A s \in Session : open'[w][s] = 0, \A v \in Workers \ {w} : open'[v] = open[v],
         pool' = [pool EXCEPT ![w] = None], popped' = [popped EXCEPT ![w] = {}],
         UNCHANGED <<store, dead, quar>>, reload' = reload, revive' = revive,
         faults' = faults, tick' \in Place, tick.w # w => tick' = tick,
         tick.w = w => tick'.at # "swap"
  PROVE  SessionsInv'
<1>1. /\ pool' \in [Workers -> PoolOf \cup {None}] /\ pool'[w] = None
      /\ \A v \in Workers \ {w} : pool'[v] = pool[v]
  BY TickTyped
<1>2. /\ popped' \in [Workers -> SUBSET Session] /\ popped'[w] = {}
      /\ \A v \in Workers \ {w} : popped'[v] = popped[v]
  BY TickTyped
<1>3. SlotsStored'
  BY <1>1 DEF SessionsInv, SlotsStored, store
<1>4. ClientsMatch'
  <2> SUFFICES ASSUME NEW v \in Workers, NEW s \in Session
               PROVE  open'[v][s] = IF Connected(v, s)' THEN 1 ELSE 0
    BY DEF ClientsMatch
  <2>1. CASE v = w
    BY <2>1, <1>1, <1>2 DEF Connected, ClientsUp
  <2>2. CASE v # w
    BY <2>2, <1>1, <1>2 DEF Connected, ClientsUp, SessionsInv, ClientsMatch
  <2> QED BY <2>1, <2>2
<1>5. SwapReady'
  BY <1>1 DEF SessionsInv, SwapReady, store
<1>6. PoppedCloses'
  BY <1>1, <1>2 DEF SessionsInv, PoppedCloses
<1> QED BY <1>1, <1>2, <1>3, <1>4, <1>5, <1>6, TickTyped, WorkerKeeps

\* The clients that are open are those of the popped pool.
LEMMA AwaitCloseKeeps ==
  ASSUME SessionsInv, NEW w \in Workers, AwaitClose(w)
  PROVE  SessionsInv'
<1>1. /\ tick.w = w /\ tick.at = "close" /\ GoTo("build") /\ ClosePool(w)
      /\ popped' = [popped EXCEPT ![w] = {}]
      /\ UNCHANGED <<store, dead, reload, revive, quar, pool, faults>>
  BY DEF AwaitClose, At, store
<1>2. tick' \in Place /\ tick'.at = "build" /\ tick'.w = w
  BY <1>1, GoToIs
<1>3. open \in [Workers -> [Session -> Nat]] /\ popped \in [Workers -> SUBSET Session]
  BY TickTyped
<1> DEFINE left == [s \in Session |-> IF s \in popped[w] THEN open[w][s] - 1 ELSE open[w][s]]
<1>4. open' = [open EXCEPT ![w] = left]
  BY <1>1 DEF ClosePool
<1>5. \A s \in Session : left[s] = IF s \in ClientsUp(w) THEN 1 ELSE 0
  <2> SUFFICES ASSUME NEW s \in Session
               PROVE  left[s] = IF s \in ClientsUp(w) THEN 1 ELSE 0
    OBVIOUS
  <2>1. open[w][s] = IF s \in ClientsUp(w) \/ s \in popped[w] THEN 1 ELSE 0
    BY DEF SessionsInv, ClientsMatch, Connected
  <2>2. s \in popped[w] => s \notin ClientsUp(w)
    BY DEF SessionsInv, PoppedCloses, ClientsUp
  <2> QED BY <2>1, <2>2
<1>6. left \in [Session -> Nat]
  <2>1. left = [s \in Session |-> left[s]]
    OBVIOUS
  <2> HIDE DEF left
  <2> QED BY <2>1, <1>5
<1> HIDE DEF left
<1>7. /\ open' \in [Workers -> [Session -> Nat]] /\ open'[w] = left
      /\ \A v \in Workers \ {w} : open'[v] = open[v]
  BY <1>3, <1>4, <1>6
<1>8. /\ popped' \in [Workers -> SUBSET Session] /\ popped'[w] = {}
      /\ \A v \in Workers \ {w} : popped'[v] = popped[v]
  BY <1>1, <1>3
<1>9. \A v \in Workers : ClientsUp(v)' = ClientsUp(v)
  BY <1>1 DEF ClientsUp
<1>10. ClientsMatch'
  <2> SUFFICES ASSUME NEW v \in Workers, NEW s \in Session
               PROVE  open'[v][s] = IF Connected(v, s)' THEN 1 ELSE 0
    BY DEF ClientsMatch
  <2>1. CASE v = w
    BY <2>1, <1>5, <1>7, <1>8, <1>9 DEF Connected
  <2>2. CASE v # w
    BY <2>2, <1>7, <1>8, <1>9 DEF Connected, SessionsInv, ClientsMatch
  <2> QED BY <2>1, <2>2
<1>11. SlotsStored' /\ SwapReady'
  BY <1>1, <1>2 DEF SessionsInv, SlotsStored, SwapReady, store
<1>12. PoppedCloses'
  BY <1>1, <1>8 DEF SessionsInv, PoppedCloses
<1> QED BY <1>1, <1>2, <1>7, <1>8, <1>10, <1>11, <1>12, TickTyped, WorkerKeeps

LEMMA WorkerEndsKeeps ==
  ASSUME SessionsInv, NEW w \in Workers, WorkerEnds(w)
  PROVE  SessionsInv'
<1> DEFINE none == [s \in Session |-> 0]
<1>1. /\ pool' = [pool EXCEPT ![w] = None] /\ open' = [open EXCEPT ![w] = none]
      /\ popped' = [popped EXCEPT ![w] = {}] /\ tick' = IF tick.w = w THEN NoTick ELSE tick
      /\ UNCHANGED <<store, dead, reload, revive, quar, faults>>
  BY DEF WorkerEnds, store
<1>2. none \in [Session -> Nat] /\ \A s \in Session : none[s] = 0
  OBVIOUS
<1> HIDE DEF none
<1>3. /\ open' \in [Workers -> [Session -> Nat]] /\ open'[w] = none
      /\ \A v \in Workers \ {w} : open'[v] = open[v]
  BY <1>1, <1>2, TickTyped
<1>4. NoTick \in Place /\ NoTick.at # "swap"
  BY PoolSessionsParameters DEF NoTick, Place
<1>5. tick' \in Place /\ (tick.w # w => tick' = tick) /\ (tick.w = w => tick'.at # "swap")
  BY <1>1, <1>4, TickTyped
<1> QED BY <1>1, <1>2, <1>3, <1>5, TickTyped, NoneLeft

\* A pool is built of slots that are down, from the stored rows.
LEMMA BuildKeeps ==
  ASSUME SessionsInv, NEW w \in Workers, Build(w)
  PROVE  SessionsInv'
<1>1. /\ tick.at = "build" /\ GoTo("revive")
      /\ UNCHANGED <<store, dead, reload, revive, quar, popped, open>>
  BY DEF Build, At, store
<1>2. tick' \in Place /\ tick'.at # "swap"
  BY <1>1, GoToIs
<1>3. CASE UNCHANGED <<pool, faults>>
  BY <1>1, <1>2, <1>3, TickTyped, GoesElsewhere
<1>4. ASSUME pool[w] = None, NEW seen \in BOOLEAN, IF seen THEN UNCHANGED faults ELSE Fault,
             pool' = [pool EXCEPT ![w] =
                        [a \in Accounts |->
                           IF a \in Loaded
                             THEN [n |-> row[a], out |-> seen /\ MarkedDead(a), up |-> FALSE]
                             ELSE NoSlot]]
      PROVE  SessionsInv'
  <2> DEFINE built == [a \in Accounts |->
                         IF a \in Loaded
                           THEN [n |-> row[a], out |-> seen /\ MarkedDead(a), up |-> FALSE]
                           ELSE NoSlot]
  <2>1. ASSUME NEW a \in Accounts
        PROVE  built[a] \in Slot /\ ~built[a].up /\ (built[a].n # 0 => row[a] # 0)
    <3>1. CASE a \in Loaded
      <4>1. row[a] \in 0..MaxMint /\ (seen /\ MarkedDead(a)) \in BOOLEAN
        BY TickTyped
      <4>2. built[a] = [n |-> row[a], out |-> seen /\ MarkedDead(a), up |-> FALSE]
        BY <3>1
      <4> HIDE DEF built
      <4> QED BY <4>1, <4>2 DEF Slot
    <3>2. CASE a \notin Loaded
      <4>1. built[a] = NoSlot
        BY <3>2
      <4> HIDE DEF built
      <4> QED BY <4>1, PoolSessionsParameters DEF NoSlot, Slot
    <3> QED BY <3>1, <3>2
  <2>2. built \in PoolOf
    <3>1. built = [a \in Accounts |-> built[a]]
      OBVIOUS
    <3> HIDE DEF built
    <3> QED BY <3>1, <2>1 DEF PoolOf
  <2>3. pool' = [pool EXCEPT ![w] = built]
    BY <1>4
  <2> HIDE DEF built
  <2>4. /\ pool' \in [Workers -> PoolOf \cup {None}] /\ pool'[w] = built
        /\ \A v \in Workers \ {w} : pool'[v] = pool[v]
    BY <2>2, <2>3, TickTyped
  <2>5. faults' \in 0..MaxFaults
    <3>1. faults \in 0..MaxFaults /\ MaxFaults \in Nat
      BY TickTyped, PoolSessionsParameters
    <3>2. faults' = faults \/ (faults < MaxFaults /\ faults' = faults + 1)
      BY <1>4 DEF Fault
    <3> QED BY <3>1, <3>2
  <2>6. SlotsStored'
    BY <1>1, <2>1, <2>4 DEF SessionsInv, SlotsStored, store
  <2>7. ClientsMatch'
    <3> SUFFICES ASSUME NEW v \in Workers, NEW s \in Session
                 PROVE  open[v][s] = IF Connected(v, s)' THEN 1 ELSE 0
      BY <1>1 DEF ClientsMatch
    <3>1. CASE v = w
      <4>1. s[1] \in Accounts
        BY DEF Session
      <4>2. ~Connected(v, s) /\ ~Connected(v, s)'
        BY <1>1, <1>4, <2>1, <2>4, <3>1, <4>1, NothingPopped DEF Connected, ClientsUp
      <4> QED BY <4>2 DEF SessionsInv, ClientsMatch
    <3>2. CASE v # w
      BY <1>1, <3>2, <2>4 DEF Connected, ClientsUp, SessionsInv, ClientsMatch
    <3> QED BY <3>1, <3>2
  <2>8. SwapReady' /\ PoppedCloses'
    BY <1>1, <1>2, NothingPopped DEF SwapReady
  <2> QED BY <1>1, <1>2, <2>4, <2>5, <2>6, <2>7, <2>8, TickTyped, WorkerKeeps
<1> QED BY <1>3, <1>4 DEF Build

\* One slot of a worker's pool changes, and its clients with it.
SlotBecomes(w, a, slot) ==
  /\ pool' = [pool EXCEPT ![w] = [pool[w] EXCEPT ![a] = slot]]
  /\ open' \in [Workers -> [Session -> Nat]]
  /\ \A v \in Workers \ {w} : open'[v] = open[v]
  /\ popped' = popped
  /\ \A s \in Session :
       open'[w][s] = IF s[1] = a THEN (IF slot.up /\ slot.n = s[2] THEN 1 ELSE 0)
                                 ELSE open[w][s]

LEMMA SlotChanges ==
  ASSUME SessionsInv, NEW w \in Workers, pool[w] # None, NEW a \in Accounts, NEW slot \in Slot,
         tick.at # "close", row[a] # 0, SlotBecomes(w, a, slot), UNCHANGED store
  PROVE  /\ pool' \in [Workers -> PoolOf \cup {None}] /\ pool'[w] \in PoolOf /\ pool'[w][a] = slot
         /\ SlotsStored' /\ ClientsMatch' /\ PoppedCloses'
<1> DEFINE changed == [pool[w] EXCEPT ![a] = slot]
<1> USE DEF SlotBecomes
<1>1. pool[w] \in PoolOf /\ pool \in [Workers -> PoolOf \cup {None}]
  BY TickTyped
<1>2. /\ changed \in PoolOf /\ changed[a] = slot
      /\ \A b \in Accounts \ {a} : changed[b] = pool[w][b]
  BY <1>1 DEF PoolOf
<1> HIDE DEF changed
<1>3. pool' = [pool EXCEPT ![w] = changed]
  BY DEF changed
<1>4. /\ pool' \in [Workers -> PoolOf \cup {None}] /\ pool'[w] = changed
      /\ \A v \in Workers \ {w} : pool'[v] = pool[v]
  BY <1>1, <1>2, <1>3
<1>5. changed # None
  BY <1>2, NoneIsNoPool DEF PoolOf
<1>6. SlotsStored'
  <2> SUFFICES ASSUME NEW v \in Workers, pool'[v] # None, NEW b \in Accounts, pool'[v][b].n # 0
               PROVE  row[b] # 0
    BY DEF SlotsStored, store
  <2>1. CASE v = w /\ b = a
    BY <2>1, <1>2, <1>4
  <2>2. CASE v = w /\ b # a
    BY <2>2, <1>2, <1>4 DEF SessionsInv, SlotsStored
  <2>3. CASE v # w
    BY <2>3, <1>4 DEF SessionsInv, SlotsStored
  <2> QED BY <2>1, <2>2, <2>3
<1>7. ClientsMatch'
  <2> SUFFICES ASSUME NEW v \in Workers, NEW s \in Session
               PROVE  open'[v][s] = IF Connected(v, s)' THEN 1 ELSE 0
    BY DEF ClientsMatch
  <2>1. s[1] \in Accounts
    BY DEF Session
  <2>2. CASE v # w
    BY <2>2, <1>4 DEF Connected, ClientsUp, SessionsInv, ClientsMatch
  <2>3. CASE v = w /\ s[1] = a
    <3>1. Connected(v, s)' <=> slot.up /\ slot.n = s[2]
      BY <2>3, <1>2, <1>4, <1>5, NothingPopped DEF Connected, ClientsUp
    <3> QED BY <2>3, <3>1
  <2>4. CASE v = w /\ s[1] # a
    <3>1. Connected(w, s)' <=> Connected(w, s)
      BY <2>1, <2>4, <1>2, <1>4, <1>5, NothingPopped DEF Connected, ClientsUp
    <3> QED BY <2>4, <3>1 DEF SessionsInv, ClientsMatch
  <2> QED BY <2>2, <2>3, <2>4
<1> QED BY <1>2, <1>4, <1>6, <1>7, NothingPopped

\* The clients of one slot, before and after one of them is opened or closed.
LEMMA ClientsOfSlot ==
  ASSUME SessionsInv, NEW w \in Workers, pool[w] # None, NEW a \in Accounts,
         NEW s \in Session, s[1] = a, tick.at # "close"
  PROVE  open[w][s] = IF pool[w][a].up /\ pool[w][a].n = s[2] THEN 1 ELSE 0
BY NothingPopped DEF SessionsInv, ClientsMatch, Connected, ClientsUp

LEMMA OpensOne ==
  ASSUME SessionsInv, NEW w \in Workers, NEW a \in Accounts, NEW n \in 1..MaxMint,
         Connects(w, <<a, n>>)
  PROVE  /\ open' \in [Workers -> [Session -> Nat]]
         /\ \A v \in Workers \ {w} : open'[v] = open[v]
         /\ \A s \in Session : open'[w][s] = IF s[1] = a /\ s[2] = n THEN open[w][s] + 1
                                                                    ELSE open[w][s]
<1> DEFINE s0 == <<a, n>>
           f == [open[w] EXCEPT ![s0] = open[w][s0] + 1]
<1>1. open \in [Workers -> [Session -> Nat]] /\ s0 \in Session
  BY TickTyped DEF Session
<1>2. open' = [open EXCEPT ![w] = f]
  BY DEF Connects
<1>3. open[w][s0] + 1 \in Nat
  BY <1>1
<1>4. /\ f \in [Session -> Nat] /\ f[s0] = open[w][s0] + 1
      /\ \A s \in Session \ {s0} : f[s] = open[w][s]
  BY <1>1, <1>3
<1> HIDE DEF f
<1>5. /\ open' \in [Workers -> [Session -> Nat]] /\ open'[w] = f
      /\ \A v \in Workers \ {w} : open'[v] = open[v]
  BY <1>1, <1>2, <1>4
<1>6. \A s \in Session : s = s0 <=> s[1] = a /\ s[2] = n
  BY DEF Session
<1> QED BY <1>4, <1>5, <1>6

Closes(w, s) == open' = [open EXCEPT ![w][s] = @ - 1]

LEMMA ClosesOne ==
  ASSUME SessionsInv, NEW w \in Workers, NEW a \in Accounts, NEW n \in 1..MaxMint,
         open[w][<<a, n>>] = 1, Closes(w, <<a, n>>)
  PROVE  /\ open' \in [Workers -> [Session -> Nat]]
         /\ \A v \in Workers \ {w} : open'[v] = open[v]
         /\ \A s \in Session : open'[w][s] = IF s[1] = a /\ s[2] = n THEN 0 ELSE open[w][s]
<1> DEFINE s0 == <<a, n>>
           f == [open[w] EXCEPT ![s0] = open[w][s0] - 1]
<1>1. open \in [Workers -> [Session -> Nat]] /\ s0 \in Session
  BY TickTyped DEF Session
<1>2. open' = [open EXCEPT ![w] = f]
  BY DEF Closes
<1>3. open[w][s0] - 1 = 0
  OBVIOUS
<1>4. /\ f \in [Session -> Nat] /\ f[s0] = 0
      /\ \A s \in Session \ {s0} : f[s] = open[w][s]
  BY <1>1, <1>3
<1> HIDE DEF f
<1>5. /\ open' \in [Workers -> [Session -> Nat]] /\ open'[w] = f
      /\ \A v \in Workers \ {w} : open'[v] = open[v]
  BY <1>1, <1>2, <1>4
<1>6. \A s \in Session : s = s0 <=> s[1] = a /\ s[2] = n
  BY DEF Session
<1> QED BY <1>4, <1>5, <1>6

LEMMA BeginReviveKeeps ==
  ASSUME SessionsInv, NEW w \in Workers, BeginRevive(w)
  PROVE  SessionsInv'
<1> DEFINE a == revive
           old == pool[w][a]
           slot == [old EXCEPT !.up = FALSE]
<1>1. /\ tick.w = w /\ tick.at = "revive" /\ a # None /\ pool[w] # None /\ old.n # 0
      /\ Disconnects(w, <<a, old.n>>, old.up)
      /\ pool' = [pool EXCEPT ![w][a].up = FALSE]
      /\ tick' = [tick EXCEPT !.at = "swap", !.a = a, !.n = row[a]]
      /\ UNCHANGED <<store, dead, reload, revive, quar, popped, faults>>
  BY DEF BeginRevive, Target, At, store
<1>2. /\ a \in Accounts /\ pool[w] \in PoolOf /\ tick \in Place
      /\ row \in [Accounts -> 0..MaxMint] /\ open \in [Workers -> [Session -> Nat]]
  BY <1>1, TickTyped
<1>3. old \in Slot /\ old.n \in 1..MaxMint
  BY <1>1, <1>2 DEF PoolOf, Slot
<1>4. row[a] # 0 /\ row[a] \in 0..MaxMint
  BY <1>1, <1>2 DEF SessionsInv, SlotsStored
<1>5. slot \in Slot /\ ~slot.up /\ slot.n = old.n
  BY <1>3 DEF Slot
<1>6. pool' = [pool EXCEPT ![w] = [pool[w] EXCEPT ![a] = slot]]
  BY <1>1
<1>7. \A s \in Session : s[1] = a => open[w][s] = IF old.up /\ old.n = s[2] THEN 1 ELSE 0
  BY <1>1, <1>2, ClientsOfSlot
<1> HIDE DEF old
<1>8. /\ open' \in [Workers -> [Session -> Nat]]
      /\ \A v \in Workers \ {w} : open'[v] = open[v]
      /\ \A s \in Session : open'[w][s] = IF s[1] = a THEN 0 ELSE open[w][s]
  <2>1. CASE old.up
    <3>1. <<a, old.n>> \in Session /\ open[w][<<a, old.n>>] = 1
      BY <1>2, <1>3, <1>7, <2>1 DEF Session
    <3>2. Closes(w, <<a, old.n>>)
      BY <1>1, <2>1 DEF Disconnects, Closes
    <3>3. /\ open' \in [Workers -> [Session -> Nat]]
          /\ \A v \in Workers \ {w} : open'[v] = open[v]
          /\ \A s \in Session : open'[w][s] = IF s[1] = a /\ s[2] = old.n THEN 0 ELSE open[w][s]
      BY <1>2, <1>3, <3>1, <3>2, ClosesOne
    <3> QED BY <1>7, <3>3
  <2>2. CASE ~old.up
    <3>1. open' = open
      BY <1>1, <2>2 DEF Disconnects
    <3> QED BY <1>2, <1>7, <2>2, <3>1
  <2> QED BY <2>1, <2>2
<1> HIDE DEF slot
<1>9. /\ pool' \in [Workers -> PoolOf \cup {None}] /\ pool'[w] \in PoolOf /\ pool'[w][a] = slot
      /\ SlotsStored' /\ ClientsMatch' /\ PoppedCloses'
  <2>1. SlotBecomes(w, a, slot)
    BY <1>1, <1>5, <1>6, <1>8 DEF SlotBecomes
  <2>2. tick.at # "close" /\ pool[w] # None /\ UNCHANGED store
    BY <1>1
  <2> QED BY <1>2, <1>4, <1>5, <2>1, <2>2, SlotChanges
<1>10. /\ tick' \in Place /\ tick'.at = "swap" /\ tick'.a = a /\ tick'.n = row[a] /\ tick'.w = w
  BY <1>1, <1>2, <1>4 DEF Place
<1>11. SwapReady'
  <2>1. pool'[w] # None
    BY <1>9, NoneIsNoPool DEF PoolOf
  <2> QED BY <1>1, <1>2, <1>4, <1>5, <1>9, <1>10, <2>1 DEF SwapReady, store
<1> QED BY <1>1, <1>8, <1>9, <1>10, <1>11, TickTyped, WorkerKeeps

LEMMA SwapKeeps ==
  ASSUME SessionsInv, NEW w \in Workers, Swap(w)
  PROVE  SessionsInv'
<1> DEFINE a == tick.a
           n == tick.n
           slot == [n |-> n, out |-> FALSE, up |-> TRUE]
<1>1. /\ tick.w = w /\ tick.at = "swap" /\ GoTo("read") /\ UNCHANGED <<store, dead, reload, popped>>
  BY DEF Swap, At, store
<1>2. tick' \in Place /\ tick'.at # "swap"
  BY <1>1, GoToIs
<1>3. a \in Accounts /\ n # 0 /\ row[a] # 0 /\ pool[w] # None /\ ~pool[w][a].up
  BY <1>1 DEF SessionsInv, SwapReady
<1>4. n \in 1..MaxMint /\ tick \in Place
  BY <1>3, TickTyped DEF Place
<1>5. CASE Fault /\ UNCHANGED <<open, pool, quar, revive>>
  <2>1. faults' \in 0..MaxFaults
    BY <1>5, TickTyped, PoolSessionsParameters DEF Fault
  <2> QED BY <1>1, <1>2, <1>5, <2>1, TickTyped, GoesElsewhere
<1>6. ASSUME Connects(w, <<a, n>>), pool' = [pool EXCEPT ![w][a] = slot],
             quar' = quar \ {<<a, pool[w][a].n>>}, revive' = None, UNCHANGED faults
      PROVE  SessionsInv'
  <2> HIDE DEF n
  <2>1. slot \in Slot /\ slot.n = n /\ slot.up
    BY <1>4 DEF Slot
  <2>2. pool' = [pool EXCEPT ![w] = [pool[w] EXCEPT ![a] = slot]]
    BY <1>6
  <2> HIDE DEF slot
  <2>3. /\ open' \in [Workers -> [Session -> Nat]]
        /\ \A v \in Workers \ {w} : open'[v] = open[v]
        /\ \A s \in Session : open'[w][s] = IF s[1] = a /\ s[2] = n THEN open[w][s] + 1
                                                                   ELSE open[w][s]
    BY <1>3, <1>4, <1>6, OpensOne
  <2>4. \A s \in Session : s[1] = a => open[w][s] = 0
    BY <1>1, <1>3, ClientsOfSlot
  <2>5. \A s \in Session :
          open'[w][s] = IF s[1] = a THEN (IF slot.up /\ slot.n = s[2] THEN 1 ELSE 0)
                                    ELSE open[w][s]
    BY <2>1, <2>3, <2>4
  <2>6. /\ pool' \in [Workers -> PoolOf \cup {None}] /\ SlotsStored' /\ ClientsMatch' /\ PoppedCloses'
    <3>1. SlotBecomes(w, a, slot)
      BY <1>1, <2>2, <2>3, <2>5 DEF SlotBecomes
    <3> QED BY <1>1, <1>3, <2>1, <3>1, SlotChanges
  <2>7. SwapReady'
    BY <1>2 DEF SwapReady
  <2>8. quar' \subseteq Session
    BY <1>6, TickTyped
  <2> QED BY <1>1, <1>2, <1>6, <2>3, <2>6, <2>7, <2>8, TickTyped, WorkerKeeps
<1> QED BY <1>5, <1>6 DEF Swap

LEMMA ReadKeeps ==
  ASSUME SessionsInv, NEW w \in Workers, NEW a \in Accounts, Read(w, a)
  PROVE  SessionsInv'
<1> DEFINE old == pool[w][a]
           s0 == <<a, old.n>>
           refused == s0 \in dead
           slot == [old EXCEPT !.up = TRUE, !.out = refused]
<1>1. /\ tick.at = "read" /\ pool[w] # None /\ old.n # 0
      /\ IF old.up THEN UNCHANGED open ELSE Connects(w, s0)
      /\ pool' = [pool EXCEPT ![w][a].up = TRUE, ![w][a].out = s0 \in dead]
      /\ \/ quar' = (IF s0 \in dead THEN quar \cup {s0} ELSE quar) /\ UNCHANGED faults
         \/ Fault /\ UNCHANGED quar
      /\ UNCHANGED <<store, dead, reload, revive, popped, tick>>
  BY DEF Read, At, store
<1>2. /\ pool[w] \in PoolOf /\ pool \in [Workers -> PoolOf \cup {None}]
      /\ open \in [Workers -> [Session -> Nat]]
  BY <1>1, TickTyped
<1>3. old \in Slot /\ old.n \in 1..MaxMint
  BY <1>1, <1>2 DEF PoolOf, Slot
<1>4. slot \in Slot /\ slot.up /\ slot.n = old.n
  <2>1. refused \in BOOLEAN
    OBVIOUS
  <2> HIDE DEF refused, old
  <2> QED BY <1>3, <2>1 DEF Slot
<1>5. pool' = [pool EXCEPT ![w] = [pool[w] EXCEPT ![a] = slot]]
  BY <1>1, <1>2, <1>3 DEF PoolOf, Slot
<1>6. row[a] # 0
  BY <1>1 DEF SessionsInv, SlotsStored
<1>7. \A s \in Session : s[1] = a => open[w][s] = IF old.up /\ old.n = s[2] THEN 1 ELSE 0
  BY <1>1, ClientsOfSlot
<1> HIDE DEF old, slot
<1>8. /\ open' \in [Workers -> [Session -> Nat]]
      /\ \A v \in Workers \ {w} : open'[v] = open[v]
      /\ \A s \in Session : open'[w][s] = IF s[1] = a THEN (IF slot.up /\ slot.n = s[2] THEN 1 ELSE 0)
                                                     ELSE open[w][s]
  <2>1. CASE old.up
    BY <1>1, <1>2, <1>4, <1>7, <2>1
  <2>2. CASE ~old.up
    <3>1. /\ open' \in [Workers -> [Session -> Nat]]
          /\ \A v \in Workers \ {w} : open'[v] = open[v]
          /\ \A s \in Session : open'[w][s] = IF s[1] = a /\ s[2] = old.n THEN open[w][s] + 1
                                                                         ELSE open[w][s]
      BY <1>1, <1>3, <2>2, OpensOne
    <3> QED BY <1>4, <1>7, <2>2, <3>1
  <2> QED BY <2>1, <2>2
<1>9. /\ pool' \in [Workers -> PoolOf \cup {None}]
      /\ SlotsStored' /\ ClientsMatch' /\ PoppedCloses'
  <2>1. SlotBecomes(w, a, slot)
    BY <1>1, <1>5, <1>8 DEF SlotBecomes
  <2> QED BY <1>1, <1>4, <1>6, <2>1, SlotChanges
<1>10. SwapReady'
  BY <1>1 DEF SwapReady
<1>11. quar' \subseteq Session /\ faults' \in 0..MaxFaults
  <2>1. s0 \in Session
    BY <1>3 DEF Session
  <2>2. faults' \in 0..MaxFaults
    BY <1>1, TickTyped, PoolSessionsParameters DEF Fault
  <2> QED BY <1>1, <2>1, <2>2, TickTyped
<1> QED BY <1>1, <1>8, <1>9, <1>10, <1>11, TickTyped, WorkerKeeps

-----------------------------------------------------------------------------
(* The sessions, whole.                                                    *)

LEMMA SessionsStep == SessionsInv /\ [SessionsNext]_sessionVars => SessionsInv'
<1> SUFFICES ASSUME SessionsInv, [SessionsNext]_sessionVars PROVE SessionsInv'
  OBVIOUS
<1>1. CASE SignalsExpire \/ \E s \in Session : Revoked(s)
  BY <1>1, OutsideKeeps
<1>2. ASSUME NEW q \in Requests, Poll(q) \/ Abort(q) PROVE SessionsInv'
  <2>1. CASE Flush(q)
    BY <2>1, FlushKeeps
  <2>2. CASE SignalReload(q)
    BY <2>2, SignalReloadKeeps
  <2>3. CASE SignalRevive(q)
    BY <2>3, SignalReviveKeeps
  <2>4. CASE Commit(q)
    BY <2>4, CommitKeeps
  <2>5. CASE Abort(q)
    BY <2>5, AbortKeeps
  <2> QED BY <1>2, <2>1, <2>2, <2>3, <2>4, <2>5 DEF Poll
<1>3. ASSUME NEW q \in Requests, NEW a \in Accounts, Login(q, a) PROVE SessionsInv'
  BY <1>3, LoginKeeps
<1>4. ASSUME NEW w \in Workers, Tick(w) \/ WorkerEnds(w) PROVE SessionsInv'
  <2>1. CASE StartTick(w)
    BY <2>1, StartTickKeeps
  <2>2. CASE DropPool(w)
    BY <2>2, DropPoolKeeps
  <2>3. CASE Build(w)
    BY <2>3, BuildKeeps
  <2>4. CASE NoRevive(w)
    BY <2>4, NoReviveKeeps
  <2>5. CASE BeginRevive(w)
    BY <2>5, BeginReviveKeeps
  <2>6. CASE Swap(w)
    BY <2>6, SwapKeeps
  <2>7. CASE EndTick(w)
    BY <2>7, EndTickKeeps
  <2>8. CASE WorkerEnds(w)
    BY <2>8, WorkerEndsKeeps
  <2>9. CASE AwaitClose(w)
    BY <2>9, AwaitCloseKeeps
  <2> QED BY <1>4, <2>1, <2>2, <2>3, <2>4, <2>5, <2>6, <2>7, <2>8, <2>9 DEF Tick
<1>5. ASSUME NEW w \in Workers, NEW a \in Accounts, Read(w, a) PROVE SessionsInv'
  BY <1>5, ReadKeeps
<1>6. CASE UNCHANGED sessionVars
  BY <1>6
     DEF sessionVars, SessionsInv, SessionsTypeOK, RequestsNamed, PoolKept, Stored, Adding,
         SlotsStored, ClientsMatch, Connected, ClientsUp, SwapReady, PoppedCloses
<1> QED BY <1>1, <1>2, <1>3, <1>4, <1>5, <1>6 DEF SessionsNext

LEMMA SessionsInvariance == Spec => []SessionsInv
<1>1. Init => SessionsInv
  BY SessionsStart DEF Init
<1>2. SessionsInv /\ [Next]_vars => SessionsInv'
  BY SessionsStep, StepsOfParts
<1> QED BY <1>1, <1>2, PTL DEF Spec

\* No worker has two clients of one session, and the stored accounts keep to the
\* cap unless two were being added side by side - for any number of workers,
\* requests and accounts, and whatever signals were lost.
THEOREM SessionsAreWithinBounds == Spec => []SessionsWithinBounds
<1>1. SessionsInv => SessionsWithinBounds
  <2> SUFFICES ASSUME SessionsInv PROVE SessionsWithinBounds
    OBVIOUS
  <2>1. OneClientEach
    <3> SUFFICES ASSUME NEW w \in Workers, NEW s \in Session PROVE open[w][s] <= 1
      BY DEF OneClientEach
    <3>1. open[w][s] = IF Connected(w, s) THEN 1 ELSE 0
      BY DEF SessionsInv, ClientsMatch
    <3> QED BY <3>1
  <2>2. ASSUME ~raced PROVE Cardinality(Stored) <= PoolMax
    <3>1. IsFiniteSet(Stored \cup Adding)
      BY StoredFinite
    <3>2. Cardinality(Stored \cup Adding) <= PoolMax
      BY <2>2 DEF SessionsInv, PoolKept
    <3>3. /\ IsFiniteSet(Stored) /\ Cardinality(Stored) <= Cardinality(Stored \cup Adding)
      BY <3>1, FS_Subset
    <3>4. Cardinality(Stored) \in Nat /\ Cardinality(Stored \cup Adding) \in Nat
      BY <3>1, <3>3, FS_CardinalityType
    <3> QED BY <3>2, <3>3, <3>4, PoolSessionsParameters
  <2> QED BY <2>1, <2>2 DEF SessionsWithinBounds, CapExceededOnlyByRace
<1> QED BY <1>1, SessionsInvariance, PTL

KindKnown == kind \in Kinds

\* Type correctness of the four parts.
THEOREM CollectorsTypes == Spec => []TypeOK
<1>1. Spec => []KindKnown
  <2>1. Init => KindKnown
    BY DEF Init, KindKnown
  <2>2. KindKnown /\ [Next]_vars => KindKnown'
    BY DEF KindKnown, Next, vars, Telegram, NotTelegram, Twitter, Reddit, Logging
  <2> QED BY <2>1, <2>2, PTL DEF Spec
<1>2. KindKnown /\ SessionsInv /\ TwitterInv /\ RedditInv /\ QrInv => TypeOK
  BY DEF KindKnown, TypeOK, SessionsInv, TwitterInv, TwitterTypes, RedditInv, RedditTypes, QrInv
<1> QED BY <1>1, <1>2, SessionsInvariance, TwitterInvariance, RedditInvariance, QrInvariance, PTL

\* No session is used by two clients of a worker, and no client of a login is left
\* behind; the pool and the registry keep to their caps but for a race.
THEOREM ClientsAreAccounted == Spec => []ClientsAccounted
  BY SessionsAreWithinBounds, LoginsAreAccounted, PTL DEF ClientsAccounted
=============================================================================
