------------------------------ MODULE Collect ------------------------------
(***************************************************************************)
(* The collect tick: every watched source is read from the last-tick       *)
(* marker on, and what was read is buffered (collector/tasks.py,           *)
(* collector/telegram/reader.py).                                          *)
(*                                                                         *)
(* A tick may outlive its lock (module TaskLock), so ticks may overlap;    *)
(* each may die or be cut off by its time limit between two steps.  A post *)
(* is its source and the instant of its publication: <<s, t>>.  What       *)
(* becomes of the buffered posts is module UserBatch.                      *)
(***************************************************************************)
EXTENDS Naturals, FiniteSets

CONSTANTS
  Sources,     \* the watched sources, of all tenants
  Kinds,       \* source kinds: one collector each
  KindOf,      \* the kind of each source
  NoMarker,    \* collect:last_tick_at does not exist
  Ticks,       \* bound: collect ticks under way at once
  Lookback,    \* collect_lookback_seconds
  Retention,   \* RAW_POST_TTL_SECONDS, also the TTL of the marker
  MaxTime,     \* bound: the clock
  MaxPosts     \* bound: posts published

ASSUME CollectParameters ==
  /\ KindOf \in [Sources -> Kinds]
  /\ Lookback \in Nat \ {0}
  /\ Retention \in Nat \ {0}
  /\ MaxTime \in Nat
  /\ MaxPosts \in Nat
  /\ NoMarker \notin Nat

VARIABLES
  now,
  published,   \* the posts that exist on the platforms
  configured,  \* the kinds whose collector can be built
  marker,      \* collect:last_tick_at
  expiry,      \* when the marker expires
  tick,        \* the collect ticks
  collected,   \* history: posts that reached a buffer
  missed,      \* history: posts a tick knowingly left behind
  passed       \* history: for each kind, the latest start that was made the marker by
               \*          a tick that had skipped the kind and read another

collectVars == <<now, published, configured, marker, expiry, tick, collected, missed, passed>>
history == <<collected, missed, passed>>

Time == 0..MaxTime
Post == Sources \X Time
IdleTick == [on |-> FALSE, start |-> 0, since |-> 0, todo |-> {}, attempted |-> FALSE,
             skipped |-> {}]

CollectTypeOK ==
  /\ now \in Time
  /\ published \subseteq Post
  /\ configured \subseteq Kinds
  /\ marker \in Time \cup {NoMarker}
  /\ expiry \in Nat
  /\ tick \in [Ticks -> [on : BOOLEAN, start : Time, since : Time,
                         todo : SUBSET Sources, attempted : BOOLEAN, skipped : SUBSET Kinds]]
  /\ collected \subseteq Post
  /\ missed \subseteq Post
  /\ passed \in [Kinds -> Time]

CollectInit ==
  /\ now = 0
  /\ published = {}
  /\ configured \in SUBSET Kinds
  /\ marker = NoMarker
  /\ expiry = 0
  /\ tick = [c \in Ticks |-> IdleTick]
  /\ collected = {}
  /\ missed = {}
  /\ passed = [k \in Kinds |-> 0]

-----------------------------------------------------------------------------
(* The outside world *)

Publish(s) ==
  /\ Cardinality(published) < MaxPosts
  /\ published' = published \cup {<<s, now>>}
  /\ UNCHANGED <<now, configured, marker, expiry, tick, history>>

\* A second passes; Redis drops the marker at its expiry.
Advance ==
  /\ now < MaxTime
  /\ now' = now + 1
  /\ marker' = IF marker # NoMarker /\ expiry <= now' THEN NoMarker ELSE marker
  /\ UNCHANGED <<published, configured, expiry, tick, history>>

\* Credentials or sessions arrive for a kind.
Configure(k) ==
  /\ k \notin configured
  /\ configured' = configured \cup {k}
  /\ UNCHANGED <<now, published, marker, expiry, tick, history>>

-----------------------------------------------------------------------------
(* The collect tick *)

Later(a, b) == IF a < b THEN b ELSE a
Ago(d) == IF now < d THEN 0 ELSE now - d

\* The lower bound of the tick's reads: the marker, no older than the retention
\* window, or a recent window when there is no marker.
ResolveSince ==
  IF marker = NoMarker THEN Ago(Lookback) ELSE Later(marker, Ago(Retention))

Between(from, to) == {p \in published : from <= p[2] /\ p[2] < to}
Of(s, posts) == {p \in posts : p[1] = s}

\* collect_watched_sources, up to the loop over the kinds.  A window that does
\* not begin at the marker leaves older posts behind.
TickStart(c) ==
  /\ ~tick[c].on
  /\ tick' = [tick EXCEPT ![c] =
       [on |-> TRUE, start |-> now, since |-> ResolveSince, todo |-> Sources,
        attempted |-> FALSE, skipped |-> {}]]
  /\ missed' = IF marker = ResolveSince THEN missed
               ELSE missed \cup Between(0, ResolveSince)
  /\ UNCHANGED <<now, published, configured, marker, expiry, collected, passed>>

\* No collector, or PoolConfigError: warn once and go on with the other kinds.
SkipKind(c, k) ==
  /\ tick[c].on
  /\ k \notin configured
  /\ \E s \in tick[c].todo : KindOf[s] = k
  /\ tick' = [tick EXCEPT ![c].todo = {s \in @ : KindOf[s] # k},
                           ![c].skipped = @ \cup {k}]
  /\ UNCHANGED <<now, published, configured, marker, expiry, history>>

Buffer(posts) == collected' = collected \cup posts

CanRead(c, s) ==
  /\ tick[c].on
  /\ s \in tick[c].todo
  /\ KindOf[s] \in configured

DoneWith(c, s) ==
  tick' = [tick EXCEPT ![c].todo = @ \ {s}, ![c].attempted = TRUE]

\* A plausible bug: what was published at the instant of the marker is not read.
ReadAfterOnly(c, s) ==
  /\ CanRead(c, s)
  /\ Buffer(Of(s, Between(tick[c].since + 1, MaxTime + 1)))
  /\ DoneWith(c, s)
  /\ UNCHANGED <<now, published, configured, marker, expiry, missed, passed>>

\* read([ref], since): newest first down to the first post older than since.
Read(c, s) ==
  /\ CanRead(c, s)
  /\ Buffer(Of(s, Between(tick[c].since, MaxTime + 1)))
  /\ DoneWith(c, s)
  /\ UNCHANGED <<now, published, configured, marker, expiry, missed, passed>>

\* The read ends early with the posts down to some instant buffered: all accounts
\* flooded, an exhausted pool, an unavailable source (the reader turns any other
\* exception, the soft time limit too, into this one), the message limit, or a
\* ref that is being skipped.  The tick goes on with the next ref.
ReadCut(c, s) ==
  /\ CanRead(c, s)
  /\ \E cut \in tick[c].since..(now + 1) :
       /\ Buffer(Of(s, Between(cut, MaxTime + 1)))
       /\ missed' = missed \cup Of(s, Between(tick[c].since, cut))
  /\ DoneWith(c, s)
  /\ UNCHANGED <<now, published, configured, marker, expiry, passed>>

\* What a tick that read some kind notes of those it skipped.
PassedBy(c) == [k \in Kinds |-> IF k \in tick[c].skipped THEN Later(passed[k], tick[c].start)
                                                         ELSE passed[k]]

\* A plausible bug: the marker becomes the end of the tick.
FinishAtEnd(c) ==
  /\ tick[c].on
  /\ tick[c].todo = {}
  /\ IF tick[c].attempted
       THEN marker' = now /\ expiry' = now + Retention /\ passed' = PassedBy(c)
       ELSE UNCHANGED <<marker, expiry, passed>>
  /\ tick' = [tick EXCEPT ![c] = IdleTick]
  /\ UNCHANGED <<now, published, configured, collected, missed>>

\* The marker becomes the START of the tick, if any collector ran.
Finish(c) ==
  /\ tick[c].on
  /\ tick[c].todo = {}
  /\ IF tick[c].attempted
       THEN marker' = tick[c].start /\ expiry' = now + Retention /\ passed' = PassedBy(c)
       ELSE UNCHANGED <<marker, expiry, passed>>
  /\ tick' = [tick EXCEPT ![c] = IdleTick]
  /\ UNCHANGED <<now, published, configured, collected, missed>>

\* The tick ends before its marker is written -- a crash, the hard limit, the
\* soft limit outside a read, a buffer error -- with part of a ref buffered.
TickDies(c) ==
  /\ tick[c].on
  /\ \/ UNCHANGED collected
     \/ \E s \in tick[c].todo, cut \in tick[c].since..now :
          /\ CanRead(c, s)
          /\ Buffer(Of(s, Between(cut, MaxTime + 1)))
  /\ tick' = [tick EXCEPT ![c] = IdleTick]
  /\ UNCHANGED <<now, published, configured, marker, expiry, missed, passed>>

-----------------------------------------------------------------------------
TickStep(c) ==
  \/ TickStart(c) \/ Finish(c) \/ TickDies(c)
  \/ \E s \in Sources : Read(c, s) \/ ReadCut(c, s)
  \/ \E k \in Kinds : SkipKind(c, k)

CollectNext ==
  \/ Advance
  \/ \E s \in Sources : Publish(s)
  \/ \E k \in Kinds : Configure(k)
  \/ \E c \in Ticks : TickStep(c)

\* The beat enqueues tick after tick, and a tick that does not die goes on.
CollectFairness == \A c \in Ticks : WF_collectVars(TickStep(c))

CollectSpec == CollectInit /\ [][CollectNext]_collectVars /\ CollectFairness

-----------------------------------------------------------------------------
\* It reached a buffer, or a tick that left it behind said so (a failed read, a
\* missing marker), or a tick with no collector for its kind went past it.
Settled(p) == p \in collected \cup missed \/ p[2] < passed[KindOf[p[1]]]

\* Whatever the order in which overlapping, cut and dying ticks read and write
\* the marker, no post older than the marker was silently skipped, of any kind
\* whose collector no finished tick lacked while it read another kind.  The marker
\* is "this tick's START time" for this reason, and is left alone by a tick that
\* has read nothing.
NoSilentGap ==
  marker # NoMarker => \A p \in published : p[2] < marker => Settled(p)

\* The same of the sources whose credentials have arrived (collector/tasks.py: "an
\* unconfigured-pool no-op must not silently open a data gap for when credentials
\* arrive").  False with two kinds: the marker is common to both.
NoGapWhenCredentialsArrive ==
  marker # NoMarker =>
    \A p \in published :
      p[2] < marker /\ KindOf[p[1]] \in configured => p \in collected \cup missed

\* From some point on no tick ends before it has dealt with all its sources.
TicksRead ==
  <>[][\A c \in Ticks :
         tick[c].on /\ ~tick'[c].on => tick[c].todo = {}]_tick

\* As long as ticks do not die for ever, no post of a configured source stays
\* unread: it is buffered, or a tick knowingly leaves it behind, or one that found
\* the source not yet configured has gone past it.
EveryPostSettles ==
  TicksRead =>
    \A s \in Sources, t \in Time :
      <<s, t>> \in published /\ KindOf[s] \in configured
        ~> Settled(<<s, t>>)
=============================================================================
