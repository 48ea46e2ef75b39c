------------------------ MODULE IntakeDeliveryProofs ------------------------
(***************************************************************************)
(* Proofs about the two ends of the way from a post to an alert.  The      *)
(* collect tick and the account pool it reads through: for any number of   *)
(* sources, posts, overlapping ticks, accounts, channels and coroutines,   *)
(* and for any clock.  The delivery: for any number of alerts, channels,   *)
(* dispatch messages, retries and faults.                                  *)
(***************************************************************************)
EXTENDS Collect, AccountPool, AlertDelivery, TLAPS

(***************************************************************************)
(* The tick.                                                               *)
(***************************************************************************)

\* The lower bound of a tick is an instant of the clock.
LEMMA SinceInTime ==
  ASSUME CollectTypeOK
  PROVE  ResolveSince \in Time
BY CollectParameters DEF CollectTypeOK, ResolveSince, Ago, Later, Time

\* The state stays within its types.
LEMMA CollectTypeStep == CollectTypeOK /\ [CollectNext]_collectVars => CollectTypeOK'
<1> SUFFICES ASSUME CollectTypeOK, [CollectNext]_collectVars PROVE CollectTypeOK'
  OBVIOUS
<1> USE CollectParameters
<1>1. CASE Advance
  BY <1>1 DEF CollectTypeOK, Advance, Time, Post, history
<1>2. ASSUME NEW s \in Sources, Publish(s) PROVE CollectTypeOK'
  BY <1>2 DEF CollectTypeOK, Publish, Time, Post, history
<1>3. ASSUME NEW k \in Kinds, Configure(k) PROVE CollectTypeOK'
  BY <1>3 DEF CollectTypeOK, Configure, history
<1>4. ASSUME NEW c \in Ticks, TickStart(c) PROVE CollectTypeOK'
  <2>1. ResolveSince \in Time
    BY SinceInTime
  <2>2. Between(0, ResolveSince) \subseteq Post
    BY DEF Between, CollectTypeOK
  <2> QED
    BY <1>4, <2>1, <2>2 DEF CollectTypeOK, TickStart
<1>5. ASSUME NEW c \in Ticks, Finish(c) PROVE CollectTypeOK'
  <2>1. PassedBy(c) \in [Kinds -> Time]
    BY DEF CollectTypeOK, PassedBy, Later
  <2>2. passed' \in [Kinds -> Time] /\ UNCHANGED <<now, published, configured, collected, missed>>
    BY <1>5, <2>1 DEF CollectTypeOK, Finish
  <2>3. /\ marker' \in Time \cup {NoMarker} /\ expiry' \in Nat
        /\ tick' = [tick EXCEPT ![c] = IdleTick]
    BY <1>5 DEF CollectTypeOK, Finish, Time
  <2>4. IdleTick \in [on : BOOLEAN, start : Time, since : Time,
                      todo : SUBSET Sources, attempted : BOOLEAN, skipped : SUBSET Kinds]
    BY DEF IdleTick, Time
  <2> QED
    BY <2>2, <2>3, <2>4 DEF CollectTypeOK
<1>6. ASSUME NEW c \in Ticks, TickDies(c) PROVE CollectTypeOK'
  BY <1>6 DEF CollectTypeOK, TickDies, IdleTick, Time, Buffer, Of, Between
<1>7. ASSUME NEW c \in Ticks, NEW s \in Sources, Read(c, s) PROVE CollectTypeOK'
  BY <1>7 DEF CollectTypeOK, Read, CanRead, DoneWith, Buffer, Of, Between
<1>8. ASSUME NEW c \in Ticks, NEW s \in Sources, ReadCut(c, s) PROVE CollectTypeOK'
  BY <1>8 DEF CollectTypeOK, ReadCut, CanRead, DoneWith, Buffer, Of, Between
<1>9. ASSUME NEW c \in Ticks, NEW k \in Kinds, SkipKind(c, k) PROVE CollectTypeOK'
  BY <1>9 DEF CollectTypeOK, SkipKind, history
<1>10. CASE UNCHANGED collectVars
  BY <1>10 DEF CollectTypeOK, collectVars
<1> QED
  BY <1>1, <1>2, <1>3, <1>4, <1>5, <1>6, <1>7, <1>8, <1>9, <1>10
     DEF CollectNext, TickStep

\* Every reachable state is well typed.
THEOREM CollectTypeCorrect == CollectSpec => []CollectTypeOK
<1>1. CollectInit => CollectTypeOK
  BY CollectParameters DEF CollectInit, CollectTypeOK, IdleTick, Time
<1> QED
  BY <1>1, CollectTypeStep, PTL DEF CollectSpec

-----------------------------------------------------------------------------
(* The marker.  What makes NoSilentGap inductive is what a tick knows while *)
(* it runs: everything before its lower bound has settled, and so has       *)
(* everything before its start in the sources it has done, but for those of *)
(* the kinds it has skipped, which it will have passed if it has read       *)
(* others.                                                                  *)

SettledTo(T) == \A p \in published : p[2] < T => Settled(p)

PastOnly == \A p \in published : p[2] <= now

MarkerInv == marker # NoMarker => marker <= now /\ SettledTo(marker)

TickInv(c) ==
  tick[c].on =>
    /\ tick[c].since <= tick[c].start
    /\ tick[c].start <= now
    /\ SettledTo(tick[c].since)
    /\ \A p \in published :
         p[1] \notin tick[c].todo /\ p[2] < tick[c].start
           => Settled(p) \/ KindOf[p[1]] \in tick[c].skipped

CollectIInv == CollectTypeOK /\ PastOnly /\ MarkerInv /\ \A c \in Ticks : TickInv(c)

\* What has settled stays so.
LEMMA SettledStays ==
  ASSUME CollectTypeOK, CollectTypeOK', collected \subseteq collected', missed \subseteq missed',
         \A k \in Kinds : passed[k] <= passed'[k], NEW p \in published, Settled(p)
  PROVE  Settled(p)'
<1>1. p[2] \in Nat /\ KindOf[p[1]] \in Kinds
  BY CollectParameters DEF CollectTypeOK, Post, Time
<1>2. passed[KindOf[p[1]]] \in Nat /\ passed'[KindOf[p[1]]] \in Nat
  BY <1>1 DEF CollectTypeOK, Time
<1> QED BY <1>1, <1>2 DEF Settled

\* A step that publishes nothing and only adds to the settled posts keeps what is
\* known of a tick it leaves alone.
LEMMA OtherTicksKept ==
  ASSUME CollectIInv, CollectTypeOK', NEW c \in Ticks,
         tick'[c] = tick[c], published' = published, now <= now', now' \in Nat,
         collected \subseteq collected', missed \subseteq missed',
         \A k \in Kinds : passed[k] <= passed'[k]
  PROVE  TickInv(c)'
<1>1. \A p \in published : Settled(p) => Settled(p)'
  BY SettledStays DEF CollectIInv
<1> QED BY <1>1 DEF CollectIInv, TickInv, SettledTo, CollectTypeOK, Time

\* The same of a marker.
LEMMA MarkerKept ==
  ASSUME CollectIInv, CollectTypeOK', marker' \in {marker, NoMarker}, published' = published,
         now <= now', now' \in Nat,
         collected \subseteq collected', missed \subseteq missed',
         \A k \in Kinds : passed[k] <= passed'[k]
  PROVE  MarkerInv'
<1>1. \A p \in published : Settled(p) => Settled(p)'
  BY SettledStays DEF CollectIInv
<1> QED BY <1>1 DEF CollectIInv, MarkerInv, SettledTo, CollectTypeOK, Time

\* The invariant holds initially.
LEMMA CollectInitIInv == CollectInit => CollectIInv
<1> SUFFICES ASSUME CollectInit PROVE CollectIInv
  OBVIOUS
<1>1. CollectTypeOK
  BY CollectParameters DEF CollectInit, CollectTypeOK, IdleTick, Time
<1> QED
  BY <1>1 DEF CollectInit, CollectIInv, PastOnly, MarkerInv, TickInv, IdleTick

\* A published post is now's.
LEMMA PublishKeeps ==
  ASSUME CollectIInv, NEW s \in Sources, Publish(s)
  PROVE  PastOnly' /\ MarkerInv' /\ \A c \in Ticks : TickInv(c)'
<1>1. now \in Nat /\ (marker # NoMarker => marker \in Nat)
  BY DEF CollectIInv, CollectTypeOK, Time
<1>2. published' = published \cup {<<s, now>>} /\ <<s, now>>[2] = now /\ <<s, now>>[1] = s
  BY DEF Publish
<1>3. UNCHANGED <<now, configured, marker, tick, collected, missed, passed>>
  BY DEF Publish, history
<1>4. \A p : Settled(p)' <=> Settled(p)
  BY <1>3 DEF Settled
<1>5. PastOnly'
  BY <1>1, <1>2, <1>3 DEF CollectIInv, PastOnly
<1>6. MarkerInv'
  BY <1>1, <1>2, <1>3, <1>4 DEF CollectIInv, MarkerInv, SettledTo
<1>7. ASSUME NEW c \in Ticks, tick[c].on PROVE TickInv(c)'
  <2>1. /\ tick[c].since \in Nat /\ tick[c].start \in Nat
        /\ tick[c].since <= tick[c].start /\ tick[c].start <= now
        /\ SettledTo(tick[c].since)
    BY <1>7 DEF CollectIInv, CollectTypeOK, TickInv, Time
  <2>2. SettledTo(tick[c].since)'
    BY <2>1, <1>1, <1>2, <1>3, <1>4 DEF SettledTo
  <2>3. \A p \in published' :
          p[1] \notin tick[c].todo /\ p[2] < tick[c].start
            => Settled(p) \/ KindOf[p[1]] \in tick[c].skipped
    BY <2>1, <1>1, <1>2, <1>7 DEF CollectIInv, TickInv
  <2> QED
    BY <2>1, <2>2, <2>3, <1>3, <1>4, <1>7 DEF TickInv
<1>8. \A c \in Ticks : ~tick[c].on => TickInv(c)'
  BY <1>3 DEF TickInv
<1> QED
  BY <1>5, <1>6, <1>7, <1>8

\* A tick starts where everything has settled.
LEMMA TickStartKeeps ==
  ASSUME CollectIInv, NEW c \in Ticks, TickStart(c)
  PROVE  TickInv(c)'
<1>1. CollectTypeOK /\ ResolveSince \in Time /\ now \in Nat
  BY SinceInTime DEF CollectIInv, CollectTypeOK, Time
<1>2. ResolveSince <= now
  BY <1>1, CollectParameters DEF CollectIInv, CollectTypeOK, MarkerInv, ResolveSince, Ago, Later, Time
<1>3. tick'[c] = [on |-> TRUE, start |-> now, since |-> ResolveSince,
                  todo |-> Sources, attempted |-> FALSE, skipped |-> {}]
  BY <1>1 DEF TickStart, CollectTypeOK
<1>4. UNCHANGED <<now, published, collected, passed>> /\ missed \subseteq missed'
  BY DEF TickStart
<1>5. ASSUME NEW p \in published, p[2] < ResolveSince PROVE Settled(p)'
  <2>1. CASE marker = ResolveSince
    <3>1. marker # NoMarker
      BY <2>1, <1>1, CollectParameters DEF Time
    <3>2. Settled(p)
      BY <1>5, <2>1, <3>1 DEF CollectIInv, MarkerInv, SettledTo
    <3> QED
      BY <1>4, <3>2 DEF Settled
  <2>2. CASE marker # ResolveSince
    <3>1. missed' = missed \cup Between(0, ResolveSince)
      BY <2>2 DEF TickStart
    <3>2. p[2] \in Nat
      BY <1>1 DEF CollectTypeOK, Post, Time
    <3> QED
      BY <3>1, <3>2, <1>1, <1>5 DEF Between, Time, Settled
  <2> QED
    BY <2>1, <2>2
<1>6. /\ tick'[c].start = now /\ tick'[c].since = ResolveSince /\ tick'[c].todo = Sources
  BY <1>3
<1>7. SettledTo(tick[c].since)'
  BY <1>4, <1>5, <1>6 DEF SettledTo
<1>8. \A p \in published : p[1] \in Sources
  BY <1>1 DEF CollectTypeOK, Post
<1> QED
  BY <1>1, <1>2, <1>4, <1>6, <1>7, <1>8 DEF TickInv, Time

\* A source that was read, in full or in part, is done.
LEMMA ReadKeeps ==
  ASSUME CollectIInv, CollectTypeOK', NEW c \in Ticks, NEW s \in Sources, CanRead(c, s),
         DoneWith(c, s), UNCHANGED <<now, published, passed>>,
         collected \subseteq collected', missed \subseteq missed',
         \A p \in published : p[1] = s /\ tick[c].since <= p[2]
                              => p \in collected' \cup missed'
  PROVE  TickInv(c)'
<1>1. tick'[c] = [tick[c] EXCEPT !.todo = tick[c].todo \ {s}, !.attempted = TRUE]
  BY DEF DoneWith, CollectIInv, CollectTypeOK
<1>2. /\ tick[c].on
      /\ tick[c] \in [on : BOOLEAN, start : Time, since : Time, todo : SUBSET Sources,
                      attempted : BOOLEAN, skipped : SUBSET Kinds]
  BY DEF CanRead, CollectIInv, CollectTypeOK
<1>3. /\ tick'[c].on /\ tick'[c].start = tick[c].start /\ tick'[c].since = tick[c].since
      /\ tick'[c].todo = tick[c].todo \ {s} /\ tick'[c].skipped = tick[c].skipped
  BY <1>1, <1>2
<1>4. \A p \in published : Settled(p) => Settled(p)'
  BY DEF Settled
<1>5. \A p \in published : p[1] \in Sources /\ p[2] \in Nat
  BY DEF CollectIInv, CollectTypeOK, Post, Time
<1>6. TickInv(c) /\ tick[c].since \in Nat
  BY <1>2 DEF CollectIInv, Time
<1>7. ASSUME NEW p \in published, p[1] \notin tick[c].todo \ {s}, p[2] < tick[c].start
      PROVE  Settled(p)' \/ KindOf[p[1]] \in tick[c].skipped
  <2>1. CASE p[1] = s
    <3>1. CASE tick[c].since <= p[2]
      BY <2>1, <3>1 DEF Settled
    <3>2. CASE p[2] < tick[c].since
      BY <3>2, <1>2, <1>4, <1>6 DEF TickInv, SettledTo
    <3> QED
      BY <3>1, <3>2, <1>5, <1>6
  <2>2. CASE p[1] # s
    <3>1. p[1] \notin tick[c].todo
      BY <2>2, <1>7
    <3> QED
      BY <3>1, <1>2, <1>4, <1>6, <1>7 DEF TickInv
  <2> QED
    BY <2>1, <2>2
<1> QED
  BY <1>2, <1>3, <1>4, <1>6, <1>7 DEF TickInv, SettledTo

\* Every step preserves the invariant.
LEMMA CollectNextIInv == CollectIInv /\ [CollectNext]_collectVars => CollectIInv'
<1> SUFFICES ASSUME CollectIInv, [CollectNext]_collectVars PROVE CollectIInv'
  OBVIOUS
<1>0. CollectTypeOK /\ CollectTypeOK'
  BY CollectTypeStep DEF CollectIInv
<1>n. now \in Nat /\ now' \in Nat
  BY <1>0 DEF CollectTypeOK, Time
<1>t. \A d \in Ticks : tick[d] \in [on : BOOLEAN, start : Time, since : Time,
                                    todo : SUBSET Sources, attempted : BOOLEAN,
                                    skipped : SUBSET Kinds]
  BY <1>0 DEF CollectTypeOK
<1>p. \A k \in Kinds : passed[k] \in Nat /\ passed[k] <= passed[k]
  BY <1>0 DEF CollectTypeOK, Time
<1> DEFINE Rest == PastOnly' /\ MarkerInv' /\ \A d \in Ticks : TickInv(d)'
<1>1. ASSUME Advance PROVE Rest
  <2>1. /\ now' = now + 1 /\ marker' \in {marker, NoMarker}
        /\ UNCHANGED <<published, configured, tick, collected, missed, passed>>
    BY <1>1 DEF Advance, history
  <2>2. PastOnly'
    <3>1. \A p \in published : p[2] \in Nat
      BY <1>0 DEF CollectTypeOK, Post, Time
    <3> QED
      BY <2>1, <3>1, <1>0, <1>n, <1>p DEF CollectIInv, PastOnly
  <2>3. MarkerInv'
    BY <2>1, <1>0, <1>n, <1>p, MarkerKept
  <2>4. \A d \in Ticks : TickInv(d)'
    BY <2>1, <1>0, <1>n, <1>p, OtherTicksKept
  <2> QED
    BY <2>2, <2>3, <2>4
<1>2. ASSUME NEW s \in Sources, Publish(s) PROVE Rest
  BY <1>2, PublishKeeps
<1>3. ASSUME NEW k \in Kinds, Configure(k) PROVE Rest
  <2>1. /\ configured \subseteq configured'
        /\ UNCHANGED <<now, published, marker, tick, collected, missed, passed>>
    BY <1>3 DEF Configure, history
  <2> QED
    BY <2>1, <1>0, <1>n, <1>p, MarkerKept, OtherTicksKept DEF CollectIInv, PastOnly
<1>4. ASSUME NEW c \in Ticks, TickStart(c) PROVE Rest
  <2>1. /\ UNCHANGED <<now, published, configured, marker, collected, passed>>
        /\ missed \subseteq missed'
        /\ \A d \in Ticks \ {c} : tick'[d] = tick[d]
    BY <1>4, <1>0 DEF TickStart, CollectTypeOK
  <2> QED
    BY <2>1, <1>4, <1>0, <1>n, <1>p, TickStartKeeps, MarkerKept, OtherTicksKept DEF CollectIInv, PastOnly
<1>5. ASSUME NEW c \in Ticks, Finish(c) PROVE Rest
  <2>1. /\ UNCHANGED <<now, published, configured, collected, missed>>
        /\ tick'[c] = IdleTick
        /\ \A d \in Ticks \ {c} : tick'[d] = tick[d]
    BY <1>5, <1>0 DEF Finish, CollectTypeOK
  <2>2. tick[c].on /\ tick[c].todo = {} /\ tick[c].start \in Nat
    BY <1>5, <1>t DEF Finish, Time
  <2>3. \A k \in Kinds : PassedBy(c)[k] = IF k \in tick[c].skipped THEN Later(passed[k], tick[c].start)
                                                                   ELSE passed[k]
    BY DEF PassedBy
  <2>4. \A k \in Kinds : passed[k] <= passed'[k]
    <3>1. \A k \in Kinds : passed[k] <= PassedBy(c)[k]
      BY <1>p, <2>2, <2>3 DEF Later
    <3> QED
      BY <1>5, <1>p, <3>1 DEF Finish
  <2>5. MarkerInv'
    <3>1. CASE tick[c].attempted
      <4>1. marker' = tick[c].start /\ passed' = PassedBy(c) /\ tick[c].start <= now
        BY <1>5, <2>2, <3>1 DEF Finish, CollectIInv, TickInv
      <4>2. ASSUME NEW p \in published, p[2] < tick[c].start PROVE Settled(p)'
        <5>1. Settled(p) \/ KindOf[p[1]] \in tick[c].skipped
          BY <2>2, <4>2 DEF CollectIInv, TickInv
        <5>2. Settled(p) => Settled(p)'
          BY <1>0, <2>1, <2>4, SettledStays
        <5>3. p[2] \in Nat /\ KindOf[p[1]] \in Kinds
          BY <1>0, CollectParameters DEF CollectTypeOK, Post, Time
        <5>4. KindOf[p[1]] \in tick[c].skipped => p[2] < passed'[KindOf[p[1]]]
          BY <1>p, <2>2, <2>3, <4>1, <4>2, <5>3 DEF Later
        <5> QED
          BY <5>1, <5>2, <5>4 DEF Settled
      <4> QED
        BY <4>1, <4>2, <2>1 DEF MarkerInv, SettledTo
    <3>2. CASE ~tick[c].attempted
      BY <1>5, <3>2, <2>1, <2>4, <1>0, <1>n, MarkerKept DEF Finish
    <3> QED
      BY <3>1, <3>2
  <2>6. TickInv(c)'
    BY <2>1 DEF TickInv, IdleTick
  <2> QED
    BY <2>1, <2>4, <2>5, <2>6, <1>0, <1>n, OtherTicksKept DEF CollectIInv, PastOnly
<1>6. ASSUME NEW c \in Ticks, TickDies(c) PROVE Rest
  <2>1. /\ UNCHANGED <<now, published, configured, marker, missed, passed>>
        /\ collected \subseteq collected'
        /\ tick'[c] = IdleTick
        /\ \A d \in Ticks \ {c} : tick'[d] = tick[d]
    BY <1>6, <1>0 DEF TickDies, CollectTypeOK, Buffer
  <2>2. TickInv(c)'
    BY <2>1 DEF TickInv, IdleTick
  <2> QED
    BY <2>1, <2>2, <1>0, <1>n, <1>p, MarkerKept, OtherTicksKept DEF CollectIInv, PastOnly
<1>7. ASSUME NEW c \in Ticks, NEW s \in Sources, Read(c, s) \/ ReadCut(c, s) PROVE Rest
  <2>1. /\ CanRead(c, s) /\ DoneWith(c, s)
        /\ UNCHANGED <<now, published, configured, marker, passed>>
        /\ collected \subseteq collected' /\ missed \subseteq missed'
        /\ \A d \in Ticks \ {c} : tick'[d] = tick[d]
    BY <1>7, <1>0 DEF Read, ReadCut, DoneWith, Buffer, CollectTypeOK
  <2>2. \A p \in published : p[1] = s /\ tick[c].since <= p[2]
                              => p \in collected' \cup missed'
    <3>1. \A p \in published : p[2] \in Nat /\ p[2] < MaxTime + 1
      BY <1>0, CollectParameters DEF CollectTypeOK, Post, Time
    <3>2. tick[c].since \in Nat
      BY <1>t DEF Time
    <3>3. CASE Read(c, s)
      BY <3>1, <3>3 DEF Read, Buffer, Of, Between
    <3>4. CASE ReadCut(c, s)
      <4>1. PICK cut \in tick[c].since..(now + 1) :
              /\ Buffer(Of(s, Between(cut, MaxTime + 1)))
              /\ missed' = missed \cup Of(s, Between(tick[c].since, cut))
        BY <3>4 DEF ReadCut
      <4>2. cut \in Nat
        BY <4>1, <3>2, <1>n
      <4> QED
        BY <4>1, <4>2, <3>1, <3>2 DEF Buffer, Of, Between
    <3> QED
      BY <1>7, <3>3, <3>4
  <2>3. TickInv(c)'
    BY <1>0, <2>1, <2>2, ReadKeeps
  <2> QED
    BY <2>1, <2>3, <1>0, <1>n, <1>p, MarkerKept, OtherTicksKept DEF CollectIInv, PastOnly
<1>8. ASSUME NEW c \in Ticks, NEW k \in Kinds, SkipKind(c, k) PROVE Rest
  <2>1. /\ UNCHANGED <<now, published, configured, marker, collected, missed, passed>>
        /\ tick'[c] = [tick[c] EXCEPT !.todo = {s \in tick[c].todo : KindOf[s] # k},
                                      !.skipped = tick[c].skipped \cup {k}]
        /\ \A d \in Ticks \ {c} : tick'[d] = tick[d]
    BY <1>8, <1>0 DEF SkipKind, CollectTypeOK, history
  <2>2. /\ tick'[c].since = tick[c].since /\ tick'[c].start = tick[c].start /\ tick[c].on
        /\ tick'[c].todo = {s \in tick[c].todo : KindOf[s] # k}
        /\ tick'[c].skipped = tick[c].skipped \cup {k}
    <3>1. PICK T, K : T = {s \in tick[c].todo : KindOf[s] # k} /\ K = tick[c].skipped \cup {k}
      OBVIOUS
    <3>2. tick'[c] = [tick[c] EXCEPT !.todo = T, !.skipped = K]
      BY <2>1, <3>1
    <3>3. tick'[c] = [on |-> tick[c].on, start |-> tick[c].start, since |-> tick[c].since,
                      todo |-> T, attempted |-> tick[c].attempted, skipped |-> K]
      BY <3>2, <1>t
    <3>4. tick[c].on
      BY <1>8 DEF SkipKind
    <3> QED
      BY <3>1, <3>3, <3>4
  <2>3. \A p \in published : Settled(p)' <=> Settled(p)
    BY <2>1 DEF Settled
  <2>4. TickInv(c)'
    BY <2>1, <2>2, <2>3 DEF CollectIInv, TickInv, SettledTo
  <2> QED
    BY <2>1, <2>4, <1>0, <1>n, <1>p, MarkerKept, OtherTicksKept DEF CollectIInv, PastOnly
<1>9. ASSUME UNCHANGED collectVars PROVE Rest
  <2>1. UNCHANGED <<now, published, configured, marker, tick, collected, missed, passed>>
    BY <1>9 DEF collectVars
  <2> QED
    BY <2>1, <1>0, <1>n, <1>p, MarkerKept, OtherTicksKept DEF CollectIInv, PastOnly
<1> QED
  BY <1>0, <1>1, <1>2, <1>3, <1>4, <1>5, <1>6, <1>7, <1>8, <1>9
     DEF CollectIInv, CollectNext, TickStep

\* No post older than the marker was silently skipped, however ticks overlap, are cut
\* short or die, whatever kinds the sources are of and whenever their collectors come;
\* a kind is passed only by a finished tick that had no collector for it and read
\* another (_resolve_since, collect_watched_sources).
THEOREM MarkerIsSafe == CollectSpec => []NoSilentGap
<1>1. CollectInit /\ [][CollectNext]_collectVars => []CollectIInv
  BY CollectInitIInv, CollectNextIInv, PTL
<1>2. CollectIInv => NoSilentGap
  BY DEF CollectIInv, MarkerInv, SettledTo, NoSilentGap
<1> QED
  BY <1>1, <1>2, PTL DEF CollectSpec

-----------------------------------------------------------------------------

(***************************************************************************)
(* The pool.  As long as no tick has been cut, only the coroutine of the   *)
(* running tick is alive, and while it asks an account the cursor stays on *)
(* it: what is booked under the cursor is what the account answered.       *)
(***************************************************************************)

\* One coroutine, the tick's, and the cursor on the account it asks, which no
\* book has resting.
OneReader ==
  cuts = 0 =>
    /\ slot = told
    /\ \A c \in Coroutines : read[c].at # "none" => current = c
    /\ \A c \in Coroutines : read[c].at \in Asking =>
         /\ read[c].of = index
         /\ slot[index].cool = 0
         /\ ~slot[index].out

\* Who waits or asks does so for a channel of the list.
ForARef ==
  \A c \in Coroutines : read[c].at \in Asking \cup {"wait"} => read[c].ref \in Refs

PoolIInv == PoolTypeOK /\ OneReader /\ ForARef

-----------------------------------------------------------------------------

LEMMA LeastNat ==
  ASSUME NEW a \in Nat, NEW b \in Nat
  PROVE  Least(a, b) \in 0..b
BY DEF Least

LEMMA LessNat ==
  ASSUME NEW t \in Nat
  PROVE  Less(t) \in Nat /\ Less(t) <= t
BY DEF Less

LEMMA RotateInPool ==
  ASSUME NEW i \in Slots
  PROVE  (i + 1) % Size \in Slots
BY AccountPoolParameters DEF Slots

\* An answer leaves an account an account.
LEMMA BookedIsAccount ==
  ASSUME NEW a \in Account
  PROVE  /\ \A h \in Hints : Flooded(a, h) \in Account
         /\ Quarantined(a) \in Account
         /\ FailedOnce(a) \in Account
         /\ ReadCleanly(a) \in Account
<1>1. \A h \in Hints : Flooded(a, h) \in Account
  BY AccountPoolParameters DEF Account, Flooded
<1>2. Quarantined(a) \in Account
  BY DEF Account, Quarantined
<1>3. FailedOnce(a) \in Account
  BY AccountPoolParameters DEF Account, FailedOnce, Least
<1>4. ReadCleanly(a) \in Account
  BY AccountPoolParameters DEF Account, ReadCleanly
<1> QED BY <1>1, <1>2, <1>3, <1>4

-----------------------------------------------------------------------------

LEMMA PoolInitIInv == PoolInit => PoolIInv
  BY AccountPoolParameters
     DEF PoolInit, PoolIInv, PoolTypeOK, OneReader, ForARef, Slots, Refs, Account, Fresh, Reading,
         NoRead, Places, Asking

\* Going on to a place that is no request keeps the invariant, whether the
\* books stay as they are or an answer has just been booked.
LEMMA LeaveIInv ==
  ASSUME PoolIInv, NEW c \in Coroutines, read[c].at # "none",
         NEW place \in {"turn", "wait"}, NEW ref \in 1..(LastRef + 1), NEW t \in Nat,
         place = "wait" => ref \in Refs,
         Leave(c, place, ref, t),
         index' \in Slots,
         slot' \in [Slots -> Account], told' \in [Slots -> Account],
         cuts = 0 => slot' = told',
         refFails' \in [Refs -> 0..(Threshold + 1)], refSkip' \in [Refs -> Nat],
         trouble' \in 0..MaxTrouble, UNCHANGED <<current, cuts>>
  PROVE  PoolIInv'
<1> USE DEF PoolIInv
<1>1. \A d \in Coroutines \ {c} : read'[d] = read[d]
  BY DEF Leave, PoolTypeOK
<1>2. read'[c] = [at |-> place, ref |-> ref, of |-> 0, left |-> t]
  BY DEF Leave, PoolTypeOK
<1>3. PoolTypeOK'
  <2>1. 0 \in Slots
    BY AccountPoolParameters DEF Slots
  <2>2. [at |-> place, ref |-> ref, of |-> 0, left |-> t] \in Reading
    BY <2>1 DEF Reading, Places
  <2>3. read' \in [Coroutines -> Reading]
    BY <2>2 DEF Leave, PoolTypeOK
  <2> QED BY <2>3 DEF PoolTypeOK
<1>4. OneReader'
  <2> SUFFICES ASSUME cuts = 0 PROVE OneReader'
    BY DEF OneReader
  <2>1. \A d \in Coroutines : read[d].at # "none" => d = c
    BY DEF OneReader
  <2>2. \A d \in Coroutines : read'[d].at # "none" => d = c
    BY <2>1, <1>1
  <2>3. \A d \in Coroutines : read'[d].at \notin Asking
    BY <2>2, <1>2 DEF Asking
  <2> QED BY <2>2, <2>3 DEF OneReader
<1>5. ForARef'
  BY <1>1, <1>2 DEF ForARef, Asking
<1> QED BY <1>3, <1>4, <1>5

\* The books on the account that answers, under the cursor until a cut.
LEMMA BookIInv ==
  ASSUME PoolIInv, NEW c \in Coroutines, read[c].at = "request",
         NEW a \in Account, NEW b \in Account,
         cuts = 0 => (slot[index] = told[index] => a = b),
         Book(a), Answered(c, b)
  PROVE  /\ slot' \in [Slots -> Account]
         /\ told' \in [Slots -> Account]
         /\ cuts = 0 => slot' = told'
<1>1. slot' \in [Slots -> Account]
  BY DEF PoolIInv, PoolTypeOK, Book
<1>2. told' \in [Slots -> Account]
  BY DEF PoolIInv, PoolTypeOK, Answered
<1>3. ASSUME cuts = 0 PROVE slot' = told'
  <2>1. slot = told /\ read[c].of = index
    BY <1>3 DEF PoolIInv, OneReader, Asking
  <2>2. a = b
    BY <1>3, <2>1
  <2> QED BY <1>3, <2>1, <2>2 DEF Book, Answered
<1> QED BY <1>1, <1>2, <1>3

LEMMA PoolAcquireIInv ==
  ASSUME PoolIInv, NEW c \in Coroutines, read[c].at \in {"turn", "wait"},
         read[c].ref \in Refs, Acquire(c)
  PROVE  PoolIInv'
<1> USE DEF PoolIInv
<1>1. UNCHANGED <<slot, refFails, refSkip, current, told, trouble, cuts>>
  BY DEF Acquire
<1>2. ASSUME NEW s \in Healthy, NEW p \in Asking, index' = s,
             read' = [read EXCEPT ![c].at = p, ![c].of = s, ![c].left = 0]
      PROVE PoolIInv'
  <2>1. s \in Slots /\ slot[s].cool = 0 /\ ~slot[s].out
    BY DEF Healthy, Live
  <2>2. PoolTypeOK'
    <3>1. read[c] \in Reading
      BY DEF PoolTypeOK
    <3>2. [read[c] EXCEPT !.at = p, !.of = s, !.left = 0] \in Reading
      BY <2>1, <3>1 DEF Reading, Places
    <3>3. read' \in [Coroutines -> Reading]
      BY <1>2, <3>2 DEF PoolTypeOK
    <3> QED BY <1>1, <1>2, <2>1, <3>3 DEF PoolTypeOK
  <2>3. OneReader'
    <3> SUFFICES ASSUME cuts = 0 PROVE OneReader'
      BY <1>1 DEF OneReader
    <3>1. \A d \in Coroutines : read[d].at # "none" => d = c
      BY DEF OneReader
    <3>2. \A d \in Coroutines \ {c} : read'[d] = read[d]
      BY <1>2 DEF PoolTypeOK
    <3>3. read'[c].of = s
      BY <1>2 DEF PoolTypeOK, Reading
    <3> QED BY <1>1, <1>2, <2>1, <3>1, <3>2, <3>3 DEF OneReader, Asking
  <2>4. ForARef'
    BY <1>2 DEF ForARef, PoolTypeOK, Reading
  <2> QED BY <2>2, <2>3, <2>4
<1>3. ASSUME NextRef(c), UNCHANGED index PROVE PoolIInv'
  <2>1. read[c].ref + 1 \in 1..(LastRef + 1)
    BY AccountPoolParameters DEF Refs
  <2> QED BY <1>1, <1>3, <2>1, LeaveIInv DEF NextRef, PoolTypeOK, OneReader
<1>4. ASSUME NEW s \in Readiest, Sleep(c, "wait", slot[s].cool), UNCHANGED index
      PROVE PoolIInv'
  <2>1. slot[s].cool \in Nat
    BY DEF Readiest, Live, PoolTypeOK, Account
  <2>2. read[c].ref \in 1..(LastRef + 1)
    BY DEF PoolTypeOK, Reading
  <2> QED BY <1>1, <1>4, <2>1, <2>2, LeaveIInv DEF Sleep, PoolTypeOK, OneReader
<1> QED BY <1>2, <1>3, <1>4 DEF Acquire

LEMMA EndsIInv ==
  ASSUME PoolIInv, NEW c \in Coroutines, Ends(c), trouble' \in 0..MaxTrouble,
         UNCHANGED <<slot, index, refFails, refSkip, told, cuts>>
  PROVE  PoolIInv'
<1> USE DEF PoolIInv
<1>1. 0 \in Slots /\ 1 \in 1..(LastRef + 1)
  BY AccountPoolParameters DEF Slots
<1>2. NoRead \in Reading
  BY <1>1 DEF NoRead, Reading, Places
<1>3. PoolTypeOK'
  BY <1>2 DEF PoolTypeOK, Ends
<1>4. \A d \in Coroutines : read'[d] = IF d = c THEN NoRead ELSE read[d]
  BY DEF PoolTypeOK, Ends
<1>5. OneReader'
  BY <1>4 DEF OneReader, Ends, NoRead, Asking
<1>6. ForARef'
  BY <1>4 DEF ForARef, NoRead, Asking
<1> QED BY <1>3, <1>5, <1>6

\* Time wears every book alike.
LEMMA PassIInv == ASSUME PoolIInv, Pass PROVE PoolIInv'
<1> USE DEF PoolIInv
<1> DEFINE cooled(b) == [s \in Slots |-> [b[s] EXCEPT !.cool = Less(@)]]
<1>1. ASSUME NEW b \in [Slots -> Account] PROVE cooled(b) \in [Slots -> Account]
  BY LessNat DEF Account
<1>2. slot' = cooled(slot) /\ told' = cooled(told)
  BY DEF Pass
<1>3. slot' \in [Slots -> Account] /\ told' \in [Slots -> Account]
  BY <1>1, <1>2 DEF PoolTypeOK
<1>4. refSkip' \in [Refs -> Nat]
  BY LessNat DEF Pass, PoolTypeOK
<1>5. \A c \in Coroutines : read'[c] = [read[c] EXCEPT !.left = Less(@)]
  BY DEF Pass
<1>6. ASSUME NEW c \in Coroutines
      PROVE  read'[c] \in Reading /\ read'[c].at = read[c].at /\ read'[c].of = read[c].of
  <2>1. read[c] \in Reading
    BY DEF PoolTypeOK
  <2> QED BY <1>5, <2>1, LessNat DEF Reading
<1>7. read' \in [Coroutines -> Reading]
  BY <1>6 DEF Pass
<1>8. PoolTypeOK'
  BY <1>3, <1>4, <1>7 DEF PoolTypeOK, Pass
<1>9. OneReader'
  <2> SUFFICES ASSUME cuts = 0 PROVE OneReader'
    BY DEF OneReader, Pass
  <2>1. slot' = told'
    BY <1>2 DEF OneReader
  <2>2. ASSUME NEW c \in Coroutines, read'[c].at \in Asking
        PROVE  read'[c].of = index' /\ slot'[index].cool = 0 /\ ~slot'[index].out
    <3>1. read[c].of = index /\ slot[index].cool = 0 /\ ~slot[index].out
      BY <1>6, <2>2 DEF OneReader
    <3>2. slot'[index] = [slot[index] EXCEPT !.cool = Less(@)] /\ slot[index] \in Account
      BY <1>2 DEF PoolTypeOK
    <3> QED BY <1>6, <3>1, <3>2 DEF Pass, Less, Account
  <2> QED BY <1>6, <2>1, <2>2 DEF OneReader, Pass
<1>10. ForARef'
  <2>1. \A c \in Coroutines : read'[c].ref = read[c].ref /\ read'[c].at = read[c].at
    BY <1>5 DEF PoolTypeOK, Reading
  <2> QED BY <2>1 DEF ForARef
<1> QED BY <1>8, <1>9, <1>10

\* An answered request.
LEMMA AnswerIInv ==
  ASSUME PoolIInv, NEW c \in Coroutines,
         \/ ReadDone(c) \/ Refuse(c) \/ Fail(c)
         \/ \E h \in Hints : FloodWait(c, h)
  PROVE  PoolIInv'
<1>1. read[c].at = "request" /\ read[c] \in Reading /\ index \in Slots
  BY DEF ReadDone, Refuse, Fail, FloodWait, At, PoolIInv, PoolTypeOK
<1>2. slot[index] \in Account /\ told[read[c].of] \in Account
  BY <1>1 DEF PoolIInv, PoolTypeOK, Reading
<1>3. cuts = 0 => read[c].of = index
  BY <1>1 DEF PoolIInv, OneReader, Asking
<1>4. read[c].ref \in Refs /\ read[c].ref \in 1..(LastRef + 1)
      /\ read[c].ref + 1 \in 1..(LastRef + 1)
  BY <1>1, AccountPoolParameters DEF PoolIInv, ForARef, Asking, Refs, Reading
<1>5. (index + 1) % Size \in Slots
  BY <1>1, RotateInPool
<1>6. trouble \in 0..MaxTrouble /\ refFails \in [Refs -> 0..(Threshold + 1)]
      /\ refSkip \in [Refs -> Nat]
  BY DEF PoolIInv, PoolTypeOK
<1>7. CASE ReadDone(c)
  <2>1. ReadCleanly(slot[index]) \in Account /\ ReadCleanly(told[read[c].of]) \in Account
    BY <1>2, BookedIsAccount
  <2>2. /\ slot' \in [Slots -> Account] /\ told' \in [Slots -> Account]
        /\ cuts = 0 => slot' = told'
    BY <1>1, <1>3, <1>7, <2>1, BookIInv DEF ReadDone
  <2>3. /\ refFails' \in [Refs -> 0..(Threshold + 1)]
        /\ refSkip' \in [Refs -> Nat]
    <3>1. 0 \in 0..(Threshold + 1) /\ 0 \in Nat
      BY AccountPoolParameters
    <3>2. refFails' \in [Refs -> 0..(Threshold + 1)]
      BY <1>6, <1>7, <3>1 DEF ReadDone
    <3>3. refSkip' \in [Refs -> Nat]
      BY <1>6, <1>7, <3>1 DEF ReadDone
    <3> QED BY <3>2, <3>3
  <2> QED BY <1>1, <1>4, <1>6, <1>7, <2>2, <2>3, LeaveIInv DEF ReadDone, NextRef
<1>8. CASE Refuse(c)
  <2>1. Quarantined(slot[index]) \in Account /\ Quarantined(told[read[c].of]) \in Account
    BY <1>2, BookedIsAccount
  <2>2. /\ slot' \in [Slots -> Account] /\ told' \in [Slots -> Account]
        /\ cuts = 0 => slot' = told'
    BY <1>1, <1>3, <1>8, <2>1, BookIInv DEF Refuse
  <2>3. trouble' \in 0..MaxTrouble
    BY <1>6, <1>8, AccountPoolParameters DEF Refuse, Trouble
  <2> QED BY <1>1, <1>4, <1>5, <1>6, <1>8, <2>2, <2>3, LeaveIInv DEF Refuse, NextRef, Rotate
<1>9. CASE Fail(c)
  <2>1. FailedOnce(slot[index]) \in Account /\ FailedOnce(told[read[c].of]) \in Account
    BY <1>2, BookedIsAccount
  <2>2. /\ slot' \in [Slots -> Account] /\ told' \in [Slots -> Account]
        /\ cuts = 0 => slot' = told'
    BY <1>1, <1>3, <1>9, <2>1, BookIInv DEF Fail
  <2>3. Least(refFails[read[c].ref] + 1, Threshold + 1) \in 0..(Threshold + 1)
    <3>1. read[c].ref \in Refs /\ refFails[read[c].ref] \in 0..(Threshold + 1)
      BY <1>4, <1>6
    <3>2. refFails[read[c].ref] + 1 \in Nat /\ Threshold + 1 \in Nat
      BY <3>1, AccountPoolParameters
    <3> QED BY <3>2, LeastNat
  <2>4. /\ refFails' \in [Refs -> 0..(Threshold + 1)]
        /\ refSkip' \in [Refs -> Nat]
    BY <1>6, <1>9, <2>3, AccountPoolParameters DEF Fail
  <2> QED BY <1>1, <1>4, <1>6, <1>9, <2>2, <2>4, LeaveIInv DEF Fail, NextRef
<1>10. ASSUME NEW h \in Hints, FloodWait(c, h) PROVE PoolIInv'
  <2>1. Flooded(slot[index], h) \in Account /\ Flooded(told[read[c].of], h) \in Account
    BY <1>2, BookedIsAccount
  <2>2. /\ slot' \in [Slots -> Account] /\ told' \in [Slots -> Account]
        /\ cuts = 0 => slot' = told'
    BY <1>1, <1>3, <1>10, <2>1, BookIInv DEF FloodWait
  <2>3. trouble' \in 0..MaxTrouble
    BY <1>6, <1>10, AccountPoolParameters DEF FloodWait, Trouble
  <2>4. (IF h <= InlineCap THEN h ELSE 0) \in Nat
    BY AccountPoolParameters
  <2> QED BY <1>1, <1>4, <1>5, <1>6, <1>10, <2>2, <2>3, <2>4, LeaveIInv
          DEF FloodWait, Sleep, Rotate
<1> QED BY <1>7, <1>8, <1>9, <1>10

LEMMA StartTickIInv ==
  ASSUME PoolIInv, NEW c \in Coroutines, StartTick(c) PROVE PoolIInv'
<1> USE DEF PoolIInv
<1>1. \A d \in Coroutines : read'[d] = IF d = c THEN [read[c] EXCEPT !.at = "turn"]
                                               ELSE read[d]
  BY DEF StartTick, PoolTypeOK
<1>2. read'[c] \in Reading /\ read'[c].at = "turn"
  BY <1>1 DEF PoolTypeOK, Reading, Places
<1>3. PoolTypeOK'
  BY <1>1, <1>2 DEF PoolTypeOK, StartTick
<1>4. OneReader'
  <2>1. cuts = 0 => \A d \in Coroutines : read[d].at = "none" \/ current = d
    BY DEF OneReader
  <2>2. current = None /\ None \notin Coroutines
    BY AccountPoolParameters DEF StartTick
  <2> QED BY <1>1, <1>2, <2>1, <2>2 DEF OneReader, StartTick, Asking
<1>5. ForARef'
  BY <1>1, <1>2 DEF ForARef, Asking
<1> QED BY <1>3, <1>4, <1>5

LEMMA ConnectedIInv ==
  ASSUME PoolIInv, NEW c \in Coroutines, Connected(c) PROVE PoolIInv'
<1> USE DEF PoolIInv
<1>1. \A d \in Coroutines : read'[d] = IF d = c THEN [read[c] EXCEPT !.at = "request"]
                                               ELSE read[d]
  BY DEF Connected, PoolTypeOK
<1>2. read[c] \in Reading /\ read[c].at = "connect"
  BY DEF Connected, At, PoolTypeOK
<1>3. /\ read'[c] \in Reading /\ read'[c].at = "request"
      /\ read'[c].of = read[c].of /\ read'[c].ref = read[c].ref
  BY <1>1, <1>2 DEF Reading, Places, Asking
<1>4. PoolTypeOK'
  BY <1>1, <1>3 DEF PoolTypeOK, Connected
<1>5. OneReader'
  BY <1>1, <1>2, <1>3 DEF OneReader, Connected, Asking
<1>6. ForARef'
  BY <1>1, <1>2, <1>3 DEF ForARef, Asking
<1> QED BY <1>4, <1>5, <1>6

\* From the first cut on nothing is promised but the types.
LEMMA SoftLimitIInv == ASSUME PoolIInv, SoftLimit PROVE PoolIInv'
<1>1. PoolTypeOK'
  BY AccountPoolParameters DEF PoolIInv, PoolTypeOK, SoftLimit, Fresh, Account
<1>2. cuts' # 0
  BY DEF PoolIInv, PoolTypeOK, SoftLimit
<1> QED BY <1>1, <1>2 DEF PoolIInv, OneReader, ForARef, SoftLimit

LEMMA PoolStepIInv ==
  ASSUME PoolIInv, NEW c \in Coroutines, Step(c) PROVE PoolIInv'
<1>1. CASE Turn(c)
  <2>1. read[c].at = "turn" /\ read[c].ref \in Refs
    BY <1>1 DEF Turn, At
  <2>2. CASE Acquire(c)
    BY <2>1, <2>2, PoolAcquireIInv
  <2>3. CASE NextRef(c) /\ UNCHANGED <<slot, index, refFails, refSkip, current, told, trouble, cuts>>
    <3>1. read[c].ref + 1 \in 1..(LastRef + 1)
      BY <2>1, AccountPoolParameters DEF Refs
    <3> QED BY <2>1, <2>3, <3>1, LeaveIInv DEF NextRef, PoolIInv, PoolTypeOK, OneReader
  <2> QED BY <1>1, <2>2, <2>3 DEF Turn
<1>2. CASE AskAgain(c)
  <2>1. read[c].at = "wait" /\ read[c].ref \in Refs
    BY <1>2 DEF AskAgain, At, PoolIInv, ForARef
  <2> QED BY <1>2, <2>1, PoolAcquireIInv DEF AskAgain
<1>3. CASE FinishRead(c)
  BY <1>3, EndsIInv DEF FinishRead, PoolIInv, PoolTypeOK
<1>4. CASE Connected(c)
  BY <1>4, ConnectedIInv
<1>5. CASE ConnectFails(c)
  <2>1. trouble' \in 0..MaxTrouble
    BY <1>5, AccountPoolParameters DEF ConnectFails, Trouble, PoolIInv, PoolTypeOK
  <2> QED BY <1>5, <2>1, EndsIInv DEF ConnectFails
<1>6. CASE ReadDone(c) \/ Refuse(c) \/ Fail(c) \/ \E h \in Hints : FloodWait(c, h)
  BY <1>6, AnswerIInv
<1> QED BY <1>1, <1>2, <1>3, <1>4, <1>5, <1>6 DEF Step

LEMMA PoolNextIInv == PoolIInv /\ [PoolNext]_poolVars => PoolIInv'
<1> SUFFICES ASSUME PoolIInv, [PoolNext]_poolVars PROVE PoolIInv'
  OBVIOUS
<1>1. CASE Pass
  BY <1>1, PassIInv
<1>2. CASE SoftLimit
  BY <1>2, SoftLimitIInv
<1>3. ASSUME NEW c \in Coroutines, StartTick(c) PROVE PoolIInv'
  BY <1>3, StartTickIInv
<1>4. ASSUME NEW c \in Coroutines, Step(c) PROVE PoolIInv'
  BY <1>4, PoolStepIInv
<1>5. CASE UNCHANGED poolVars
  BY <1>5 DEF poolVars, PoolIInv, PoolTypeOK, OneReader, ForARef
<1> QED BY <1>1, <1>2, <1>3, <1>4, <1>5 DEF PoolNext

\* The inductive invariant holds in every reachable state.
THEOREM PoolInvariance == PoolSpec => []PoolIInv
BY PoolInitIInv, PoolNextIInv, PTL DEF PoolSpec

-----------------------------------------------------------------------------

\* Type correctness of the pool and of the coroutines that use it.
THEOREM PoolTypeCorrect == PoolSpec => []PoolTypeOK
BY PoolInvariance, PTL DEF PoolIInv

\* Until a tick is cut, every answer is booked on the account that gave it.
THEOREM BooksAreTrue == PoolSpec => []BooksMatch
<1>1. PoolIInv => BooksMatch
  BY DEF PoolIInv, OneReader, BooksMatch
<1> QED BY <1>1, PoolInvariance, PTL

\* And no account that Telegram told to wait or refused is asked.
THEOREM RestingIsLeftAlone == PoolSpec => []NeverAsksResting
<1>1. PoolIInv => NeverAsksResting
  BY DEF PoolIInv, OneReader, NeverAsksResting
<1> QED BY <1>1, PoolInvariance, PTL

\* The pool's books are those of the accounts, and are heeded.
THEOREM BooksAreKept == PoolSpec => []BooksKept
  BY BooksAreTrue, RestingIsLeftAlone, PTL DEF BooksKept

-----------------------------------------------------------------------------
(***************************************************************************)
(* The delivery.  The inductive invariant says what a dispatch in its      *)
(* transaction knows: its alert is due and was not yet delivered when it   *)
(* read the row; and, on an alert that never raced, it is alone and the    *)
(* row still is as it was.                                                 *)
(***************************************************************************)
Works(m, a) == task[m].alert = a /\ task[m].at \in Working

SlotInv == \A m \in Tasks : task[m].at # "free" => task[m].alert \in Alerts

WorkInv ==
  \A m \in Tasks : task[m].at \in Working =>
    /\ due[task[m].alert]
    /\ task[m].loaded # "delivered"
    /\ task[m].at = "accepted" => Reached(task[m].alert)

SoloInv ==
  \A a \in Alerts : a \notin raced =>
    \A m, n \in Tasks : Works(m, a) /\ Works(n, a) => m = n

OpenInv ==
  \A a \in Alerts : a \notin raced =>
    \A m \in Tasks : Works(m, a) => row[a] # "delivered"

IInv ==
  /\ TypeOK /\ SlotInv /\ WorkInv /\ SoloInv /\ OpenInv
  /\ NeverBeforeDue /\ DeliveredMeansReached
  /\ DuplicateOnlyByRace /\ AcceptedIsRecorded

\* The initial states satisfy the inductive invariant.
LEMMA InitIInv == Init => IInv
  <1> SUFFICES ASSUME Init PROVE IInv
    OBVIOUS
  <1>1. TypeOK
    BY DeliveryParameters DEF Init, TypeOK, Task, FreeTask, TaskPlaces, Statuses
  <1>2. \A a \in Alerts, c \in Channels : received[a][c] = 0
    BY DEF Init
  <1>3. \A m \in Tasks : task[m].at = "free" /\ row \in [Alerts -> {"none"}]
    BY DEF Init, FreeTask
  <1>4. \A m \in Tasks : task[m].at \notin Working
    BY <1>3 DEF Working
  <1>5. row = [a \in Alerts |-> "none"]
    BY DEF Init
  <1> QED
    BY <1>1, <1>2, <1>3, <1>4, <1>5
    DEF IInv, SlotInv, WorkInv, SoloInv, OpenInv, Works, NeverBeforeDue,
        DeliveredMeansReached, DuplicateOnlyByRace, AcceptedIsRecorded, Reached

-----------------------------------------------------------------------------
(* What an action may do to one task slot.  Every action either leaves the  *)
(* tasks alone or rewrites the slot of one task.                            *)

\* Slots other than m are untouched.
Rewrites(m, t) == task' = [task EXCEPT ![m] = t]

\* A slot that is rewritten to something outside a transaction keeps IInv, as
\* long as no other variable of the invariant moves and no commit is dropped.
LEMMA IdleSlot ==
  ASSUME IInv, NEW m \in Tasks, NEW t \in Task, Rewrites(m, t),
         t.at \in {"free", "queued"}, t.at = "queued" => t.alert \in Alerts,
         task[m].at # "accepted" \/ task[m].alert \in raced',
         raced \subseteq raced', raced' \subseteq Alerts,
         UNCHANGED <<row, due, received>>,
         handoff' \subseteq Alerts, sweep' \subseteq Alerts, stale' = stale,
         faults' \in 0..MaxFaults
  PROVE  IInv'
  <1>1. /\ task' \in [Tasks -> Task]
        /\ task'[m] = t
        /\ \A n \in Tasks \ {m} : task'[n] = task[n]
    BY DEF IInv, TypeOK, Rewrites
  <1>2. TypeOK' /\ SlotInv'
    BY <1>1 DEF IInv, TypeOK, SlotInv
  <1>3. task'[m].at \notin Working
    BY <1>1 DEF Working
  <1>4. \A n \in Tasks, a \in Alerts : Works(n, a)' => Works(n, a) /\ n # m
    BY <1>1, <1>3 DEF Works
  <1>5. \A a \in Alerts : Reached(a)' = Reached(a)
    BY DEF Reached
  <1>6. WorkInv'
    BY <1>1, <1>3, <1>5 DEF IInv, WorkInv, Working, SlotInv
  <1>7. SoloInv' /\ OpenInv'
    BY <1>4 DEF IInv, SoloInv, OpenInv
  <1>8. NeverBeforeDue' /\ DeliveredMeansReached' /\ DuplicateOnlyByRace'
    BY <1>5 DEF IInv, NeverBeforeDue, DeliveredMeansReached, DuplicateOnlyByRace
  <1>9. AcceptedIsRecorded'
    BY <1>1, <1>5 DEF IInv, AcceptedIsRecorded
  <1> QED
    BY <1>2, <1>6, <1>7, <1>8, <1>9 DEF IInv

\* What a message, a free slot and a moved task look like.
LEMMA SlotTypes ==
  /\ FreeTask \in Task /\ FreeTask.at = "free"
  /\ \A a \in Alerts, r \in 0..MaxRetries :
       /\ Message(a, r) \in Task
       /\ Message(a, r).at = "queued" /\ Message(a, r).alert = a
  BY DeliveryParameters
  DEF FreeTask, Message, Task, TaskPlaces, Working, Statuses

\* Ending a task without committing an accepted send keeps IInv.
LEMMA DoneIInv ==
  ASSUME IInv, NEW m \in Tasks, Done(m), task[m].at # "accepted",
         UNCHANGED <<row, due, stale, handoff, sweep, received, raced>>,
         faults' \in 0..MaxFaults
  PROVE  IInv'
  <1>1. Rewrites(m, FreeTask)
    BY DEF Done, Rewrites
  <1>2. FreeTask \in Task /\ FreeTask.at = "free"
    BY SlotTypes
  <1> QED
    BY <1>1, <1>2, IdleSlot DEF IInv, TypeOK

\* So does publishing a successor in its place.
LEMMA SucceedIInv ==
  ASSUME IInv, NEW m \in Tasks, task[m].at \notin {"free", "accepted"},
         NEW r \in 0..MaxRetries, Succeed(m, r),
         UNCHANGED <<row, due, stale, handoff, sweep, received, raced>>
  PROVE  IInv'
  <1>1. faults' \in 0..MaxFaults
    BY DeliveryParameters DEF Succeed, BrokerRefuses, Fault, IInv, TypeOK
  <1>2. CASE Done(m)
    BY <1>1, <1>2, DoneIInv
  <1>3. CASE Rewrites(m, Message(task[m].alert, r))
    <2>1. task[m].alert \in Alerts
      BY DEF IInv, SlotInv
    <2>2. /\ Message(task[m].alert, r) \in Task
          /\ Message(task[m].alert, r).at = "queued"
          /\ Message(task[m].alert, r).alert \in Alerts
      BY <2>1, SlotTypes
    <2> QED
      BY <1>1, <1>3, <2>2, IdleSlot DEF IInv, TypeOK
  <1> QED
    BY <1>2, <1>3 DEF Succeed, Rewrites

\* And publishing a message for an alert into a free slot.
LEMMA PublishIInv ==
  ASSUME IInv, NEW a \in Alerts, EnqueueDelivery(a),
         UNCHANGED <<row, due, stale, received, raced>>,
         handoff' \subseteq Alerts, sweep' \subseteq Alerts
  PROVE  IInv'
  <1>1. faults' \in 0..MaxFaults
    BY DeliveryParameters DEF EnqueueDelivery, BrokerRefuses, Fault, IInv, TypeOK
  <1>2. CASE task' = task
    BY <1>1, <1>2
    DEF IInv, TypeOK, SlotInv, WorkInv, SoloInv, OpenInv, Works, Reached,
        NeverBeforeDue, DeliveredMeansReached, DuplicateOnlyByRace,
        AcceptedIsRecorded
  <1>3. CASE \E m \in Tasks : task[m].at = "free" /\ Rewrites(m, Message(a, 0))
    <2>1. PICK m \in Tasks : task[m].at = "free" /\ Rewrites(m, Message(a, 0))
      BY <1>3
    <2>2. 0 \in 0..MaxRetries
      BY DeliveryParameters
    <2>3. /\ Message(a, 0) \in Task
          /\ Message(a, 0).at = "queued" /\ Message(a, 0).alert = a
      BY <2>2, SlotTypes
    <2> QED
      BY <1>1, <2>1, <2>3, IdleSlot DEF IInv, TypeOK
  <1> QED
    BY <1>2, <1>3 DEF EnqueueDelivery, Rewrites

-----------------------------------------------------------------------------
(* The steps of a dispatch inside its transaction *)

\* A task that moves on inside its transaction, with nothing else changed.
LEMMA GoToIInv ==
  ASSUME IInv, NEW m \in Tasks, task[m].at \in Working \ {"accepted"},
         GoTo(m, "failing"),
         UNCHANGED <<row, due, stale, handoff, sweep, received, raced, faults>>
  PROVE  IInv'
  <1>1. /\ task' \in [Tasks -> Task]
        /\ \A n \in Tasks : task'[n].alert = task[n].alert
                        /\ task'[n].loaded = task[n].loaded
        /\ task'[m].at = "failing"
        /\ \A n \in Tasks \ {m} : task'[n] = task[n]
    BY DEF IInv, TypeOK, GoTo, Task, TaskPlaces, Working
  <1>2. \A n \in Tasks, a \in Alerts : Works(n, a)' <=> Works(n, a)
    BY <1>1 DEF Works, Working
  <1>3. \A n \in Tasks : task'[n].at = "accepted" <=> task[n].at = "accepted"
    BY <1>1
  <1>4. \A n \in Tasks : task'[n].at \in Working <=> task[n].at \in Working
    BY <1>1 DEF Working
  <1>5. TypeOK' /\ SlotInv'
    BY <1>1 DEF IInv, TypeOK, SlotInv, Working
  <1>6. WorkInv' /\ SoloInv' /\ OpenInv'
    BY <1>1, <1>2, <1>3, <1>4 DEF IInv, WorkInv, SoloInv, OpenInv, Reached
  <1>7. /\ NeverBeforeDue' /\ DeliveredMeansReached' /\ DuplicateOnlyByRace'
        /\ AcceptedIsRecorded'
    BY <1>1, <1>3
    DEF IInv, NeverBeforeDue, DeliveredMeansReached, DuplicateOnlyByRace,
        AcceptedIsRecorded, Reached
  <1> QED
    BY <1>5, <1>6, <1>7 DEF IInv

\* A read that finds the alert due and undelivered: either it races, or it is
\* alone with a row that is still undelivered.
LEMMA BeginIInv ==
  ASSUME IInv, NEW m \in Tasks, task[m].at = "queued", Begin(m),
         due[task[m].alert], row[task[m].alert] # "delivered",
         UNCHANGED <<row, due, stale, handoff, sweep, received, faults>>
  PROVE  IInv'
  <1> DEFINE a == task[m].alert
  <1>1. a \in Alerts /\ row[a] \in Statuses
    BY DEF IInv, SlotInv, TypeOK
  <1>2. /\ task' \in [Tasks -> Task]
        /\ task'[m].alert = a /\ task'[m].loaded = row[a]
        /\ task'[m].at \in {"failing", "sending"}
        /\ \A n \in Tasks \ {m} : task'[n] = task[n]
    BY <1>1 DEF IInv, TypeOK, Begin, Task, TaskPlaces, Working
  <1>3. raced' = IF Rivals(m) = {} THEN raced ELSE raced \cup {a}
    BY DEF Begin
  <1>4. \A b \in Alerts : b \notin raced' =>
          b \notin raced /\ (b = a => \A n \in Tasks \ {m} : ~Works(n, b))
    BY <1>3 DEF Rivals, Works
  <1>5. TypeOK' /\ SlotInv'
    BY <1>1, <1>2, <1>3 DEF IInv, TypeOK, SlotInv
  <1>6. \A n \in Tasks \ {m}, b \in Alerts : Works(n, b)' <=> Works(n, b)
    BY <1>2 DEF Works
  <1>7. WorkInv'
    BY <1>2 DEF IInv, WorkInv, Reached
  <1>8. SoloInv'
    BY <1>2, <1>4, <1>6 DEF IInv, SoloInv, Works
  <1>9. OpenInv'
    BY <1>2, <1>4, <1>6 DEF IInv, OpenInv, Works
  <1>10. NeverBeforeDue' /\ DeliveredMeansReached' /\ DuplicateOnlyByRace'
    BY <1>4
    DEF IInv, NeverBeforeDue, DeliveredMeansReached, DuplicateOnlyByRace, Reached
  <1>11. AcceptedIsRecorded'
    BY <1>2, <1>4 DEF IInv, AcceptedIsRecorded, Reached
  <1> QED
    BY <1>5, <1>7, <1>8, <1>9, <1>10, <1>11 DEF IInv

\* On an alert that never raced, a working task that has not been accepted
\* knows that no channel took the alert.
LEMMA LoneUnreached ==
  ASSUME IInv, NEW m \in Tasks, task[m].at \in Working \ {"accepted"},
         task[m].alert \notin raced
  PROVE  ~Reached(task[m].alert)
  <1> DEFINE a == task[m].alert
  <1> SUFFICES ASSUME Reached(a) PROVE FALSE
    OBVIOUS
  <1>1. a \in Alerts /\ Works(m, a)
    BY DEF IInv, SlotInv, Works, Working
  <1>2. row[a] # "delivered"
    BY <1>1 DEF IInv, OpenInv
  <1>3. PICK n \in Tasks : task[n].alert = a /\ task[n].at = "accepted"
    BY <1>1, <1>2 DEF IInv, AcceptedIsRecorded
  <1>4. n = m
    BY <1>1, <1>3 DEF IInv, SoloInv, Works, Working
  <1> QED
    BY <1>3, <1>4

\* The send: whoever sends has a due alert, and on an alert that never raced
\* nothing was accepted before.
LEMMA SendIInv ==
  ASSUME IInv, NEW m \in Tasks, Send(m)
  PROVE  IInv'
  <1>0. PICK a \in Alerts : a = task[m].alert
    BY DEF Send, IInv, SlotInv
  <1>1. PICK accepted \in SUBSET Configured[a] :
          \E transient \in SUBSET (Configured[a] \ accepted) :
            /\ received' = [received EXCEPT ![a] =
                 [c \in Channels |-> @[c] + IF c \in accepted THEN 1 ELSE 0]]
            /\ GoTo(m, Verdict(accepted, transient))
    BY <1>0 DEF Send, Transient
  <1>2. a \in Alerts /\ Works(m, a) /\ due[a] /\ task[m].at = "sending"
    BY <1>0 DEF Send, IInv, WorkInv, Works, Working
  <1>3. /\ task' \in [Tasks -> Task]
        /\ \A n \in Tasks : task'[n].alert = task[n].alert
                        /\ task'[n].loaded = task[n].loaded
        /\ task'[m].at \in {"accepted", "transient", "rejected"}
        /\ task'[m].at = "accepted" <=> accepted # {}
        /\ \A n \in Tasks \ {m} : task'[n] = task[n]
    <2>1. PICK v \in {"accepted", "transient", "rejected"} :
            GoTo(m, v) /\ (v = "accepted" <=> accepted # {})
      BY <1>1 DEF Verdict
    <2>2. v \in TaskPlaces
      BY DEF TaskPlaces, Working
    <2> QED
      BY <2>1, <2>2 DEF IInv, TypeOK, GoTo, Task
  <1>4. /\ \A c \in Channels : received'[a][c] =
             received[a][c] + IF c \in accepted THEN 1 ELSE 0
        /\ \A b \in Alerts \ {a} : received'[b] = received[b]
        /\ received' \in [Alerts -> [Channels -> Nat]]
    <2>1. received[a] \in [Channels -> Nat]
      BY <1>2 DEF IInv, TypeOK
    <2> QED
      BY <1>1, <1>2, <2>1 DEF IInv, TypeOK
  <1>5. accepted \subseteq Channels
    BY <1>1, <1>2, DeliveryParameters
  <1>6. Reached(a)' <=> Reached(a) \/ accepted # {}
    <2>1. \A c \in Channels : received[a][c] \in Nat
      BY <1>2 DEF IInv, TypeOK
    <2> QED
      BY <1>2, <1>3, <1>4, <1>5, <2>1 DEF Reached
  <1>7. \A b \in Alerts \ {a} : Reached(b)' <=> Reached(b)
    BY <1>4 DEF Reached
  <1>8. UNCHANGED <<row, due, stale, handoff, sweep, raced, faults>>
    BY DEF Send
  <1>9. \A n \in Tasks, b \in Alerts : Works(n, b)' <=> Works(n, b)
    BY <1>2, <1>3 DEF Works, Working
  <1>10. a \notin raced => ~Reached(a)
    BY <1>0, <1>2, LoneUnreached DEF Working
  <1>11. TypeOK' /\ SlotInv'
    BY <1>2, <1>3, <1>4, <1>8 DEF IInv, TypeOK, SlotInv
  <1>12. WorkInv'
    <2> SUFFICES ASSUME NEW n \in Tasks, task'[n].at \in Working
                 PROVE  /\ due[task[n].alert]
                        /\ task[n].loaded # "delivered"
                        /\ task'[n].at = "accepted" => Reached(task[n].alert)'
      BY <1>3, <1>8 DEF WorkInv
    <2>1. task[n].at \in Working /\ task[n].alert \in Alerts
      BY <1>2, <1>3 DEF IInv, SlotInv, Working
    <2>2. CASE n = m
      BY <1>0, <1>3, <1>6, <2>1, <2>2 DEF IInv, WorkInv
    <2>3. CASE n # m
      BY <1>3, <1>6, <1>7, <2>1, <2>3 DEF IInv, WorkInv
    <2> QED
      BY <2>2, <2>3
  <1>13. SoloInv' /\ OpenInv'
    BY <1>8, <1>9 DEF IInv, SoloInv, OpenInv
  <1>14. NeverBeforeDue' /\ DeliveredMeansReached'
    <2>1. \A b \in Alerts : Reached(b)' => Reached(b) \/ due[b]
      BY <1>2, <1>7
    <2>2. \A b \in Alerts : Reached(b) => Reached(b)'
      BY <1>6, <1>7
    <2> QED
      BY <1>8, <2>1, <2>2 DEF IInv, NeverBeforeDue, DeliveredMeansReached
  <1>15. DuplicateOnlyByRace'
    <2>1. a \notin raced => \A c \in Channels : received[a][c] = 0
      BY <1>2, <1>10 DEF Reached, IInv, TypeOK
    <2> QED
      BY <1>2, <1>4, <1>8, <2>1 DEF IInv, DuplicateOnlyByRace
  <1>16. AcceptedIsRecorded'
    <2> SUFFICES ASSUME NEW b \in Alerts, Reached(b)', b \notin raced
                 PROVE  \/ row[b] = "delivered"
                        \/ \E n \in Tasks : task'[n].alert = b
                                           /\ task'[n].at = "accepted"
      BY <1>8 DEF AcceptedIsRecorded
    <2>1. CASE b = a
      BY <1>0, <1>3, <1>6, <1>10, <2>1
    <2>2. CASE b # a
      BY <1>0, <1>3, <1>7, <2>2 DEF IInv, AcceptedIsRecorded
    <2> QED
      BY <2>1, <2>2
  <1> QED
    BY <1>11, <1>12, <1>13, <1>14, <1>15, <1>16 DEF IInv

\* A task that ends by writing a status.
LEMMA WriteIInv ==
  ASSUME IInv, NEW m \in Tasks, task[m].at \in Working, Done(m),
         NEW status \in {"delivered", "failed"},
         row' = [row EXCEPT ![task[m].alert] = status],
         status = "delivered" => task[m].at = "accepted",
         status = "failed" => task[m].at # "accepted",
         UNCHANGED <<due, stale, handoff, sweep, received, raced, faults>>
  PROVE  IInv'
  <1>0. PICK a \in Alerts : a = task[m].alert
    BY DEF IInv, SlotInv, Working
  <1>1. a \in Alerts /\ Works(m, a)
    BY <1>0 DEF Works
  <1>2. /\ task' \in [Tasks -> Task]
        /\ task'[m].at = "free"
        /\ \A n \in Tasks \ {m} : task'[n] = task[n]
    BY SlotTypes DEF IInv, TypeOK, Done
  <1>3. /\ row' \in [Alerts -> Statuses] /\ row'[a] = status
        /\ \A b \in Alerts \ {a} : row'[b] = row[b]
    BY <1>0 DEF IInv, TypeOK, Statuses
  <1>4. \A n \in Tasks, b \in Alerts : Works(n, b)' => Works(n, b) /\ n # m
    BY <1>2 DEF Works, Working
  <1>5. ASSUME a \notin raced, NEW n \in Tasks, Works(n, a)' PROVE FALSE
    <2>1. Works(n, a) /\ n # m
      BY <1>1, <1>4, <1>5
    <2> QED
      BY <1>1, <1>5, <2>1 DEF IInv, SoloInv
  <1>6. TypeOK' /\ SlotInv'
    BY <1>2, <1>3 DEF IInv, TypeOK, SlotInv
  <1>7. WorkInv'
    BY <1>2 DEF IInv, WorkInv, Reached, Working
  <1>8. SoloInv'
    BY <1>4 DEF IInv, SoloInv
  <1>9. OpenInv'
    <2> SUFFICES ASSUME NEW b \in Alerts, b \notin raced, NEW n \in Tasks,
                        Works(n, b)'
                 PROVE  row'[b] # "delivered"
      BY DEF OpenInv
    <2>1. b # a
      BY <1>5
    <2>2. Works(n, b)
      BY <1>4
    <2> QED
      BY <1>3, <2>1, <2>2 DEF IInv, OpenInv
  <1>12. NeverBeforeDue' /\ DuplicateOnlyByRace'
    BY DEF IInv, NeverBeforeDue, DuplicateOnlyByRace, Reached
  <1>10. DeliveredMeansReached'
    BY <1>0, <1>3 DEF IInv, DeliveredMeansReached, WorkInv, Reached
  <1>11. AcceptedIsRecorded'
    <2> SUFFICES ASSUME NEW b \in Alerts, Reached(b), b \notin raced
                 PROVE  \/ row'[b] = "delivered"
                        \/ \E n \in Tasks : task'[n].alert = b
                                           /\ task'[n].at = "accepted"
      BY DEF AcceptedIsRecorded, Reached
    <2>1. CASE b = a
      BY <1>0, <1>3, <2>1, LoneUnreached
    <2>2. CASE b # a
      BY <1>2, <1>3, <2>2 DEF IInv, AcceptedIsRecorded
    <2> QED
      BY <2>1, <2>2
  <1> QED
    BY <1>6, <1>7, <1>8, <1>9, <1>10, <1>11, <1>12 DEF IInv

\* A change of the row of an alert that has none yet, of the clock, or of the
\* lists of the scorer and the resweep.
LEMMA NoTaskIInv ==
  ASSUME IInv, UNCHANGED <<task, received, raced>>,
         row' \in [Alerts -> Statuses], due' \in [Alerts -> BOOLEAN],
         stale' \in [Alerts -> BOOLEAN],
         handoff' \subseteq Alerts, sweep' \subseteq Alerts,
         faults' \in 0..MaxFaults,
         \A a \in Alerts : due[a] => due'[a],
         \A a \in Alerts : row'[a] = "delivered" <=> row[a] = "delivered"
  PROVE  IInv'
  <1>1. TypeOK' /\ SlotInv'
    BY DEF IInv, TypeOK, SlotInv
  <1>2. WorkInv' /\ SoloInv' /\ OpenInv'
    BY DEF IInv, WorkInv, SoloInv, OpenInv, SlotInv, Works, Reached, Working
  <1>3. /\ NeverBeforeDue' /\ DeliveredMeansReached' /\ DuplicateOnlyByRace'
        /\ AcceptedIsRecorded'
    BY DEF IInv, NeverBeforeDue, DeliveredMeansReached, DuplicateOnlyByRace,
           AcceptedIsRecorded, Reached
  <1> QED
    BY <1>1, <1>2, <1>3 DEF IInv

\* A death of the process that executes a dispatch.
LEMMA WorkerCrashIInv ==
  ASSUME IInv, NEW m \in Tasks, WorkerCrash(m)
  PROVE  IInv'
  <1>1. task[m].alert \in Alerts /\ task[m].retries \in 0..MaxRetries
    BY DEF WorkerCrash, IInv, TypeOK, SlotInv, Task
  <1>2. PICK t \in Task : /\ Rewrites(m, t)
                          /\ t.at \in {"free", "queued"}
                          /\ t.at = "queued" => t.alert \in Alerts
    <2>1. CASE Done(m)
      BY <2>1, SlotTypes DEF Done, Rewrites
    <2>2. CASE Rewrites(m, Message(task[m].alert, task[m].retries))
      BY <1>1, <2>2, SlotTypes
    <2> QED
      BY <2>1, <2>2 DEF WorkerCrash, Rewrites
  <1>3. /\ raced \subseteq raced' /\ raced' \subseteq Alerts
        /\ task[m].at # "accepted" \/ task[m].alert \in raced'
    BY <1>1 DEF WorkerCrash, IInv, TypeOK
  <1>4. faults' \in 0..MaxFaults
    BY DeliveryParameters DEF WorkerCrash, Fault, IInv, TypeOK
  <1>5. UNCHANGED <<row, due, stale, handoff, sweep, received>>
    BY DEF WorkerCrash
  <1> QED
    BY <1>2, <1>3, <1>4, <1>5, IdleSlot DEF IInv, TypeOK

\* Every step of a dispatch keeps the inductive invariant.
LEMMA DispatchIInv ==
  ASSUME IInv, NEW m \in Tasks, Dispatch(m)
  PROVE  IInv'
  <1>1. CASE Load(m)
    <2>1. task[m].at = "queued" /\ 0 \in 0..MaxRetries
          /\ UNCHANGED <<row, due, stale, handoff, sweep, received>>
      BY <1>1, DeliveryParameters DEF Load
    <2>2. CASE Succeed(m, 0) /\ UNCHANGED raced
      BY <2>1, <2>2, SucceedIInv
    <2>3. CASE Done(m) /\ UNCHANGED <<raced, faults>>
      BY <2>1, <2>3, DoneIInv DEF IInv, TypeOK
    <2>4. CASE due[task[m].alert] /\ row[task[m].alert] # "delivered" /\ Begin(m)
      BY <2>1, <2>4, BeginIInv DEF Begin
    <2> QED
      BY <1>1, <2>2, <2>3, <2>4 DEF Load
  <1>2. CASE Send(m)
    BY <1>2, SendIInv
  <1>3. CASE Commit(m)
    <2>1. CASE task[m].at = "accepted"
      <3>1. task[m].at \in Working /\ task[m].loaded # "delivered"
        BY <2>1 DEF IInv, WorkInv, Working
      <3>2. row' = [row EXCEPT ![task[m].alert] = "delivered"]
        BY <1>3, <2>1, <3>1 DEF Commit, WriteStatus
      <3> QED
        BY <1>3, <2>1, <3>1, <3>2, WriteIInv DEF Commit
    <2>2. CASE task[m].at = "rejected" /\ task[m].loaded # "failed"
      <3>1. row' = [row EXCEPT ![task[m].alert] = "failed"]
        BY <1>3, <2>2 DEF Commit, WriteStatus
      <3> QED
        BY <1>3, <2>2, <3>1, WriteIInv DEF Commit, Working
    <2>3. CASE task[m].at = "rejected" /\ task[m].loaded = "failed"
      <3>1. row' = row
        BY <1>3, <2>3 DEF Commit, WriteStatus, IInv, TypeOK
      <3> QED
        BY <1>3, <2>3, <3>1, DoneIInv DEF Commit, IInv, TypeOK
    <2> QED
      BY <1>3, <2>1, <2>2, <2>3 DEF Commit
  <1>4. CASE Retry(m)
    <2>1. CASE task[m].retries < MaxRetries /\ Succeed(m, task[m].retries + 1)
      <3>1. task[m].retries + 1 \in 0..MaxRetries
        BY <2>1, DeliveryParameters DEF IInv, TypeOK, Task
      <3> QED
        BY <1>4, <2>1, <3>1, SucceedIInv DEF Retry
    <2>2. CASE GoTo(m, "failing") /\ UNCHANGED faults
      BY <1>4, <2>2, GoToIInv DEF Retry, Working
    <2> QED
      BY <1>4, <2>1, <2>2 DEF Retry
  <1>5. CASE MarkFailed(m)
    BY <1>5, WriteIInv DEF MarkFailed, Working
  <1> QED
    BY <1>1, <1>2, <1>3, <1>4, <1>5 DEF Dispatch

\* Every step keeps the inductive invariant.
LEMMA NextIInv == IInv /\ [Next]_vars => IInv'
  <1> SUFFICES ASSUME IInv, [Next]_vars PROVE IInv'
    OBVIOUS
  <1> USE DEF IInv, TypeOK
  <1>1. ASSUME NEW a \in Alerts, AlertStep(a) PROVE IInv'
    <2>1. CASE DelayElapses(a)
      BY <2>1, NoTaskIInv DEF DelayElapses
    <2>2. CASE GraceElapses(a)
      BY <2>2, NoTaskIInv DEF GraceElapses
    <2>3. CASE CreateAlert(a)
      BY <2>3, NoTaskIInv DEF CreateAlert, Statuses
    <2>4. CASE HandOff(a)
      BY <2>4, PublishIInv DEF HandOff
    <2>5. CASE Reenqueue(a)
      BY <2>5, PublishIInv DEF Reenqueue
    <2> QED
      BY <1>1, <2>1, <2>2, <2>3, <2>4, <2>5 DEF AlertStep
  <1>2. ASSUME NEW m \in Tasks, Dispatch(m) \/ WorkerCrash(m) PROVE IInv'
    BY <1>2, DispatchIInv, WorkerCrashIInv
  <1>3. CASE Select
    BY <1>3, NoTaskIInv DEF Select
  <1>4. CASE ScorerCrash
    BY <1>4, NoTaskIInv, DeliveryParameters DEF ScorerCrash, Fault
  <1>5. CASE SweepCrash
    BY <1>5, NoTaskIInv, DeliveryParameters DEF SweepCrash, Fault
  <1>6. CASE UNCHANGED vars
    BY <1>6, NoTaskIInv DEF vars
  <1> QED
    BY <1>1, <1>2, <1>3, <1>4, <1>5, <1>6 DEF Next

\* The inductive invariant holds in every reachable state.
THEOREM Invariance == Spec => []IInv
  BY InitIInv, NextIInv, PTL DEF Spec

-----------------------------------------------------------------------------
\* Type correctness of the delivery of alerts.
THEOREM TypeCorrect == Spec => []TypeOK
  BY Invariance, PTL DEF IInv

\* No channel ever gets an alert before its deliver_after.
THEOREM DelayHonoured == Spec => []NeverBeforeDue
  BY Invariance, PTL DEF IInv

\* A delivered row was accepted by a channel.
THEOREM DeliveredIsTrue == Spec => []DeliveredMeansReached
  BY Invariance, PTL DEF IInv

\* Without overlapping dispatches and deaths after a send, at most once.
THEOREM AtMostOnceWithoutRace == Spec => []DuplicateOnlyByRace
  BY Invariance, PTL DEF IInv

\* A channel shows an alert in its time and, but for a race, once.
THEOREM ShownWell == Spec => []ShownInTimeAndOnce
  BY DelayHonoured, AtMostOnceWithoutRace, PTL DEF ShownInTimeAndOnce

\* And no accepted alert ends as anything but delivered.
THEOREM OutcomeRecorded == Spec => []AcceptedIsRecorded
  BY Invariance, PTL DEF IInv

\* A row is delivered exactly when a channel took the alert, but for a commit
\* under way and for overlaps.
THEOREM RowIsTrue == Spec => []RowTellsOutcome
  BY DeliveredIsTrue, OutcomeRecorded, PTL DEF RowTellsOutcome
=============================================================================
