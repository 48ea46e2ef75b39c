------------------------------ MODULE UserBatch ------------------------------
(***************************************************************************)
(* From the source buffers to the tenants: the batch of each user drains   *)
(* the buffers of the sources the user watches, collapses near-duplicates  *)
(* and persists the rest (pipeline/tasks.py, pipeline/batch_processor.py,  *)
(* collector/buffer.py, pipeline/steps/dedup.py).                          *)
(*                                                                         *)
(* Batches of different users run at once; those of one user do not        *)
(* (TaskLock, BatchExclusion).  What the collect ticks buffer (module      *)
(* Collect) is any post, at any time, possibly more than once.             *)
(*                                                                         *)
(* A Channel row holds the handle as it was typed or as a pack lists it;   *)
(* readers label their posts with the canonical handle of the channel.  A  *)
(* source stands for its canonical handle, and a row for the handle in it: *)
(* a row that is spelled canonically is its source.                        *)
(***************************************************************************)
EXTENDS Naturals, FiniteSets

CONSTANTS
  Users, Sources, Posts,
  Channels,   \* the Channel rows
  Canon,      \* the source that the readers take a row for
  Telegram,   \* the rows of this kind
  Watch,      \* the rows each user watches
  SourceOf,   \* the source of each post
  TextOf,     \* its text: posts with the same text are near-duplicates
  BufferMax,  \* MAX_RAW_BUFFER_LEN: copies that a buffer holds
  MaxCopies   \* bound: times each post is buffered

ASSUME UserBatchParameters ==
  /\ Canon \in [Channels -> Sources]
  /\ \A c \in Channels \cap Sources : Canon[c] = c
  /\ Telegram \subseteq Channels
  /\ Watch \in [Users -> SUBSET Channels]
  /\ SourceOf \in [Posts -> Sources]
  /\ DOMAIN TextOf = Posts
  /\ BufferMax \in Nat \ {0}
  /\ MaxCopies \in [Posts -> Nat]

VARIABLES
  fed,    \* how often each post was buffered
  raw,    \* the posts buffered under raw:{kind}:{handle}
  batch,  \* what each user's running batch has still to drain, and holds
  rows,   \* the posts table: how many rows of each post each user has
  lost    \* history: posts that died with a batch, expired or were trimmed

batchVars == <<fed, raw, batch, rows, lost>>

NoBatch == [on |-> FALSE, todo |-> {}, held |-> {}]
Watched == {Canon[c] : c \in UNION {Watch[u] : u \in Users}}
Of(s, posts) == {p \in posts : SourceOf[p] = s}

BatchTypeOK ==
  /\ fed \in [Posts -> Nat] /\ \A p \in Posts : fed[p] <= MaxCopies[p]
  /\ raw \subseteq Posts
  /\ batch \in [Users -> [on : BOOLEAN, todo : SUBSET Channels, held : SUBSET Posts]]
  /\ rows \in [Users -> [Posts -> Nat]]
  /\ lost \subseteq Posts

BatchInit ==
  /\ fed = [p \in Posts |-> 0]
  /\ raw = {}
  /\ batch = [u \in Users |-> NoBatch]
  /\ rows = [u \in Users |-> [p \in Posts |-> 0]]
  /\ lost = {}

-----------------------------------------------------------------------------
\* LTRIM: a push that finds BufferMax copies drops the oldest, which may be the
\* last of its post.  Which one is oldest, and how many copies of the posts in
\* it the buffer holds, is not kept: no more than were ever pushed.
Pushed(s) == UNION {{p} \X (1..fed[p]) : p \in Of(s, Posts)}
Trimmed(p) ==
  LET others == Of(SourceOf[p], raw) \ {p}
  IN  {gone \in SUBSET others :
         /\ Cardinality(gone) <= 1
         /\ gone # {} => Cardinality(Pushed(SourceOf[p])) >= BufferMax
         /\ Cardinality(others \ gone) < BufferMax}

\* write_post: RPUSH, LTRIM and EXPIRE in one MULTI/EXEC.  Only watched sources
\* are read; overlapping windows and retried reads write a post again.
WritePost(p) ==
  /\ SourceOf[p] \in Watched
  /\ fed[p] < MaxCopies[p]
  /\ fed' = [fed EXCEPT ![p] = @ + 1]
  /\ \E gone \in Trimmed(p) :
       /\ raw' = (raw \ gone) \cup {p}
       /\ lost' = lost \cup gone
  /\ UNCHANGED <<batch, rows>>

\* Nothing was written to the buffer, nor drained, for RAW_POST_TTL_SECONDS.
RawExpires(s) ==
  /\ Of(s, raw) # {}
  /\ raw' = raw \ Of(s, raw)
  /\ lost' = lost \cup Of(s, raw)
  /\ UNCHANGED <<fed, batch, rows>>

\* A plausible bug: the batch drains one source only.
BatchStartFirst(u) ==
  /\ ~batch[u].on
  /\ Watch[u] # {}
  /\ batch' = [batch EXCEPT ![u] =
       [on |-> TRUE, todo |-> {CHOOSE c \in Watch[u] : TRUE}, held |-> {}]]
  /\ UNCHANGED <<fed, raw, rows, lost>>

\* run_user_batch got the user's lock: user_source_refs.
BatchStart(u) ==
  /\ ~batch[u].on
  /\ Watch[u] # {}
  /\ batch' = [batch EXCEPT ![u] = [on |-> TRUE, todo |-> Watch[u], held |-> {}]]
  /\ UNCHANGED <<fed, raw, rows, lost>>

\* buffer_key normalizes the handles of Telegram only.
BufferKey(c) == IF c \in Telegram THEN Canon[c] ELSE c

\* A plausible bug: what the batch holds is overwritten by the next source.
DrainOverwriting(u, c) ==
  /\ c \in batch[u].todo
  /\ batch' = [batch EXCEPT ![u].todo = @ \ {c}, ![u].held = Of(BufferKey(c), raw)]
  /\ raw' = raw \ Of(BufferKey(c), raw)
  /\ UNCHANGED <<fed, rows, lost>>

\* drain_source: LRANGE and DEL in one MULTI/EXEC.
Drain(u, c) ==
  /\ c \in batch[u].todo
  /\ batch' = [batch EXCEPT ![u].todo = @ \ {c}, ![u].held = @ \cup Of(BufferKey(c), raw)]
  /\ raw' = raw \ Of(BufferKey(c), raw)
  /\ UNCHANGED <<fed, rows, lost>>

\* dedup.run: greedy, the first post of each group of near-duplicates is kept;
\* which one comes first depends on the order of the sources.
Deduped(posts, kept) ==
  /\ kept \subseteq posts
  /\ \A p \in posts : \E q \in kept : TextOf[q] = TextOf[p]
  /\ \A p, q \in kept : TextOf[q] = TextOf[p] => q = p

\* _build_handle_to_channel_id finds a row that is spelled like the post's source.
Listed(p) == SourceOf[p] \in Channels

\* Dedup, normalize, embed, cluster, and one transaction that inserts the rows
\* (posts has no unique constraint: a post persisted before is inserted again);
\* a post without a Channel row is skipped.
Persist(u) ==
  /\ batch[u].on
  /\ batch[u].todo = {}
  /\ \E kept \in SUBSET batch[u].held :
       /\ Deduped(batch[u].held, kept)
       /\ rows' = [rows EXCEPT ![u] = [p \in Posts |-> IF p \in kept /\ Listed(p) THEN @[p] + 1 ELSE @[p]]]
  /\ batch' = [batch EXCEPT ![u] = NoBatch]
  /\ UNCHANGED <<fed, raw, lost>>

\* A crash, a Redis, model or database error: what was drained is gone.
BatchDies(u) ==
  /\ batch[u].on
  /\ lost' = lost \cup batch[u].held
  /\ batch' = [batch EXCEPT ![u] = NoBatch]
  /\ UNCHANGED <<fed, raw, rows>>

-----------------------------------------------------------------------------
BatchWorks(u) ==
  BatchStart(u) \/ Persist(u) \/ \E c \in Channels : Drain(u, c)

BatchNext ==
  \/ \E p \in Posts : WritePost(p)
  \/ \E s \in Sources : RawExpires(s)
  \/ \E u \in Users : BatchWorks(u) \/ BatchDies(u)

\* The beat enqueues every active user's batch again and again, and a batch that
\* does not die goes on.
BatchFairness == \A u \in Users : WF_batchVars(BatchWorks(u))

BatchSpec == BatchInit /\ [][BatchNext]_batchVars /\ BatchFairness

-----------------------------------------------------------------------------
Persisted(p) == \E u \in Users : rows[u][p] > 0

\* A post that was buffered is in the buffer, in a running batch, persisted
\* itself or through a near-duplicate, was lost with a batch or its buffer, or
\* has a near-duplicate (maybe itself) that was skipped for want of a Channel
\* row: writes and drains that overlap lose nothing (buffer.py: "can't be
\* silently dropped").
NothingVanishes ==
  \A p \in Posts : fed[p] > 0 =>
    \/ p \in raw \cup lost
    \/ \E u \in Users : p \in batch[u].held
    \/ \E q \in Posts : TextOf[q] = TextOf[p] /\ (Persisted(q) \/ ~Listed(q))

\* One buffered copy of a post ends in one row of one tenant at most, also when
\* several tenants drain the same buffers (buffer.py: "a batch never reprocesses
\* the same posts").
HeldBy(p) == {u \in Users : p \in batch[u].held}
RowsOf(p) == UNION {{u} \X (1..rows[u][p]) : u \in Users}
CopiesUsedOnce ==
  \A p \in Posts :
    Cardinality(RowsOf(p)) + Cardinality(HeldBy(p)) + (IF p \in raw THEN 1 ELSE 0) <= fed[p]

\* No post is lost from sight, and none is used twice.
PostsAccounted == NothingVanishes /\ CopiesUsedOnce

\* From some point on no batch dies before it has drained all its sources.
BatchesDrain ==
  <>[][\A u \in Users :
         batch[u].on /\ ~batch'[u].on => batch[u].todo = {}]_batch

\* As long as batches do not die for ever, a buffered post does not wait for
\* ever, if some watched row asks for the buffer it is in.
BufferedIsProcessed ==
  BatchesDrain =>
    \A p \in Posts :
      (\E u \in Users : \E c \in Watch[u] : BufferKey(c) = SourceOf[p])
        => (p \in raw ~> p \notin raw)

\* batch_processor.py: kinds are mapped "so the buffer key matches what the
\* collector wrote".  It does not for a Twitter or Reddit row that is not spelled
\* canonically.
KeysMatch ==
  \A p \in Posts : p \in raw => \E u \in Users : \E c \in Watch[u] : BufferKey(c) = SourceOf[p]

\* collector/buffer.py: posts are buffered by source "so a channel read once
\* serves every tenant".
ServesEveryTenant ==
  BatchesDrain =>
    \A u \in Users, p \in Posts :
      p \in raw /\ (\E c \in Watch[u] : Canon[c] = SourceOf[p])
        ~> \/ p \in lost
           \/ \E q \in Posts : TextOf[q] = TextOf[p] /\ rows[u][q] > 0
=============================================================================
