------------------------------ MODULE Clusters ------------------------------
(***************************************************************************)
(* The stories of one user: what a batch has drained is grouped            *)
(* (pipeline/steps/cluster.py), and each group is merged into a stored     *)
(* cluster that is near and recent, or opens one of its own, all in one    *)
(* transaction (pipeline/batch_processor.py, process_user_batch).          *)
(*                                                                         *)
(* The session does not flush before it queries (storage/database.py,      *)
(* autoflush=False): a query sees the rows flushed so far, the objects in  *)
(* memory are ahead of them until the next flush or the commit.            *)
(*                                                                         *)
(* An embedding is a point on a line, and a similarity of at least some    *)
(* threshold a distance of at most Tight or Loose.  Batches of one user do *)
(* not overlap (TaskLock, BatchExclusion); nothing else writes clusters,   *)
(* and rows of posts are never deleted.                                    *)
(***************************************************************************)
EXTENDS Reckoning, Sequences

CONSTANTS
  Points,   \* embeddings
  Tight,    \* cluster_cosine_threshold, as a distance
  Loose,    \* cluster_merge_cosine_threshold
  Window,   \* cluster_merge_window_seconds
  Span,     \* cluster_max_span_seconds
  MaxPosts, \* bound: posts in all
  MaxTime   \* bound: the clock

ASSUME ClustersParameters ==
  /\ Points \subseteq Nat
  /\ Tight \in Nat /\ Loose \in Nat /\ Tight <= Loose
  /\ Window \in Nat /\ Span \in Nat
  /\ MaxPosts \in Nat /\ MaxTime \in Nat

VARIABLES
  clock,
  used,     \* posts so far
  stored,   \* the clusters, as committed
  seen,     \* ... as a query of the batch under way sees them
  held,     \* ... as its session holds them
  groups,   \* the groups it makes and has still to place
  phase     \* what it is at

clusterVars == <<clock, used, stored, seen, held, groups, phase>>

\* A post is its embedding, and whether a channel of its handle is stored: the
\* reader reports the canonical handle, watchlists store it as it was typed.
Post == [at : Points, known : BOOLEAN]

\* A group: its posts, and those of them whose channel is stored, each as their
\* number and the sum of their points.
Group == [n : Nat \ {0}, sum : Nat, known : Nat, knownSum : Nat]

\* A cluster: its rows of posts as their number and the sum of their points.
\* pure, a history: was every post of it stored, and every merge made with no
\* earlier change of it waiting for a flush?
Cluster == [centroid : Nat \X (Nat \ {0}), first : Nat, updated : Nat,
            n : Nat, sum : Nat, pure : BOOLEAN]

ClustersTypeOK ==
  /\ clock \in 0..MaxTime
  /\ used \in 0..MaxPosts
  /\ stored \in Seq(Cluster) /\ seen \in Seq(Cluster) /\ held \in Seq(Cluster)
  /\ groups \in Seq(Group)
  /\ phase \in {"off", "sorting", "placing"}

ClustersInit ==
  /\ clock = 0 /\ used = 0
  /\ stored = <<>> /\ seen = <<>> /\ held = <<>>
  /\ groups = <<>>
  /\ phase = "off"

-----------------------------------------------------------------------------
(* Similarity.                                                             *)

\* Of the points f[i] of indices S, those nearest to x.
Nearest(f, S, x) == {i \in S : \A j \in S : AtMost(Apart(f[i], x), Apart(f[j], x))}

-----------------------------------------------------------------------------
(* cluster.run: a post joins the nearest group within the tight threshold, *)
(* the last of them if several are as near, or seeds a group.              *)

Seed(p) == [n |-> 1, sum |-> p.at, known |-> IF p.known THEN 1 ELSE 0,
            knownSum |-> IF p.known THEN p.at ELSE 0]
Added(g, p) == [n |-> g.n + 1, sum |-> g.sum + p.at,
                known |-> g.known + (IF p.known THEN 1 ELSE 0),
                knownSum |-> g.knownSum + (IF p.known THEN p.at ELSE 0)]
Mean(g) == <<g.sum, g.n>>

Join(gs, p) ==
  LET mean == [i \in DOMAIN gs |-> Mean(gs[i])]
      near == {i \in DOMAIN gs : AtMost(Apart(mean[i], <<p.at, 1>>), <<Tight, 1>>)}
      best == Nearest(mean, near, <<p.at, 1>>)
  IN  IF near = {} THEN Append(gs, Seed(p))
      ELSE [gs EXCEPT ![CHOOSE i \in best : \A j \in best : j <= i] = Added(@, p)]

StartBatch ==
  /\ phase = "off"
  /\ phase' = "sorting"
  /\ seen' = stored /\ held' = stored
  /\ UNCHANGED <<clock, used, stored, groups>>

\* The next post, in the order in which the sources were drained.
Sort ==
  /\ phase = "sorting" /\ used < MaxPosts
  /\ \E p \in Post : groups' = Join(groups, p)
  /\ used' = used + 1
  /\ UNCHANGED <<clock, stored, seen, held, phase>>

-----------------------------------------------------------------------------
(* The loop over the groups.                                               *)

\* A plausible bug: a cluster that is kept fresh is taken up for ever.
RecentForEver(c) == c.updated >= clock - Window
Recent(c) == c.updated >= clock - Window /\ c.first >= clock - Span

\* _find_mergeable_cluster: as flushed; equally near ones come in any order.
Mergeable(g) ==
  LET centroid == [i \in DOMAIN seen |-> seen[i].centroid]
  IN  Nearest(centroid,
              {i \in DOMAIN seen : /\ Recent(seen[i])
                                   /\ AtMost(Apart(centroid[i], Mean(g)), <<Loose, 1>>)},
              Mean(g))

\* A plausible bug: both centroids count the same.
MergedEqually(old, oldCount, new, newCount) ==
  <<old[1] * new[2] + new[1] * old[2], 2 * old[2] * new[2]>>
\* _merged_centroid.
Merged(old, oldCount, new, newCount) ==
  <<old[1] * oldCount * new[2] + new[1] * newCount * old[2],
    old[2] * new[2] * (oldCount + newCount)>>

\* The posts of g are added to c; one without a channel is skipped.
WithPosts(c, g) ==
  [c EXCEPT !.n = @ + g.known, !.sum = @ + g.knownSum, !.pure = @ /\ g.known = g.n]

\* The centroid in memory is merged by the number of rows a query finds.
Refreshed(c, flushed, g) ==
  [c EXCEPT !.centroid = Merged(@, flushed.n, Mean(g), g.n), !.updated = clock,
            !.pure = @ /\ c = flushed]

Merge(i) ==
  /\ held' = [held EXCEPT ![i] =
                 WithPosts(Refreshed(@, seen[i], Head(groups)), Head(groups))]
  /\ UNCHANGED seen

\* A new row is flushed for its id, and all that waits is flushed with it.
OpenStory ==
  LET g == Head(groups)
      new == [centroid |-> Mean(g), first |-> clock, updated |-> clock,
              n |-> 0, sum |-> 0, pure |-> TRUE]
  IN  /\ Mergeable(g) = {}
      /\ seen' = Append(held, new)
      /\ held' = Append(held, WithPosts(new, g))

Place ==
  /\ groups # <<>>
  /\ groups' = Tail(groups) /\ phase' = "placing"
  /\ UNCHANGED <<clock, used, stored>>
  /\ OpenStory \/ \E i \in Mergeable(Head(groups)) : Merge(i)

EndBatch == phase' = "off" /\ seen' = <<>> /\ held' = <<>> /\ groups' = <<>>

CommitBatch ==
  /\ phase # "off" /\ groups = <<>>
  /\ stored' = held
  /\ EndBatch
  /\ UNCHANGED <<clock, used>>

\* An error or a crash: the transaction is rolled back.
BatchFails ==
  /\ phase # "off"
  /\ EndBatch
  /\ UNCHANGED <<clock, used, stored>>

Hour ==
  /\ clock < MaxTime
  /\ clock' = clock + 1
  /\ UNCHANGED <<used, stored, seen, held, groups, phase>>

ClustersNext == StartBatch \/ Sort \/ Place \/ CommitBatch \/ BatchFails \/ Hour

-----------------------------------------------------------------------------
(* Properties.                                                             *)

CentroidOf(c) == c.n > 0 /\ Same(c.centroid, <<c.sum, c.n>>)

\* Over all batches, merges and crashes a centroid is the mean of the posts of
\* its cluster, each counted once - as long as no post of it was skipped and no
\* batch merged two groups into it without a flush in between (batch_processor:
\* "a running mean weighted by current members").
CentroidIsMean == \A i \in DOMAIN stored : stored[i].pure => CentroidOf(stored[i])

\* The same without the condition: false, as the second of two groups is
\* weighed against the rows flushed before the first.
WeightedByMembers ==
  \A i \in DOMAIN stored : stored[i].n > 0 => CentroidOf(stored[i])

\* However often it is refreshed, a story takes up no post after Span ("a viral
\* EVENT stays one cluster while boilerplate can't accrete").
StoryEnds == \A i \in DOMAIN stored : stored[i].updated <= stored[i].first + Span

\* A story keeps its centre and its end.
StoriesHold == CentroidIsMean /\ StoryEnds
=============================================================================
