----------------------------- MODULE Evaluation -----------------------------
(***************************************************************************)
(* The offline gate (scripts/eval_gate.py, eval/online_gate.py): how well  *)
(* the score of a story's snapshot tells what became of it.  The stories   *)
(* are split by birth (eval/forward_split.py), those of the last part are  *)
(* labelled against their own median (eval/distribution.py), and the       *)
(* scores are ranked against the labels (eval/metrics.py).                 *)
(*                                                                         *)
(* A story is its snapshot joined to its engagement so far, for one        *)
(* window.  All are of one cohort, the default.  The Brier score and the   *)
(* share of useful alerts are plain means, and left out.                   *)
(***************************************************************************)
EXTENDS Reckoning, FiniteSets, Sequences, FiniteSetsExt, SequencesExt

CONSTANTS
  Grades,    \* scores of a snapshot
  Yields,    \* engagements
  Share,     \* of the stories: those that train, and those that validate
  Band,      \* split_gap_seconds
  MaxStories \* bound: stories

ASSUME EvaluationParameters ==
  /\ Grades \subseteq Nat /\ Yields \subseteq Nat
  /\ \A p \in {"train", "val"} : Share[p][1] \in Nat /\ Share[p][2] \in Nat \ {0}
  /\ AtMost(Plus(Share["train"], Share["val"]), One)
  /\ Band \in Nat /\ MaxStories \in Nat

VARIABLES
  stories, \* the stories of which there is a snapshot
  report   \* what the gate last wrote

evaluationVars == <<stories, report>>

\* Names of clusters follow each other.
Tale == [id : 1..MaxStories, born : Nat, score : Grades, outcome : Yields]
NoReport == [test |-> {}, rest |-> {}, hits |-> {}, roc |-> Zero, pr |-> Zero]

EvaluationTypeOK ==
  /\ stories \subseteq Tale
  /\ report.test \subseteq stories /\ report.rest \subseteq stories
  /\ report.hits \subseteq report.test

EvaluationInit == stories = {} /\ report = NoReport

\* A story is born, at the same time as the last one or later.
Tell ==
  LET n == Cardinality(stories)
      last == Max({t.born : t \in stories} \cup {0})
  IN  /\ n < MaxStories
      /\ \E born \in {last, last + 1}, score \in Grades, outcome \in Yields :
           stories' = stories \cup {[id |-> n + 1, born |-> born, score |-> score,
                                     outcome |-> outcome]}
      /\ report' = NoReport

-----------------------------------------------------------------------------
(* split_by_time.                                                          *)

Earlier(x, y) == x.born < y.born \/ (x.born = y.born /\ x.id < y.id)
\* The number of the last story that trains, and of the last that validates.
Trained(n) == (n * Share["train"][1]) \div Share["train"][2]
Validated(n) == Trained(n) + (n * Share["val"][1]) \div Share["val"][2]

\* Is a story too near to the birth of the first one behind a boundary?
Near(order, x, last) ==
  /\ Band > 0 /\ last < Len(order)
  /\ LET d == x.born - order[last + 1].born IN d >= -Band /\ d <= Band

Ahead(order) == LET v == Validated(Len(order))
                IN  {order[i] : i \in {j \in v + 1..Len(order) : ~Near(order, order[j], v)}}
Behind(order) ==
  LET t == Trained(Len(order))
      v == Validated(Len(order))
  IN  {order[i] : i \in {j \in 1..v : /\ ~Near(order, order[j], t)
                                      /\ j > t => ~Near(order, order[j], v)}}

-----------------------------------------------------------------------------
(* label_partition, by DOUBLING: more than the median.                     *)

Poorer(x, y) == x.outcome < y.outcome \/ (x.outcome = y.outcome /\ x.id < y.id)

\* Twice the median (percentile, 50).
Medians(S) ==
  LET s == Sorted(S, Poorer)
  IN  s[(Len(s) + 1) \div 2].outcome + s[Len(s) \div 2 + 1].outcome

Doubled(S) == {x \in S : 2 * x.outcome > Medians(S)}

-----------------------------------------------------------------------------
(* metrics.                                                                *)

Below(S, x) == Cardinality({y \in S : y.score < x.score})
Level(S, x) == Cardinality({y \in S : y.score = x.score})

\* Twice the rank of x in S, by score.  A plausible bug: those that tie are
\* ranked as they come.
RankAsTheyCome(S, x) ==
  2 * (Below(S, x) + Cardinality({y \in S : y.score = x.score /\ ~Earlier(x, y)}))
\* _tie_averaged_ranks: the mean of the ranks of those that tie.
Rank(S, x) == 2 * Below(S, x) + Level(S, x) + 1

\* roc_auc, by the sum of the ranks of the hits.
RocAuc(S, hits) ==
  LET p == Cardinality(hits)
  IN  Frac(MapThenSumSet(LAMBDA x : Rank(S, x), hits) - p * (p + 1),
           2 * p * (Cardinality(S) - p))

\* average_precision, of an order: the mean over the hits of the share of hits so
\* far.
Precision(order, hits) ==
  LET Found(k) == Cardinality({i \in 1..k : order[i] \in hits})
      Add(sum, k) == IF order[k] \in hits THEN Plus(sum, <<Found(k), k>>) ELSE sum
  IN  Over(FoldLeft(Add, Zero, [k \in 1..Len(order) |-> k]), Cardinality(hits))

\* By score from above, and those that tie as they come.
Higher(x, y) == x.score > y.score \/ (x.score = y.score /\ Earlier(x, y))

\* compute_window_report: no figures for a part of one class, or none.
Evaluate ==
  /\ stories # {}
  /\ LET order == Sorted(stories, Earlier)
         test == Ahead(order)
         hits == IF test = {} THEN {} ELSE Doubled(test)
         none == hits \in {{}, test}
     IN  report' = [test |-> test, rest |-> Behind(order), hits |-> hits,
                    roc |-> IF none THEN Zero ELSE RocAuc(test, hits),
                    pr |-> IF none THEN Zero ELSE Precision(Sorted(test, Higher), hits)]
  /\ UNCHANGED stories

EvaluationNext == Tell \/ Evaluate

-----------------------------------------------------------------------------
(* Properties.                                                             *)

\* The stories tested are born at least the gap after the others ("the last
\* surviving train cluster is born >= gap_seconds before").
PartsAreApart == \A x \in report.test, y \in report.rest : x.born - y.born >= Band

\* No more than half of them count as hits.
HitsAreFew == 2 * Cardinality(report.hits) <= Cardinality(report.test)

\* The ROC-AUC is the share of pairs of a hit and another that the scores tell
\* apart, a tie being half of it; and the PR-AUC depends on those that tie no more
\* than to be between ranking the hits among them last and first.
FiguresAreTrue ==
  LET hits == report.hits
      misses == report.test \ hits
      pairs == hits \X misses
      above == {q \in pairs : q[1].score > q[2].score}
      level == {q \in pairs : q[1].score = q[2].score}
      \* by score, and of those that tie the ones in first before the others
      Ranked(first) ==
        Sorted(report.test, LAMBDA x, y :
          \/ x.score > y.score
          \/ x.score = y.score /\ (IF (x \in first) = (y \in first) THEN Earlier(x, y) ELSE x \in first))
  IN  hits # {} =>
        /\ Same(report.roc, <<2 * Cardinality(above) + Cardinality(level), 2 * Cardinality(pairs)>>)
        /\ AtMost(Precision(Ranked(misses), hits), report.pr)
        /\ AtMost(report.pr, Precision(Ranked(hits), hits))

\* What the gate reports is what it says.
ReportIsHonest == PartsAreApart /\ HitsAreFew /\ FiguresAreTrue
=============================================================================
