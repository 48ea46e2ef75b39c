----------------------------- MODULE MCScoring -----------------------------
(***************************************************************************)
(* TLC instance of Scoring: two ticks at once; the first user has two      *)
(* clusters, of one topic or of two, the second one none.                  *)
(***************************************************************************)
EXTENDS Scoring

CONSTANTS c1, c2, t1, t2

TwoClusters == {c1, c2}
AllOfTheFirst == [c \in TwoClusters |-> 1]
OneTopicOrTwo == {[c \in TwoClusters |-> "one"],
                  [c \in TwoClusters |-> IF c = c1 THEN "one" ELSE "other"]}
TwoTicks == {t1, t2}
=============================================================================
