------------------------------- MODULE Tenant -------------------------------
(***************************************************************************)
(* The rows of one tenant that a step reads, keeps in an ORM session and   *)
(* writes later: the watchlists (module Watchlists), the stories as        *)
(* batches make them (module Clusters), one story as the scorer judges it  *)
(* (module Verdicts), and the snapshots of many stories as the gate judges *)
(* the scorer (module Evaluation).  A batch reads of the watchlists only   *)
(* which sources there are and writes none of them, no request touches a   *)
(* cluster, of a story the scorer only reads, and the gate only reads at   *)
(* all, so that each part shows all that can happen to it.                 *)
(***************************************************************************)
EXTENDS Watchlists, Clusters, Verdicts, Evaluation

VARIABLE part  \* the rows that are worked on

vars == <<part, watchlistVars, clusterVars, verdictVars, evaluationVars>>

Parts == {"watchlists", "stories", "scores", "gate"}

TypeOK ==
  /\ part \in Parts
  /\ WatchlistsTypeOK /\ ClustersTypeOK /\ VerdictsTypeOK /\ EvaluationTypeOK

Init ==
  /\ part \in Parts
  /\ WatchlistsInit /\ ClustersInit /\ VerdictsInit /\ EvaluationInit

Serving ==
  part = "watchlists" /\ WatchlistsNext /\ UNCHANGED <<part, clusterVars, verdictVars, evaluationVars>>
Batching ==
  part = "stories" /\ ClustersNext /\ UNCHANGED <<part, watchlistVars, verdictVars, evaluationVars>>
Judging ==
  part = "scores" /\ VerdictsNext /\ UNCHANGED <<part, watchlistVars, clusterVars, evaluationVars>>
Gating ==
  part = "gate" /\ EvaluationNext /\ UNCHANGED <<part, watchlistVars, clusterVars, verdictVars>>

Next == Serving \/ Batching \/ Judging \/ Gating

Spec == Init /\ [][Next]_vars
=============================================================================
