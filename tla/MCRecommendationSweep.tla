----------------------- MODULE MCRecommendationSweep -----------------------
(* RecommendationSweep for TLC: no definition treats a workflow apart. *)
EXTENDS RecommendationSweep, TLC

WorkflowSymmetry == Permutations(Workflows)

=============================================================================
