----------------------- MODULE MCElasticsearchPolicy -----------------------
(* ElasticsearchPolicy for TLC: interchangeable runs.                      *)
EXTENDS ElasticsearchPolicy, TLC

\* Runs are never ordered or chosen by name.
RunSymmetry == Permutations(Runs)

=============================================================================
