---------------------- MODULE MCElasticsearchFixture ----------------------
(* ElasticsearchFixture for TLC: interchangeable runs.                     *)
EXTENDS ElasticsearchFixture, TLC

\* Runs are never ordered or chosen by name.
RunSymmetry == Permutations(Runs)

=============================================================================
