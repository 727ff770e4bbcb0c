--------------------------- MODULE MCSqlFixture ---------------------------
(* SqlFixture for TLC: interchangeable runs.                               *)
EXTENDS SqlFixture, TLC

\* Runs are never ordered or chosen by name.
RunSymmetry == Permutations(Runs)

=============================================================================
