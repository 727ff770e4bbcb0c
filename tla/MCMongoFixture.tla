-------------------------- MODULE MCMongoFixture --------------------------
(* MongoFixture for TLC: interchangeable runs.                             *)
EXTENDS MongoFixture, TLC

\* Runs are never ordered or chosen by name.
RunSymmetry == Permutations(Runs)

=============================================================================
