--------------------------- MODULE MCLdapFixture ---------------------------
(* LdapFixture for TLC: interchangeable runs.                              *)
EXTENDS LdapFixture, TLC

\* Runs are never ordered or chosen by name.
RunSymmetry == Permutations(Runs)

=============================================================================
