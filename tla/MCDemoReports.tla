--------------------------- MODULE MCDemoReports ---------------------------
(* DemoReports for TLC: one canonical scenario of each kind, and one seam  *)
(* case.                                                                   *)
EXTENDS DemoReports

\* An ordinary scenario, one whose match set grows where missing is stored as
\* null, which LDAP's compiler cannot express, and the one that cannot be
\* represented there.
MCScenarios ==
    <<[name |-> "scalar equality", distinct |-> FALSE, ldap |-> TRUE,
       exact |-> {"r03"}, collapsed |-> {"r03"}],
      [name |-> "null", distinct |-> FALSE, ldap |-> FALSE,
       exact |-> {"r03"}, collapsed |-> {"r03", "r04"}],
      [name |-> "missing state", distinct |-> TRUE, ldap |-> FALSE,
       exact |-> {"r04"}, collapsed |-> {"r04"}]>>

MCSeamCases == <<[name |-> "search null_value explicit null", want |-> {"r03"}]>>

=============================================================================
