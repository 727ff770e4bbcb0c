-------------------------- MODULE MCReportCompare --------------------------
(* ReportCompare for TLC: interchangeable names and identifiers.           *)
EXTENDS ReportCompare, TLC

\* Names and identifiers are only compared for equality.
Renaming == Permutations(Names) \union Permutations(RecordIds)

=============================================================================
