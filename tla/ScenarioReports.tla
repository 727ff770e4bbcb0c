-------------------------- MODULE ScenarioReports --------------------------
(***************************************************************************)
(* Scenario reports and their comparisons (internal/scenario/run.go), on   *)
(* which the claim rests that all adapters and backends agree.             *)
(*                                                                         *)
(* A report lists the scenarios that were run, with the identifiers of the *)
(* records found, and those that were skipped.  A comparison is the        *)
(* conjunction of its early returns, in their order.                       *)
(***************************************************************************)
EXTENDS RecordIdentities, FiniteSets

CONSTANT RecordIds   \* the identifiers of records

\* A report is [results, skipped]; a result is [name, ids, collapsed], where
\* collapsed is UsesMissingCollapsedSet and ids a set, since every comparison
\* drops the order and the repetitions of identifiers.
Empty == [results |-> << >>, skipped |-> << >>]

Listed(report) == [i \in DOMAIN report.results |-> report.results[i].name]

\* Every name the report mentions, in the order the comparisons visit them.
Mentioned(report) == Listed(report) \o report.skipped

\* The result of the scenario with that name.  (Only used where it is unique.)
ResultOf(report, name) ==
    CHOOSE r \in Range(report.results) : r.name = name

-----------------------------------------------------------------------------

\* Mutant of CompareReference: skipped scenarios are not looked up.
CompareReferenceTrustingSkips(reference, candidate) ==
    /\ reference.skipped = << >>
    /\ IsInjective(Listed(reference))
    /\ Range(Listed(candidate)) \subseteq Range(Listed(reference))
    /\ IsInjective(Mentioned(candidate))
    /\ \A r \in Range(candidate.results) :
          r.collapsed \/ CompareIDs(r.ids, ResultOf(reference, r.name).ids)
    /\ Len(Mentioned(candidate)) = Cardinality(Range(Listed(reference)))

\* CompareReference returns nil.
CompareReference(reference, candidate) ==
    /\ reference.skipped = << >>
    /\ IsInjective(Listed(reference))
    /\ Range(Mentioned(candidate)) \subseteq Range(Listed(reference))
    /\ IsInjective(Mentioned(candidate))
    /\ \A r \in Range(candidate.results) :
          r.collapsed \/ CompareIDs(r.ids, ResultOf(reference, r.name).ids)
    /\ Cardinality(Range(Mentioned(candidate))) = Cardinality(Range(Listed(reference)))

\* CompareEquivalent returns nil.
CompareEquivalent(l, r) ==
    /\ IsInjective(Listed(l))
    /\ Len(l.results) = Len(r.results)
    /\ Range(Listed(r)) \subseteq Range(Listed(l))
    /\ IsInjective(Listed(r))
    /\ \A res \in Range(r.results) :
          LET want == ResultOf(l, res.name) IN
          res.collapsed = want.collapsed /\ CompareIDs(res.ids, want.ids)
    /\ Len(l.skipped) = Len(r.skipped)
    /\ Range(r.skipped) \subseteq Range(l.skipped)

\* indexedReport returns nil.
Indexed(report) ==
    /\ Blank \notin Range(Mentioned(report))
    /\ IsInjective(Mentioned(report))

\* Mutant of SameUniverse: the scenario counts are not compared.
SameUniverseUncounted(l, r) == Range(Mentioned(l)) \subseteq Range(Mentioned(r))

\* CompareCoreIntersection's check that both reports account for the same
\* scenarios: as many, and each of the left one's in the right one.
SameUniverse(l, r) ==
    /\ Cardinality(Range(Mentioned(l))) = Cardinality(Range(Mentioned(r)))
    /\ Range(Mentioned(l)) \subseteq Range(Mentioned(r))

\* The scenarios that both reports ran without a storage adjustment.
Core(l, r) ==
    {name \in Range(Listed(l)) \intersect Range(Listed(r)) :
        ~ResultOf(l, name).collapsed /\ ~ResultOf(r, name).collapsed}

\* CompareCoreIntersection: how many match sets it has compared, 0 for an error.
CompareCoreIntersection(l, r) ==
    IF /\ Indexed(l) /\ Indexed(r)
       /\ SameUniverse(l, r)
       /\ \A name \in Core(l, r) :
             CompareIDs(ResultOf(l, name).ids, ResultOf(r, name).ids)
    THEN Cardinality(Core(l, r))
    ELSE 0

=============================================================================
