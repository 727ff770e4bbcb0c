--------------------------- MODULE ReportCompare ---------------------------
(***************************************************************************)
(* The comparisons of ScenarioReports on arbitrary reports.                *)
(*                                                                         *)
(* The comparisons are there to find out reports that are not as they      *)
(* should be, so two reports are built here by any choice, entry by entry, *)
(* with repeated names, names both run and skipped, and blank names and    *)
(* identifiers.  A result has a single identifier: apart from refusing     *)
(* blanks, the comparisons look at match sets only as wholes.              *)
(* (DemoReports has the reports that Run produces.)                        *)
(***************************************************************************)
EXTENDS ScenarioReports

CONSTANTS
    Names,       \* scenario names
    MaxEntries   \* how many scenarios a report may list

ASSUME EntriesAssumption == MaxEntries \in Nat
ASSUME NamesAssumption == Blank \notin Names

VARIABLES
    left,    \* a report, the first argument of a comparison
    right    \* a report, the second one

pair == <<left, right>>

Result == [name : Names \union {Blank},
           ids : {{i} : i \in RecordIds \union {Blank}},
           collapsed : BOOLEAN]

-----------------------------------------------------------------------------

Size(report) == Len(Mentioned(report))

EmptyReports == left = Empty /\ right = Empty

\* Reports that are report with one entry more.
WithResult(report) ==
    {[report EXCEPT !.results = Append(@, r)] : r \in Result}

WithSkipped(report) ==
    {[report EXCEPT !.skipped = Append(@, n)] : n \in Names \union {Blank}}

AppendLeft ==
    /\ Size(left) < MaxEntries
    /\ left' \in WithResult(left) \union WithSkipped(left)
    /\ UNCHANGED right

AppendRight ==
    /\ Size(right) < MaxEntries
    /\ right' \in WithResult(right) \union WithSkipped(right)
    /\ UNCHANGED left

AppendEntry == AppendLeft \/ AppendRight

Building == EmptyReports /\ [][AppendEntry]_pair

-----------------------------------------------------------------------------

\* The memory demo's reports, as candidates for the reference.
References ==
    {[results |-> [i \in 1 .. n |-> [name |-> s[i], ids |-> {answer[s[i]]},
                                     collapsed |-> FALSE]],
      skipped |-> << >>] :
        n \in 0 .. MaxEntries,
        s \in {q \in [1 .. MaxEntries -> Names] : IsInjective(q)},
        answer \in [Names -> RecordIds]}

\* The matrix test compares each candidate with the reference, and a few pairs
\* for equivalence, and leaves it there.  That is enough: two reports which both
\* agree with one reference, or are equivalent and well-formed each by itself,
\* account for the same scenarios, and the comparison of their core intersection
\* finds no difference; it can only find the core empty.
AgreementCarriesOver ==
    (\/ \E reference \in References :
          CompareReference(reference, left) /\ CompareReference(reference, right)
     \/ CompareEquivalent(left, right) /\ Indexed(left) /\ Indexed(right))
    => CompareCoreIntersection(left, right) = Cardinality(Core(left, right))

\* CompareCoreIntersection looks the left report's names up in the right one and
\* not the other way round, but its verdict and its count do not depend on which
\* report is given first.
CoreSymmetric ==
    CompareCoreIntersection(left, right) = CompareCoreIntersection(right, left)

\* "CompareEquivalent verifies that two reports for the same storage semantics
\* contain identical scenario names, skip decisions, adjustment metadata, and
\* final ID sets" (internal/scenario/run.go).
EquivalentMeansIdentical ==
    CompareEquivalent(left, right) =>
        /\ Range(left.results) = Range(right.results)
        /\ Range(left.skipped) = Range(right.skipped)

=============================================================================
