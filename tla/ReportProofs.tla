---------------------------- MODULE ReportProofs ----------------------------
(***************************************************************************)
(* Proofs about scenario reports: about their comparisons in ReportCompare,*)
(* for any two reports, and about the demos of DemoReports that print them,*)
(* for any demos, scenarios, seam cases and identifiers.                   *)
(*                                                                         *)
(* The comparisons look names up in one direction and make up for the      *)
(* other one by comparing numbers: of scenarios, of results, of skipped    *)
(* names.  A set that lies within a finite set of the same size is that    *)
(* set (SameSize), and a sequence without repetitions has as many values   *)
(* as it is long (RangeFacts), so both directions follow (UniverseFacts).  *)
(*                                                                         *)
(* A demo's report holds, at every point of Run, only right results, and   *)
(* mentions exactly the scenarios that Run has come past, each once        *)
(* (RightSoFar, Accounted): each entry has a name that is not yet there    *)
(* (PastFacts), and so adding it keeps all of this (MoreResults,           *)
(* MoreSkipped).  What a demo has printed are therefore complete reports,  *)
(* for its backends in their order (PrintedRight), and with how far it has *)
(* got (Underway) this gives ExitStatus.  PrintedAgree is then about two   *)
(* complete reports, wherever they come from: their results of one name    *)
(* come from one scenario (RightAgree), they run and skip what their       *)
(* backends should (CompleteFacts), and some scenario is common to all     *)
(* (CoreExists, the only use of that assumption).                          *)
(***************************************************************************)
EXTENDS ReportCompare, DemoReports, FiniteSetTheorems, TLAPS

Texts == Names \union {Blank}

\* The reports of any length.
Reports == [results : Seq(Result), skipped : Seq(Texts)]

IInv == left \in Reports /\ right \in Reports

-----------------------------------------------------------------------------

\* A sequence has finitely many values: as many as it is long, if none repeats.
LEMMA RangeFacts ==
    ASSUME NEW S, NEW s \in Seq(S)
    PROVE  /\ IsFiniteSet(Range(s)) /\ Cardinality(Range(s)) \in Nat
           /\ IsInjective(s) => Cardinality(Range(s)) = Len(s)
<1>1. DOMAIN s = 1 .. Len(s) /\ Len(s) \in Nat
    OBVIOUS
<1>2. IsFiniteSet(1 .. Len(s)) /\ Cardinality(1 .. Len(s)) = Len(s)
    <2>1. 1 \in Int /\ Len(s) \in Int /\ (1 > Len(s) => Len(s) = 0)
        BY <1>1
    <2>2. /\ IsFiniteSet(1 .. Len(s))
          /\ Cardinality(1 .. Len(s)) = IF 1 > Len(s) THEN 0 ELSE Len(s) - 1 + 1
        BY <2>1, FS_Interval, Zenon
    <2> QED BY <2>1, <2>2
<1>3. s \in Surjection(1 .. Len(s), Range(s))
    BY <1>1 DEF Range, Surjection
<1>4. /\ IsFiniteSet(Range(s))
      /\ Cardinality(Range(s)) = Cardinality(1 .. Len(s)) <=> s \in Injection(1 .. Len(s), Range(s))
    BY <1>2, <1>3, FS_Surjection
<1>5. IsInjective(s) => s \in Injection(1 .. Len(s), Range(s))
    BY <1>1, <1>3 DEF IsInjective, Injection, Surjection
<1> QED BY <1>2, <1>4, <1>5, FS_CardinalityType

\* Appending one sequence to another puts their values together.
LEMMA ConcatFacts ==
    ASSUME NEW S, NEW s \in Seq(S), NEW t \in Seq(S)
    PROVE  /\ s \o t \in Seq(S)
           /\ Range(s \o t) = Range(s) \union Range(t)
           /\ IsInjective(s \o t) <=> /\ IsInjective(s) /\ IsInjective(t)
                                      /\ Range(s) \intersect Range(t) = {}
<1>1. /\ s \o t \in Seq(S)
      /\ DOMAIN (s \o t) = 1 .. (Len(s) + Len(t))
      /\ DOMAIN s = 1 .. Len(s) /\ DOMAIN t = 1 .. Len(t)
      /\ Len(s) \in Nat /\ Len(t) \in Nat
    OBVIOUS
<1>2. /\ \A i \in 1 .. Len(s) : i \in DOMAIN (s \o t) /\ (s \o t)[i] = s[i]
      /\ \A i \in 1 .. Len(t) : Len(s) + i \in DOMAIN (s \o t) /\ (s \o t)[Len(s) + i] = t[i]
    BY <1>1
<1>3. ASSUME NEW i \in DOMAIN (s \o t)
      PROVE  \/ i \in 1 .. Len(s) /\ (s \o t)[i] = s[i]
             \/ i - Len(s) \in 1 .. Len(t) /\ (s \o t)[i] = t[i - Len(s)]
    BY <1>1, <1>3
<1>4. Range(s \o t) = Range(s) \union Range(t)
    <2>1. ASSUME NEW x \in Range(s \o t)
          PROVE  x \in Range(s) \union Range(t)
        BY <1>1, <1>3 DEF Range
    <2>2. ASSUME NEW x \in Range(s)
          PROVE  x \in Range(s \o t)
        BY <1>1, <1>2 DEF Range
    <2>3. ASSUME NEW x \in Range(t)
          PROVE  x \in Range(s \o t)
        BY <1>1, <1>2 DEF Range
    <2> QED BY <2>1, <2>2, <2>3
<1>5. ASSUME IsInjective(s \o t)
      PROVE  IsInjective(s) /\ IsInjective(t) /\ Range(s) \intersect Range(t) = {}
    <2>1. \A i, j \in DOMAIN (s \o t) : (s \o t)[i] = (s \o t)[j] => i = j
        BY <1>5 DEF IsInjective
    <2>2. \A i, j \in DOMAIN s : s[i] = s[j] => i = j
        BY <1>1, <1>2, <2>1
    <2>3. ASSUME NEW i \in DOMAIN t, NEW j \in DOMAIN t, t[i] = t[j]
          PROVE  i = j
        <3>1. Len(s) + i = Len(s) + j
            BY <1>1, <1>2, <2>1, <2>3
        <3> QED BY <1>1, <3>1
    <2>4. ASSUME NEW i \in DOMAIN s, NEW j \in DOMAIN t
          PROVE  s[i] # t[j]
        <3>1. i # Len(s) + j
            BY <1>1
        <3> QED BY <1>1, <1>2, <2>1, <3>1
    <2>5. Range(s) \intersect Range(t) = {}
        BY <2>4 DEF Range
    <2> QED BY <2>2, <2>3, <2>5 DEF IsInjective
<1>6. ASSUME IsInjective(s), IsInjective(t), Range(s) \intersect Range(t) = {}
      PROVE  IsInjective(s \o t)
    <2>1. /\ \A i, j \in DOMAIN s : s[i] = s[j] => i = j
          /\ \A i, j \in DOMAIN t : t[i] = t[j] => i = j
          /\ \A i \in DOMAIN s, j \in DOMAIN t : s[i] # t[j]
        BY <1>6 DEF IsInjective, Range
    <2>2. ASSUME NEW i \in DOMAIN (s \o t), NEW j \in DOMAIN (s \o t),
                 (s \o t)[i] = (s \o t)[j]
          PROVE  i = j
        <3>1. /\ \/ i \in 1 .. Len(s) /\ (s \o t)[i] = s[i]
                 \/ i - Len(s) \in 1 .. Len(t) /\ (s \o t)[i] = t[i - Len(s)]
              /\ \/ j \in 1 .. Len(s) /\ (s \o t)[j] = s[j]
                 \/ j - Len(s) \in 1 .. Len(t) /\ (s \o t)[j] = t[j - Len(s)]
            BY <1>3
        <3>2. i \in Int /\ j \in Int
            BY <1>1
        <3>3. CASE i \in 1 .. Len(s) /\ (s \o t)[i] = s[i]
            <4>1. j \in 1 .. Len(s) /\ (s \o t)[j] = s[j]
                BY <1>1, <2>1, <2>2, <3>1, <3>3
            <4> QED BY <1>1, <2>1, <2>2, <3>3, <4>1
        <3>4. CASE i - Len(s) \in 1 .. Len(t) /\ (s \o t)[i] = t[i - Len(s)]
            <4>1. j - Len(s) \in 1 .. Len(t) /\ (s \o t)[j] = t[j - Len(s)]
                BY <1>1, <2>1, <2>2, <3>1, <3>4
            <4>2. i - Len(s) = j - Len(s)
                BY <1>1, <2>1, <2>2, <3>4, <4>1
            <4> QED BY <1>1, <3>2, <4>2
        <3> QED BY <3>1, <3>3, <3>4
    <2> QED BY <2>2 DEF IsInjective
<1> QED BY <1>1, <1>4, <1>5, <1>6

\* Of two finite sets of the same size, neither can contain the other properly.
LEMMA SameSize ==
    ASSUME NEW S, NEW T, IsFiniteSet(T), S \subseteq T, Cardinality(S) = Cardinality(T)
    PROVE  S = T
BY FS_Subset

\* The scenarios that a report mentions: those it ran and those it skipped.
LEMMA ReportFacts ==
    ASSUME NEW R, NEW S, \A r \in R : r.name \in S,
           NEW rep, rep.results \in Seq(R), rep.skipped \in Seq(S)
    PROVE  /\ Listed(rep) \in Seq(S)
           /\ Mentioned(rep) \in Seq(S)
           /\ Len(Listed(rep)) = Len(rep.results)
           /\ Range(Mentioned(rep)) = Range(Listed(rep)) \union Range(rep.skipped)
           /\ IsInjective(Mentioned(rep)) <=>
                 /\ IsInjective(Listed(rep)) /\ IsInjective(rep.skipped)
                 /\ Range(Listed(rep)) \intersect Range(rep.skipped) = {}
           /\ IsFiniteSet(Range(Mentioned(rep)))
<1>1. \A i \in 1 .. Len(rep.results) : rep.results[i].name \in S
    OBVIOUS
<1>2. /\ Listed(rep) \in Seq(S)
      /\ Len(Listed(rep)) = Len(rep.results)
    BY <1>1 DEF Listed
<1>3. /\ Mentioned(rep) \in Seq(S)
      /\ Range(Mentioned(rep)) = Range(Listed(rep)) \union Range(rep.skipped)
      /\ IsInjective(Mentioned(rep)) <=>
            /\ IsInjective(Listed(rep)) /\ IsInjective(rep.skipped)
            /\ Range(Listed(rep)) \intersect Range(rep.skipped) = {}
    BY <1>2, ConcatFacts DEF Mentioned
<1>4. IsFiniteSet(Range(Mentioned(rep)))
    BY <1>3, RangeFacts
<1> QED BY <1>2, <1>3, <1>4

\* The same of the reports that are compared.
LEMMA MentionedFacts ==
    ASSUME NEW rep \in Reports
    PROVE  /\ Listed(rep) \in Seq(Texts) /\ rep.skipped \in Seq(Texts)
           /\ Mentioned(rep) \in Seq(Texts)
           /\ Len(Listed(rep)) = Len(rep.results)
           /\ Range(Mentioned(rep)) = Range(Listed(rep)) \union Range(rep.skipped)
           /\ IsInjective(Mentioned(rep)) => IsInjective(rep.skipped)
           /\ IsFiniteSet(Range(Mentioned(rep)))
<1>1. rep.results \in Seq(Result) /\ rep.skipped \in Seq(Texts)
    BY DEF Reports
<1>2. \A r \in Result : r.name \in Texts
    BY DEF Result, Texts
<1> QED BY <1>1, <1>2, ReportFacts

\* A name that a report lists is that of one of its results.
LEMMA ResultOfFacts ==
    ASSUME NEW rep, NEW name \in Range(Listed(rep))
    PROVE  ResultOf(rep, name) \in Range(rep.results) /\ ResultOf(rep, name).name = name
<1>1. \E r \in Range(rep.results) : r.name = name
    BY DEF Listed, Range
<1> QED BY <1>1 DEF ResultOf

-----------------------------------------------------------------------------

\* Neither the identifiers' comparison nor the core depends on the order.
LEMMA Symmetric ==
    /\ \A got, want : CompareIDs(got, want) <=> CompareIDs(want, got)
    /\ \A l, r : Core(l, r) = Core(r, l)
BY DEF CompareIDs, Core

\* Having the same scenarios does not depend on the order either.
LEMMA UniverseFacts ==
    ASSUME NEW l \in Reports, NEW r \in Reports
    PROVE  SameUniverse(l, r) <=> Range(Mentioned(l)) = Range(Mentioned(r))
<1>1. IsFiniteSet(Range(Mentioned(l))) /\ IsFiniteSet(Range(Mentioned(r)))
    BY MentionedFacts
<1> QED BY <1>1, SameSize DEF SameUniverse

\* CompareCoreIntersection is symmetric, for reports of any length.
LEMMA CompareSymmetric ==
    ASSUME NEW l \in Reports, NEW r \in Reports
    PROVE  CompareCoreIntersection(l, r) = CompareCoreIntersection(r, l)
<1>1. SameUniverse(l, r) <=> SameUniverse(r, l)
    BY UniverseFacts
<1>2. Core(l, r) = Core(r, l)
    BY Symmetric
<1>3. (\A name \in Core(l, r) : CompareIDs(ResultOf(l, name).ids, ResultOf(r, name).ids))
      <=> (\A name \in Core(r, l) : CompareIDs(ResultOf(r, name).ids, ResultOf(l, name).ids))
    BY <1>2, Symmetric
<1> QED BY <1>1, <1>2, <1>3 DEF CompareCoreIntersection

\* A candidate that agrees with a reference accounts for exactly its scenarios, and
\* what it has run without an adjustment has found the reference's records.
LEMMA ReferenceFacts ==
    ASSUME NEW reference \in Reports, Blank \notin Range(Listed(reference)),
           NEW rep \in Reports, CompareReference(reference, rep)
    PROVE  /\ Indexed(rep)
           /\ Range(Mentioned(rep)) = Range(Listed(reference))
           /\ \A name \in Range(Listed(rep)) :
                 ~ResultOf(rep, name).collapsed =>
                     CompareIDs(ResultOf(rep, name).ids, ResultOf(reference, name).ids)
<1>1. /\ Range(Mentioned(rep)) \subseteq Range(Listed(reference))
      /\ IsInjective(Mentioned(rep))
      /\ \A r \in Range(rep.results) :
            r.collapsed \/ CompareIDs(r.ids, ResultOf(reference, r.name).ids)
      /\ Cardinality(Range(Mentioned(rep))) = Cardinality(Range(Listed(reference)))
    BY DEF CompareReference
<1>2. IsFiniteSet(Range(Listed(reference)))
    BY MentionedFacts, RangeFacts
<1>3. Range(Mentioned(rep)) = Range(Listed(reference))
    BY <1>1, <1>2, SameSize
<1>4. ASSUME NEW name \in Range(Listed(rep)), ~ResultOf(rep, name).collapsed
      PROVE  CompareIDs(ResultOf(rep, name).ids, ResultOf(reference, name).ids)
    BY <1>1, <1>4, ResultOfFacts
<1> QED BY <1>1, <1>3, <1>4 DEF Indexed

\* Two reports that agree with one reference are found to agree with each other.
LEMMA ReferenceCarriesOver ==
    ASSUME NEW reference \in Reports, Blank \notin Range(Listed(reference)),
           NEW l \in Reports, CompareReference(reference, l),
           NEW r \in Reports, CompareReference(reference, r)
    PROVE  CompareCoreIntersection(l, r) = Cardinality(Core(l, r))
<1>1. Indexed(l) /\ Indexed(r) /\ SameUniverse(l, r)
    BY ReferenceFacts, UniverseFacts
<1>2. ASSUME NEW name \in Core(l, r)
      PROVE  CompareIDs(ResultOf(l, name).ids, ResultOf(r, name).ids)
    <2>1. /\ name \in Range(Listed(l)) /\ name \in Range(Listed(r))
          /\ ~ResultOf(l, name).collapsed /\ ~ResultOf(r, name).collapsed
        BY DEF Core
    <2>2. /\ CompareIDs(ResultOf(l, name).ids, ResultOf(reference, name).ids)
          /\ CompareIDs(ResultOf(r, name).ids, ResultOf(reference, name).ids)
        BY <2>1, ReferenceFacts
    <2> QED BY <2>2 DEF CompareIDs
<1> QED BY <1>1, <1>2 DEF CompareCoreIntersection

\* So are two well-formed reports that are equivalent.
LEMMA EquivalenceCarriesOver ==
    ASSUME NEW l \in Reports, NEW r \in Reports,
           CompareEquivalent(l, r), Indexed(l), Indexed(r)
    PROVE  CompareCoreIntersection(l, r) = Cardinality(Core(l, r))
<1>1. /\ IsInjective(Listed(l)) /\ IsInjective(Listed(r))
      /\ Len(l.results) = Len(r.results) /\ Len(l.skipped) = Len(r.skipped)
      /\ Range(Listed(r)) \subseteq Range(Listed(l))
      /\ Range(r.skipped) \subseteq Range(l.skipped)
    BY DEF CompareEquivalent
<1>2. IsInjective(l.skipped) /\ IsInjective(r.skipped)
    BY MentionedFacts DEF Indexed
<1>3. /\ Listed(l) \in Seq(Texts) /\ Listed(r) \in Seq(Texts)
      /\ l.skipped \in Seq(Texts) /\ r.skipped \in Seq(Texts)
      /\ Len(Listed(l)) = Len(Listed(r))
    BY <1>1, MentionedFacts
<1>4. Range(Listed(r)) = Range(Listed(l))
    <2>1. /\ IsFiniteSet(Range(Listed(l)))
          /\ Cardinality(Range(Listed(r))) = Cardinality(Range(Listed(l)))
        BY <1>1, <1>3, RangeFacts
    <2> QED BY <1>1, <2>1, SameSize
<1>5. Range(r.skipped) = Range(l.skipped)
    <2>1. /\ IsFiniteSet(Range(l.skipped))
          /\ Cardinality(Range(r.skipped)) = Cardinality(Range(l.skipped))
        BY <1>1, <1>2, <1>3, RangeFacts
    <2> QED BY <1>1, <2>1, SameSize
<1>6. SameUniverse(l, r)
    BY <1>4, <1>5, MentionedFacts, UniverseFacts
<1>7. ASSUME NEW name \in Core(l, r)
      PROVE  CompareIDs(ResultOf(l, name).ids, ResultOf(r, name).ids)
    <2>1. ResultOf(r, name) \in Range(r.results) /\ ResultOf(r, name).name = name
        BY ResultOfFacts DEF Core
    <2>2. CompareIDs(ResultOf(r, name).ids, ResultOf(l, name).ids)
        BY <2>1 DEF CompareEquivalent
    <2> QED BY <2>2, Symmetric
<1> QED BY <1>6, <1>7 DEF CompareCoreIntersection

-----------------------------------------------------------------------------

\* A memory demo's report is a report, and has no blank name.
LEMMA ReferenceIsReport ==
    ASSUME NEW reference \in References
    PROVE  reference \in Reports /\ Blank \notin Range(Listed(reference))
<1>1. PICK n \in 0 .. MaxEntries, s \in [1 .. MaxEntries -> Names], answer \in [Names -> RecordIds] :
         reference = [results |-> [i \in 1 .. n |-> [name |-> s[i], ids |-> {answer[s[i]]},
                                                     collapsed |-> FALSE]],
                      skipped |-> << >>]
    BY DEF References
<1>2. n \in Nat /\ \A i \in 1 .. n : s[i] \in Names /\ answer[s[i]] \in RecordIds
    BY EntriesAssumption
<1>3. \A i \in 1 .. n : [name |-> s[i], ids |-> {answer[s[i]]}, collapsed |-> FALSE] \in Result
    BY <1>2 DEF Result
<1>4. reference.results \in Seq(Result) /\ Len(reference.results) = n
    BY <1>1, <1>2, <1>3
<1>5. reference \in Reports
    BY <1>1, <1>4 DEF Reports, Texts
<1>6. \A name \in Range(Listed(reference)) : name \in Names
    BY <1>1, <1>2 DEF Listed, Range
<1> QED BY <1>5, <1>6, NamesAssumption

\* The reports are built as sequences of results and of names.
THEOREM InvariantHolds == Building => []IInv
<1>1. EmptyReports => IInv
    BY DEF EmptyReports, IInv, Empty, Reports, Texts
<1>2. ASSUME NEW rep \in Reports
      PROVE  WithResult(rep) \union WithSkipped(rep) \subseteq Reports
    <2>1. rep.results \in Seq(Result) /\ rep.skipped \in Seq(Texts)
        BY DEF Reports
    <2>2. ASSUME NEW r \in Result
          PROVE  [rep EXCEPT !.results = Append(@, r)] \in Reports
        <3>1. Append(rep.results, r) \in Seq(Result)
            BY <2>1
        <3> QED BY <3>1 DEF Reports
    <2>3. ASSUME NEW n \in Texts
          PROVE  [rep EXCEPT !.skipped = Append(@, n)] \in Reports
        <3>1. Append(rep.skipped, n) \in Seq(Texts)
            BY <2>1
        <3> QED BY <3>1 DEF Reports
    <2> QED BY <2>2, <2>3 DEF WithResult, WithSkipped, Texts
<1>3. IInv /\ [AppendEntry]_pair => IInv'
    BY <1>2 DEF IInv, AppendEntry, AppendLeft, AppendRight, pair
<1> QED BY <1>1, <1>3, PTL DEF Building

\* CompareCoreIntersection's verdict and count do not depend on which report is given
\* first, although it looks only the left one's names up (run.go).
THEOREM CoreSymmetricHolds == Building => []CoreSymmetric
<1>1. IInv => CoreSymmetric
    BY CompareSymmetric DEF IInv, CoreSymmetric
<1> QED BY InvariantHolds, <1>1, PTL

\* Comparing each candidate with the reference, and a few pairs for equivalence, is
\* enough, as the matrix test does: all pairs then agree on their core intersection.
THEOREM AgreementCarriesOverHolds == Building => []AgreementCarriesOver
<1>1. IInv => AgreementCarriesOver
    <2> SUFFICES ASSUME IInv,
                        \/ \E reference \in References : /\ CompareReference(reference, left)
                                                         /\ CompareReference(reference, right)
                        \/ CompareEquivalent(left, right) /\ Indexed(left) /\ Indexed(right)
                 PROVE  CompareCoreIntersection(left, right) = Cardinality(Core(left, right))
        BY DEF AgreementCarriesOver
    <2>1. left \in Reports /\ right \in Reports
        BY DEF IInv
    <2>2. ASSUME NEW reference \in References,
                 CompareReference(reference, left), CompareReference(reference, right)
          PROVE  CompareCoreIntersection(left, right) = Cardinality(Core(left, right))
        BY <2>1, <2>2, ReferenceIsReport, ReferenceCarriesOver
    <2>3. CASE CompareEquivalent(left, right) /\ Indexed(left) /\ Indexed(right)
        BY <2>1, <2>3, EquivalenceCarriesOver
    <2> QED BY <2>2, <2>3
<1> QED BY InvariantHolds, <1>1, PTL

-----------------------------------------------------------------------------
(* The demos of DemoReports.                                               *)

Backends == {"reference", "mongo", "ldap", "elasticsearch", "mysql", "postgres"}

\* The scenarios that a backend runs, and those it skips.
RunBy(backend) == {i \in Applicable(backend) : ~Skipped(Scenarios[i], backend)}
SkippedBy(backend) == Applicable(backend) \ RunBy(backend)

ScenarioResult(i, backend) ==
    ResultFor(Scenarios[i], backend, ExpectedIDs(Scenarios[i], backend))

SeamResult(i) == [name |-> SeamCases[i].name, ids |-> SeamCases[i].want, collapsed |-> FALSE]
SeamResults == [i \in DOMAIN SeamCases |-> SeamResult(i)]

\* The results a report may have: of the canonical cases, with the right answers.
RightResults(backend) ==
    {ScenarioResult(i, backend) : i \in RunBy(backend)} \union
        IF backend = "elasticsearch" THEN {SeamResult(i) : i \in DOMAIN SeamCases} ELSE {}

RightReports(backend) ==
    [results : Seq(RightResults(backend)), skipped : Seq(NamesAt(SkippedBy(backend)))]

\* What holds any backend's reports.
AnyResults == UNION {RightResults(b) : b \in Backends}
AnyReports == [results : Seq(AnyResults), skipped : Seq(NamesOf(Scenarios))]

\* The reports that Run returns without an error, with the seam cases' results.
CompleteReports(backend) ==
    {rep \in RightReports(backend) :
        Range(Mentioned(rep)) = Expected(backend) /\ IsInjective(Mentioned(rep))}

\* What may stand on an output.
Entries == [backend : Backends, passed : Nat, skipped : Nat, report : AnyReports]

\* Some backend's report has not been printed, or not as a whole.
SomeMissing(p) ==
    \E i \in 1 .. Len(selection[p]) : i \in 1 .. Len(printed[p]) => ~Whole(printed[p][i])

\* Where a demo is with its backends, what it has printed, and its exit code.
Underway(p) ==
    /\ stage[p] = "idle" => selection[p] = << >> /\ at[p] = 1 /\ printed[p] = << >>
    /\ stage[p] \notin {"idle", "done"} =>
          /\ selection[p] \in Selections
          /\ at[p] <= Len(selection[p])
          /\ Len(printed[p]) = at[p] - 1
    /\ stage[p] # "done" => code[p] = 9
    /\ code[p] = 0 => Len(printed[p]) = Len(selection[p])
    /\ code[p] = 1 => SomeMissing(p)

\* A report that its header confirms is complete, and any other is right as far
\* as it goes.
EntryRight(entry) ==
    /\ entry.report \in RightReports(entry.backend)
    /\ Whole(entry) => entry.report \in CompleteReports(entry.backend)

\* What a demo has printed is right, and about its backends in their order; only
\* the last report of a demo that has failed may be cut short.
PrintedRight(p) ==
    \A i \in 1 .. Len(printed[p]) :
        /\ printed[p][i].backend = selection[p][i]
        /\ EntryRight(printed[p][i])
        /\ ~Whole(printed[p][i]) => i = Len(printed[p]) /\ code[p] = 1

\* What Run has built so far is right.
RightSoFar(p) ==
    /\ stage[p] \in {"running", "seams", "closing", "writing"} =>
          report[p] \in RightReports(Backend(p))
    /\ stage[p] = "seams" => Backend(p) = "elasticsearch" /\ ToRun(p) = {}

\* All of this of one demo.
DemoInv(p) ==
    /\ selection[p] \in Selections \union {<< >>}
    /\ at[p] \in 1 .. 2
    /\ stage[p] \in {"idle", "opening", "running", "seams", "failing", "closing", "writing", "done"}
    /\ position[p] \in 1 .. Len(Scenarios) + 1
    /\ report[p] \in AnyReports
    /\ printed[p] \in Seq(Entries)
    /\ code[p] \in {0, 1, 2, 9}
    /\ Accounted(p) /\ Underway(p) /\ PrintedRight(p) /\ RightSoFar(p)

DemosInv ==
    /\ Typed
    /\ report \in [Demos -> AnyReports]
    /\ printed \in [Demos -> Seq(Entries)]
    /\ \A p \in Demos : DemoInv(p)

-----------------------------------------------------------------------------

\* There are one or two backends to run, and all are backends.
LEMMA SelectionFacts ==
    ASSUME NEW s \in Selections
    PROVE  /\ s \in Seq(Backends) /\ Len(s) \in {1, 2}
           /\ \A i \in 1 .. Len(s) : s[i] \in Backends
<1>1. CASE \E b \in Backends : s = <<b>>
    BY <1>1
<1>2. CASE s = <<"mysql", "postgres">>
    <2>1. "mysql" \in Backends /\ "postgres" \in Backends
        BY DEF Backends
    <2> QED BY <1>2, <2>1
<1> QED BY <1>1, <1>2 DEF Selections, Backends

\* A demo that is underway has a backend.
LEMMA BackendFacts ==
    ASSUME DemosInv, NEW p \in Demos, stage[p] \notin {"idle", "done"}
    PROVE  /\ Backend(p) \in Backends
           /\ at[p] \in 1 .. Len(selection[p]) /\ Len(selection[p]) \in {1, 2}
<1>1. selection[p] \in Selections /\ at[p] <= Len(selection[p]) /\ at[p] \in 1 .. 2
    BY DEF DemosInv, DemoInv, Underway
<1> QED BY <1>1, SelectionFacts DEF Backend

\* What the assumption says of the scenarios and cases.
LEMMA CaseFacts ==
    /\ Len(Scenarios) \in Nat /\ DOMAIN Scenarios = 1 .. Len(Scenarios)
    /\ Len(SeamCases) \in Nat /\ DOMAIN SeamCases = 1 .. Len(SeamCases)
    /\ \A i, j \in DOMAIN Scenarios : Scenarios[i].name = Scenarios[j].name => i = j
    /\ \A i, j \in DOMAIN SeamCases : SeamCases[i].name = SeamCases[j].name => i = j
    /\ \A i \in DOMAIN Scenarios, j \in DOMAIN SeamCases : Scenarios[i].name # SeamCases[j].name
    /\ \A i \in DOMAIN Scenarios : Scenarios[i].name # Blank
    /\ \A i \in DOMAIN SeamCases : SeamCases[i].name # Blank
    /\ \A i \in DOMAIN Scenarios : \A backend :
          /\ ExpectedIDs(Scenarios[i], backend) \subseteq RecordIds
          /\ ~UsesCollapsed(Scenarios[i], backend) =>
                ExpectedIDs(Scenarios[i], backend) = Scenarios[i].exact
    /\ \A i \in DOMAIN SeamCases : SeamCases[i].want \subseteq RecordIds
    /\ Blank \notin RecordIds
BY ScenariosAssumption DEF IsList, NamesOf, ExpectedIDs, UsesCollapsed

\* A right result is that of one scenario or case, and has its name.
LEMMA RightResultFacts ==
    ASSUME NEW backend, NEW r \in RightResults(backend)
    PROVE  /\ r.name \in Expected(backend) \ NamesAt(SkippedBy(backend))
           /\ r.ids \subseteq RecordIds
           /\ \/ \E i \in RunBy(backend) : r = ScenarioResult(i, backend)
              \/ backend = "elasticsearch" /\ \E i \in DOMAIN SeamCases : r = SeamResult(i)
<1>1. CASE \E i \in RunBy(backend) : r = ScenarioResult(i, backend)
    <2>1. PICK i \in RunBy(backend) : r = ScenarioResult(i, backend)
        BY <1>1
    <2>2. i \in Applicable(backend) /\ i \in DOMAIN Scenarios
        BY DEF RunBy, Applicable
    <2>3. r.name = Scenarios[i].name /\ r.ids = ExpectedIDs(Scenarios[i], backend)
        BY <2>1 DEF ScenarioResult, ResultFor
    <2>4. r.name \notin NamesAt(SkippedBy(backend))
        BY <2>2, <2>3, CaseFacts DEF NamesAt, SkippedBy, Applicable
    <2> QED BY <1>1, <2>2, <2>3, <2>4, CaseFacts DEF Expected, NamesAt
<1>2. CASE backend = "elasticsearch" /\ \E i \in DOMAIN SeamCases : r = SeamResult(i)
    <2>1. PICK i \in DOMAIN SeamCases : r = SeamResult(i)
        BY <1>2
    <2>2. r.name = SeamCases[i].name /\ r.ids = SeamCases[i].want
        BY <2>1 DEF SeamResult
    <2>3. r.name \notin NamesAt(SkippedBy(backend))
        BY <2>2, CaseFacts DEF NamesAt, SkippedBy, Applicable
    <2> QED BY <1>2, <2>2, <2>3, CaseFacts DEF Expected, NamesOf
<1> QED BY <1>1, <1>2 DEF RightResults

\* The reports of any backend are among AnyReports, and ReportFacts applies to them.
LEMMA RightReportFacts ==
    ASSUME NEW backend \in Backends, NEW rep \in RightReports(backend)
    PROVE  /\ rep \in AnyReports
           /\ rep.results \in Seq(RightResults(backend))
           /\ rep.skipped \in Seq(NamesAt(SkippedBy(backend)))
           /\ rep.skipped \in Seq(Expected(backend))
           /\ \A r \in RightResults(backend) : r.name \in Expected(backend)
<1>1. rep.results \in Seq(RightResults(backend)) /\ rep.skipped \in Seq(NamesAt(SkippedBy(backend)))
    BY DEF RightReports
<1>2. RightResults(backend) \subseteq AnyResults
    BY DEF AnyResults
<1>3. NamesAt(SkippedBy(backend)) \subseteq NamesOf(Scenarios) \intersect Expected(backend)
    BY DEF NamesAt, SkippedBy, Applicable, NamesOf, Expected
<1>4. rep.results \in Seq(AnyResults)
    BY <1>1, <1>2
<1>5. rep.skipped \in Seq(NamesOf(Scenarios)) /\ rep.skipped \in Seq(Expected(backend))
    BY <1>1, <1>3
<1>6. \A r \in RightResults(backend) : r.name \in Expected(backend)
    BY RightResultFacts
<1>7. rep \in AnyReports
    BY <1>4, <1>5 DEF RightReports, AnyReports
<1> QED BY <1>1, <1>5, <1>6, <1>7

\* Appending a value is appending a sequence of it alone.
LEMMA AppendedFacts ==
    ASSUME NEW S, NEW s \in Seq(S), NEW x \in S
    PROVE  Append(s, x) = s \o <<x>>
<1>1. <<x>> \in Seq(S) /\ Len(<<x>>) = 1 /\ <<x>>[1] = x
    OBVIOUS
<1>2. /\ s \o <<x>> \in Seq(S) /\ Len(s \o <<x>>) = Len(s) + 1
      /\ \A i \in 1 .. Len(s) : (s \o <<x>>)[i] = s[i]
      /\ (s \o <<x>>)[Len(s) + 1] = x
    BY <1>1
<1>3. /\ Append(s, x) \in Seq(S) /\ Len(Append(s, x)) = Len(s) + 1
      /\ \A i \in 1 .. Len(s) : Append(s, x)[i] = s[i]
      /\ Append(s, x)[Len(s) + 1] = x
    OBVIOUS
<1>4. \A i \in 1 .. (Len(s) + 1) : i \in 1 .. Len(s) \/ i = Len(s) + 1
    OBVIOUS
<1> QED BY <1>2, <1>3, <1>4

NamesIn(results) == [i \in DOMAIN results |-> results[i].name]

\* The names in two sequences of results, one after the other.
LEMMA NamesFacts ==
    ASSUME NEW R, NEW S, \A r \in R : r.name \in S, NEW s \in Seq(R), NEW t \in Seq(R)
    PROVE  /\ NamesIn(s) \in Seq(S) /\ NamesIn(t) \in Seq(S)
           /\ NamesIn(s \o t) = NamesIn(s) \o NamesIn(t)
           /\ Range(NamesIn(t)) = {r.name : r \in Range(t)}
<1>1. /\ NamesIn(s) \in Seq(S) /\ Len(NamesIn(s)) = Len(s)
      /\ \A i \in 1 .. Len(s) : NamesIn(s)[i] = s[i].name
    BY DEF NamesIn
<1>2. /\ NamesIn(t) \in Seq(S) /\ Len(NamesIn(t)) = Len(t)
      /\ \A i \in 1 .. Len(t) : NamesIn(t)[i] = t[i].name
    BY DEF NamesIn
<1>3. /\ s \o t \in Seq(R) /\ Len(s \o t) = Len(s) + Len(t)
      /\ Len(s) \in Nat /\ Len(t) \in Nat
    OBVIOUS
<1>4. /\ NamesIn(s \o t) \in Seq(S) /\ Len(NamesIn(s \o t)) = Len(s) + Len(t)
      /\ \A i \in 1 .. (Len(s) + Len(t)) : NamesIn(s \o t)[i] = (s \o t)[i].name
    BY <1>3 DEF NamesIn
<1> DEFINE a == NamesIn(s)
           b == NamesIn(t)
<1> HIDE DEF a, b
<1>5. /\ a \in Seq(S) /\ b \in Seq(S) /\ Len(a) = Len(s) /\ Len(b) = Len(t)
      /\ \A i \in 1 .. Len(s) : a[i] = s[i].name
      /\ \A i \in 1 .. Len(t) : b[i] = t[i].name
    BY <1>1, <1>2 DEF a, b
<1>6. /\ a \o b \in Seq(S) /\ Len(a \o b) = Len(s) + Len(t)
      /\ \A i \in 1 .. (Len(s) + Len(t)) : (a \o b)[i] = (s \o t)[i].name
    <2>1. ASSUME NEW i \in 1 .. (Len(s) + Len(t))
          PROVE  (a \o b)[i] = (s \o t)[i].name
        <3>1. CASE i \in 1 .. Len(s)
            <4>1. (s \o t)[i] = s[i] /\ (a \o b)[i] = a[i]
                BY <1>5, <3>1
            <4> QED BY <1>5, <3>1, <4>1
        <3>2. CASE i - Len(s) \in 1 .. Len(t)
            <4>1. (s \o t)[i] = t[i - Len(s)]
                BY <3>2
            <4>2. (a \o b)[i] = b[i - Len(s)]
                BY <1>5, <3>2
            <4> QED BY <1>5, <3>2, <4>1, <4>2
        <3>3. i \in 1 .. Len(s) \/ i - Len(s) \in 1 .. Len(t)
            BY <1>3
        <3> QED BY <3>1, <3>2, <3>3
    <2>2. a \o b \in Seq(S) /\ Len(a \o b) = Len(a) + Len(b)
        <3>1. a \in Seq(S) /\ b \in Seq(S)
            BY <1>5
        <3> QED BY <3>1
    <2> QED BY <1>5, <2>1, <2>2
<1>7. Range(NamesIn(t)) = {r.name : r \in Range(t)}
    <2>1. DOMAIN NamesIn(t) = DOMAIN t /\ \A i \in DOMAIN t : NamesIn(t)[i] = t[i].name
        BY DEF NamesIn
    <2>2. ASSUME NEW x \in Range(NamesIn(t))
          PROVE  x \in {r.name : r \in Range(t)}
        <3>1. PICK i \in DOMAIN t : x = t[i].name
            BY <2>1 DEF Range
        <3>2. t[i] \in Range(t)
            BY DEF Range
        <3> QED BY <3>1, <3>2
    <2>3. ASSUME NEW x \in {r.name : r \in Range(t)}
          PROVE  x \in Range(NamesIn(t))
        <3>1. PICK r \in Range(t) : x = r.name
            OBVIOUS
        <3>2. PICK i \in DOMAIN t : r = t[i]
            BY DEF Range
        <3>3. x = NamesIn(t)[i] /\ i \in DOMAIN NamesIn(t)
            BY <2>1, <3>1, <3>2
        <3> QED BY <3>3 DEF Range
    <2> QED BY <2>2, <2>3
<1>8. NamesIn(s \o t) = a \o b
    <2> DEFINE c == NamesIn(s \o t)
               d == a \o b
    <2> HIDE DEF c, d
    <2>1. /\ c \in Seq(S) /\ Len(c) = Len(s) + Len(t)
          /\ d \in Seq(S) /\ Len(d) = Len(s) + Len(t)
          /\ \A i \in 1 .. (Len(s) + Len(t)) : c[i] = d[i]
        BY <1>4, <1>6 DEF c, d
    <2>2. c = d
        BY <2>1
    <2> QED BY <2>2 DEF c, d
<1> QED BY <1>1, <1>2, <1>7, <1>8 DEF a, b

\* A right report stays right, and mentions more, when right results with new
\* names are added to it.
LEMMA MoreResults ==
    ASSUME NEW backend \in Backends, NEW rep \in RightReports(backend),
           IsInjective(Mentioned(rep)),
           NEW u \in Seq(RightResults(backend)), NEW new,
           new = [rep EXCEPT !.results = @ \o u],
           IsInjective(NamesIn(u)),
           \A r \in Range(u) : r.name \notin Range(Mentioned(rep))
    PROVE  /\ new \in RightReports(backend)
           /\ Range(Mentioned(new)) = Range(Mentioned(rep)) \union {r.name : r \in Range(u)}
           /\ IsInjective(Mentioned(new))
<1> DEFINE S == Expected(backend)
           R == RightResults(backend)
<1>1. /\ rep.results \in Seq(R) /\ rep.skipped \in Seq(S)
      /\ rep.skipped \in Seq(NamesAt(SkippedBy(backend)))
      /\ \A r \in R : r.name \in S
    BY RightReportFacts
<1>2. new.results = rep.results \o u /\ new.skipped = rep.skipped
    BY DEF RightReports
<1>3. new.results \in Seq(R)
    BY <1>1, <1>2
<1>4. new \in RightReports(backend)
    BY <1>1, <1>2, <1>3 DEF RightReports
<1>5. Listed(rep) = NamesIn(rep.results) /\ Listed(new) = NamesIn(new.results)
    BY DEF Listed, NamesIn
<1>6. u \in Seq(R)
    OBVIOUS
<1> HIDE DEF S, R
<1>7. /\ Listed(rep) \in Seq(S) /\ NamesIn(u) \in Seq(S)
      /\ Listed(new) = Listed(rep) \o NamesIn(u)
      /\ Range(NamesIn(u)) = {r.name : r \in Range(u)}
    <2>1. /\ NamesIn(rep.results) \in Seq(S) /\ NamesIn(u) \in Seq(S)
          /\ NamesIn(rep.results \o u) = NamesIn(rep.results) \o NamesIn(u)
          /\ Range(NamesIn(u)) = {r.name : r \in Range(u)}
        BY <1>1, <1>6, NamesFacts
    <2> QED BY <1>2, <1>5, <2>1
<1>8. /\ Range(Mentioned(rep)) = Range(Listed(rep)) \union Range(rep.skipped)
      /\ IsInjective(Listed(rep)) /\ IsInjective(rep.skipped)
      /\ Range(Listed(rep)) \intersect Range(rep.skipped) = {}
    BY <1>1, ReportFacts
<1>9. \A n \in Range(NamesIn(u)) : n \notin Range(Listed(rep)) /\ n \notin Range(rep.skipped)
    BY <1>7, <1>8
<1>10. /\ Range(Listed(new)) = Range(Listed(rep)) \union Range(NamesIn(u))
       /\ IsInjective(Listed(new))
    <2>1. Range(Listed(rep)) \intersect Range(NamesIn(u)) = {}
        BY <1>9
    <2>2. /\ Range(Listed(rep) \o NamesIn(u)) = Range(Listed(rep)) \union Range(NamesIn(u))
          /\ IsInjective(Listed(rep) \o NamesIn(u))
        BY <1>7, <1>8, <2>1, ConcatFacts
    <2> QED BY <1>7, <2>2
<1>11. /\ Range(Mentioned(new)) = Range(Listed(new)) \union Range(new.skipped)
       /\ IsInjective(Mentioned(new)) <=>
             /\ IsInjective(Listed(new)) /\ IsInjective(new.skipped)
             /\ Range(Listed(new)) \intersect Range(new.skipped) = {}
    BY <1>1, <1>2, <1>3, ReportFacts
<1>12. Range(Listed(new)) \intersect Range(new.skipped) = {}
    BY <1>2, <1>8, <1>9, <1>10
<1> QED BY <1>2, <1>4, <1>7, <1>8, <1>10, <1>11, <1>12

\* The same for one name more among those skipped.
LEMMA MoreSkipped ==
    ASSUME NEW backend \in Backends, NEW rep \in RightReports(backend),
           IsInjective(Mentioned(rep)),
           NEW name \in NamesAt(SkippedBy(backend)), name \notin Range(Mentioned(rep)), NEW new,
           new = [rep EXCEPT !.skipped = Append(@, name)]
    PROVE  /\ new \in RightReports(backend)
           /\ Range(Mentioned(new)) = Range(Mentioned(rep)) \union {name}
           /\ IsInjective(Mentioned(new))
<1> DEFINE S == Expected(backend)
<1>1. /\ rep.results \in Seq(RightResults(backend)) /\ rep.skipped \in Seq(S)
      /\ rep.skipped \in Seq(NamesAt(SkippedBy(backend)))
      /\ \A r \in RightResults(backend) : r.name \in S
    BY RightReportFacts
<1>2. new.results = rep.results /\ new.skipped = Append(rep.skipped, name)
    BY DEF RightReports
<1>3. new \in RightReports(backend)
    <2>1. new.skipped \in Seq(NamesAt(SkippedBy(backend)))
        BY <1>1, <1>2
    <2> QED BY <1>1, <1>2, <2>1 DEF RightReports
<1>4. new.skipped \in Seq(S) /\ name \in S
    BY <1>3, RightReportFacts DEF NamesAt, SkippedBy, Expected
<1>5. Listed(new) = Listed(rep)
    BY <1>2 DEF Listed
<1> HIDE DEF S
<1>6. /\ Range(Mentioned(rep)) = Range(Listed(rep)) \union Range(rep.skipped)
      /\ IsInjective(Listed(rep)) /\ IsInjective(rep.skipped)
      /\ Range(Listed(rep)) \intersect Range(rep.skipped) = {}
    BY <1>1, ReportFacts
<1>7. /\ <<name>> \in Seq(S) /\ Range(<<name>>) = {name} /\ IsInjective(<<name>>)
    BY <1>4 DEF Range, IsInjective
<1>8. Range(new.skipped) = Range(rep.skipped) \union {name} /\ IsInjective(new.skipped)
    <2>1. new.skipped = rep.skipped \o <<name>>
        BY <1>1, <1>2, <1>4, AppendedFacts
    <2>2. Range(rep.skipped) \intersect Range(<<name>>) = {}
        BY <1>6, <1>7
    <2>3. /\ Range(rep.skipped \o <<name>>) = Range(rep.skipped) \union Range(<<name>>)
          /\ IsInjective(rep.skipped \o <<name>>)
        BY <1>1, <1>6, <1>7, <2>2, ConcatFacts
    <2> QED BY <1>7, <2>1, <2>3
<1>9. /\ Range(Mentioned(new)) = Range(Listed(new)) \union Range(new.skipped)
      /\ IsInjective(Mentioned(new)) <=>
            /\ IsInjective(Listed(new)) /\ IsInjective(new.skipped)
            /\ Range(Listed(new)) \intersect Range(new.skipped) = {}
    BY <1>1, <1>2, <1>4, ReportFacts
<1> QED BY <1>3, <1>5, <1>6, <1>8, <1>9

\* A demo's step changes nothing of the other demos.
LEMMA Frame ==
    ASSUME DemosInv, NEW p \in Demos, Step(p)
    PROVE  /\ selection' = [selection EXCEPT ![p] = selection'[p]]
           /\ at' = [at EXCEPT ![p] = at'[p]]
           /\ stage' = [stage EXCEPT ![p] = stage'[p]]
           /\ position' = [position EXCEPT ![p] = position'[p]]
           /\ report' = [report EXCEPT ![p] = report'[p]]
           /\ printed' = [printed EXCEPT ![p] = printed'[p]]
           /\ code' = [code EXCEPT ![p] = code'[p]]
           /\ expired' \in SUBSET Demos
<1> USE DEF DemosInv, Typed
<1>1. CASE ParseFlags(p) \/ Start(p)
    BY <1>1 DEF ParseFlags, Start, Exit
<1>2. CASE Open(p) \/ OpenFails(p)
    BY <1>2 DEF Open, OpenFails, Exit
<1>3. CASE Skip(p)
    BY <1>3 DEF Skip
<1>4. CASE Execute(p)
    BY <1>4 DEF Execute
<1>5. CASE ScenarioFails(p) \/ Finish(p)
    BY <1>5 DEF ScenarioFails, Finish
<1>6. CASE RunSeams(p)
    BY <1>6 DEF RunSeams
<1>7. CASE SeamsFail(p) \/ Expire(p)
    BY <1>7 DEF SeamsFail, Expire, Exit
<1>8. CASE Close(p)
    BY <1>8 DEF Close, Exit
<1>9. CASE Write(p) \/ WriteFails(p)
    BY <1>9 DEF Write, WriteFails, Exit
<1> QED BY <1>1, <1>2, <1>3, <1>4, <1>5, <1>6, <1>7, <1>8, <1>9 DEF Step

\* So the invariant only has to be shown of the demo that takes the step.
LEMMA OneDemo ==
    ASSUME DemosInv, NEW p \in Demos, Step(p), DemoInv(p)'
    PROVE  DemosInv'
<1>1. /\ selection' = [selection EXCEPT ![p] = selection'[p]]
      /\ at' = [at EXCEPT ![p] = at'[p]]
      /\ stage' = [stage EXCEPT ![p] = stage'[p]]
      /\ position' = [position EXCEPT ![p] = position'[p]]
      /\ report' = [report EXCEPT ![p] = report'[p]]
      /\ printed' = [printed EXCEPT ![p] = printed'[p]]
      /\ code' = [code EXCEPT ![p] = code'[p]]
      /\ expired' \in SUBSET Demos
    BY Frame
<1>2. /\ Typed'
      /\ report' \in [Demos -> AnyReports]
      /\ printed' \in [Demos -> Seq(Entries)]
    BY <1>1 DEF DemosInv, DemoInv, Typed
<1>3. ASSUME NEW q \in Demos, q # p
      PROVE  DemoInv(q)'
    <2>1. /\ selection'[q] = selection[q] /\ at'[q] = at[q] /\ stage'[q] = stage[q]
          /\ position'[q] = position[q] /\ report'[q] = report[q]
          /\ printed'[q] = printed[q] /\ code'[q] = code[q]
        BY <1>1, <1>3 DEF DemosInv, Typed
    <2>2. DemoInv(q)
        BY DEF DemosInv
    <2>3. Backend(q)' = Backend(q) /\ ToRun(q)' = ToRun(q)
        BY <2>1 DEF Backend, ToRun
    <2> QED BY <2>1, <2>2, <2>3
            DEF DemoInv, Accounted, Underway, SomeMissing, PrintedRight, RightSoFar
<1> QED BY <1>2, <1>3 DEF DemosInv

\* A demo fails: it stops, or is about to close the backend and then stop.
LEMMA Failing ==
    ASSUME DemosInv, NEW p \in Demos, stage[p] \notin {"idle", "done"},
           selection'[p] = selection[p], at'[p] = at[p], position'[p] = position[p],
           report'[p] = report[p], printed'[p] = printed[p],
           \/ stage'[p] = "failing" /\ code'[p] = code[p]
           \/ stage'[p] = "done" /\ code'[p] = 1
    PROVE  DemoInv(p)'
<1>1. DemoInv(p)
    BY DEF DemosInv
<1>2. at[p] \in 1 .. Len(selection[p]) /\ at[p] \notin 1 .. Len(printed[p]) /\ code[p] = 9
    BY <1>1, BackendFacts DEF DemoInv, Underway
<1>3. SomeMissing(p)'
    BY <1>2 DEF SomeMissing
<1>4. PrintedRight(p)'
    BY <1>1, <1>2 DEF DemoInv, PrintedRight
<1>5. Underway(p)'
    BY <1>1, <1>2, <1>3 DEF DemoInv, Underway
<1> QED BY <1>1, <1>4, <1>5 DEF DemoInv, Accounted, RightSoFar

\* What Run has left to do once it has come past the scenario whose turn it is,
\* which the report does not mention yet.
LEMMA PastFacts ==
    ASSUME DemosInv, NEW p \in Demos, stage[p] = "running", NEW i \in Due(p),
           selection'[p] = selection[p], at'[p] = at[p], position'[p] = i + 1
    PROVE  /\ Backend(p)' = Backend(p)
           /\ i \in Applicable(Backend(p)) /\ i \in 1 .. Len(Scenarios)
           /\ Scenarios[i].name \notin Range(Mentioned(report[p]))
           /\ NamesAt(Applicable(Backend(p)) \ ToRun(p)') =
                 Range(Mentioned(report[p])) \union {Scenarios[i].name}
<1>1. Backend(p)' = Backend(p)
    BY DEF Backend
<1>2. /\ i \in Applicable(Backend(p)) /\ i >= position[p]
      /\ \A j \in Applicable(Backend(p)) : j >= position[p] => i <= j
    BY DEF Due, ToRun
<1>3. /\ Applicable(Backend(p)) \subseteq 1 .. Len(Scenarios) /\ Len(Scenarios) \in Nat
      /\ \A j \in Applicable(Backend(p)) : Scenarios[j].name = Scenarios[i].name => j = i
    BY <1>2, CaseFacts DEF Applicable
<1>4. position[p] \in Nat
    BY <1>3 DEF DemosInv, DemoInv
<1>5. Range(Mentioned(report[p])) = NamesAt(Applicable(Backend(p)) \ ToRun(p))
    BY DEF DemosInv, DemoInv, Accounted
<1>6. Scenarios[i].name \notin Range(Mentioned(report[p]))
    BY <1>3, <1>5 DEF NamesAt, Due
<1>7. \A j \in Applicable(Backend(p)) : (j >= i + 1) <=> (j >= position[p] /\ j # i)
    BY <1>2, <1>3, <1>4
<1>8. Applicable(Backend(p)) \ ToRun(p)' = (Applicable(Backend(p)) \ ToRun(p)) \union {i}
    BY <1>1, <1>2, <1>7 DEF ToRun
<1>9. NamesAt(Applicable(Backend(p)) \ ToRun(p)') =
          NamesAt(Applicable(Backend(p)) \ ToRun(p)) \union {Scenarios[i].name}
    BY <1>8 DEF NamesAt
<1> QED BY <1>1, <1>2, <1>3, <1>5, <1>6, <1>9

\* So the invariant holds again if the report now mentions it.
LEMMA Past ==
    ASSUME DemosInv, NEW p \in Demos, stage[p] = "running", NEW i \in Due(p),
           selection'[p] = selection[p], at'[p] = at[p], position'[p] = i + 1,
           stage'[p] = "running", printed'[p] = printed[p], code'[p] = code[p],
           report'[p] \in RightReports(Backend(p)),
           Range(Mentioned(report'[p])) = Range(Mentioned(report[p])) \union {Scenarios[i].name},
           IsInjective(Mentioned(report'[p]))
    PROVE  DemoInv(p)'
<1>1. DemoInv(p) /\ Backend(p) \in Backends
    BY BackendFacts DEF DemosInv
<1>2. report'[p] \in AnyReports
    BY <1>1, RightReportFacts
<1>3. position'[p] \in 1 .. Len(Scenarios) + 1
    <2>1. i \in 1 .. Len(Scenarios)
        BY PastFacts
    <2>2. Len(Scenarios) \in Nat
        BY CaseFacts
    <2> QED BY <2>1, <2>2
<1>4. Backend(p)' = Backend(p)
    BY DEF Backend
<1>5. Accounted(p)'
    BY <1>4, PastFacts DEF Accounted
<1>6. Underway(p)' /\ PrintedRight(p)'
    BY <1>1 DEF DemoInv, Underway, PrintedRight
<1>7. RightSoFar(p)'
    BY <1>4 DEF RightSoFar
<1> QED BY <1>1, <1>2, <1>3, <1>5, <1>6, <1>7 DEF DemoInv

LEMMA SkipRight ==
    ASSUME DemosInv, NEW p \in Demos, Skip(p)
    PROVE  DemoInv(p)'
<1>1. PICK i \in Due(p) :
          /\ Skipped(Scenarios[i], Backend(p))
          /\ report' = [report EXCEPT ![p].skipped = Append(@, Scenarios[i].name)]
          /\ position' = [position EXCEPT ![p] = i + 1]
    BY DEF Skip
<1>2. /\ stage[p] = "running" /\ selection'[p] = selection[p] /\ at'[p] = at[p]
      /\ stage'[p] = stage[p] /\ printed'[p] = printed[p] /\ code'[p] = code[p]
      /\ position'[p] = i + 1
      /\ report'[p] = [report[p] EXCEPT !.skipped = Append(@, Scenarios[i].name)]
    BY <1>1 DEF Skip, DemosInv, Typed
<1>3. /\ i \in Applicable(Backend(p))
      /\ Scenarios[i].name \notin Range(Mentioned(report[p]))
    BY <1>2, PastFacts
<1>4. Scenarios[i].name \in NamesAt(SkippedBy(Backend(p)))
    BY <1>1, <1>3 DEF NamesAt, SkippedBy, RunBy
<1>5. /\ Backend(p) \in Backends /\ report[p] \in RightReports(Backend(p))
      /\ IsInjective(Mentioned(report[p]))
    BY <1>2, BackendFacts DEF DemosInv, DemoInv, RightSoFar, Accounted
<1>6. /\ report'[p] \in RightReports(Backend(p))
      /\ Range(Mentioned(report'[p])) = Range(Mentioned(report[p])) \union {Scenarios[i].name}
      /\ IsInjective(Mentioned(report'[p]))
    <2> DEFINE b == Backend(p)
               rep == report[p]
               new == report'[p]
               name == Scenarios[i].name
    <2>1. /\ b \in Backends /\ rep \in RightReports(b) /\ IsInjective(Mentioned(rep))
          /\ name \in NamesAt(SkippedBy(b)) /\ name \notin Range(Mentioned(rep))
          /\ new = [rep EXCEPT !.skipped = Append(@, name)]
        BY <1>2, <1>3, <1>4, <1>5
    <2> HIDE DEF b, rep, new, name
    <2>2. /\ new \in RightReports(b)
          /\ Range(Mentioned(new)) = Range(Mentioned(rep)) \union {name}
          /\ IsInjective(Mentioned(new))
        BY <2>1, MoreSkipped
    <2> QED BY <2>2 DEF b, rep, new, name
<1> QED BY <1>2, <1>6, Past

LEMMA ExecuteRight ==
    ASSUME DemosInv, NEW p \in Demos, Execute(p)
    PROVE  DemoInv(p)'
<1>1. PICK i \in Due(p), ids \in SUBSET RecordIds :
          /\ ~Skipped(Scenarios[i], Backend(p))
          /\ IF Accepted(Scenarios[i], Backend(p), ids)
             THEN /\ report' = [report EXCEPT ![p].results =
                                  Append(@, ResultFor(Scenarios[i], Backend(p), ids))]
                  /\ position' = [position EXCEPT ![p] = i + 1]
                  /\ UNCHANGED stage
             ELSE /\ stage' = [stage EXCEPT ![p] = "failing"]
                  /\ UNCHANGED <<report, position>>
    BY DEF Execute
<1>2. /\ stage[p] = "running" /\ selection'[p] = selection[p] /\ at'[p] = at[p]
      /\ printed'[p] = printed[p] /\ code'[p] = code[p]
    BY DEF Execute
<1>3. CASE ~Accepted(Scenarios[i], Backend(p), ids)
    <2>1. /\ stage'[p] = "failing" /\ report'[p] = report[p] /\ position'[p] = position[p]
        BY <1>1, <1>3 DEF DemosInv, Typed
    <2> QED BY <1>2, <2>1, Failing
<1>4. CASE Accepted(Scenarios[i], Backend(p), ids)
    <2> DEFINE r == ScenarioResult(i, Backend(p))
    <2>1. ResultFor(Scenarios[i], Backend(p), ids) = r
        BY <1>4 DEF Accepted, CompareIDs, ScenarioResult
    <2>2. /\ stage'[p] = "running" /\ position'[p] = i + 1
          /\ report'[p] = [report[p] EXCEPT !.results = Append(@, r)]
        BY <1>1, <1>2, <1>4, <2>1 DEF DemosInv, Typed
    <2>3. /\ i \in Applicable(Backend(p))
          /\ Scenarios[i].name \notin Range(Mentioned(report[p]))
        BY <1>2, <2>2, PastFacts
    <2>4. r \in RightResults(Backend(p)) /\ r.name = Scenarios[i].name
        <3>1. i \in RunBy(Backend(p))
            BY <1>1, <2>3 DEF RunBy
        <3> QED BY <3>1 DEF RightResults, ScenarioResult, ResultFor
    <2> HIDE DEF r
    <2>5. /\ Backend(p) \in Backends /\ report[p] \in RightReports(Backend(p))
          /\ IsInjective(Mentioned(report[p]))
        BY <1>2, BackendFacts DEF DemosInv, DemoInv, RightSoFar, Accounted
    <2>6. report[p].results \in Seq(RightResults(Backend(p)))
        BY <2>5, RightReportFacts
    <2>7. Append(report[p].results, r) = report[p].results \o <<r>>
        BY <2>4, <2>6, AppendedFacts
    <2>8. report'[p] = [report[p] EXCEPT !.results = @ \o <<r>>]
        BY <2>2, <2>7
    <2>9. /\ <<r>> \in Seq(RightResults(Backend(p)))
          /\ IsInjective(NamesIn(<<r>>)) /\ Range(<<r>>) = {r}
        BY <2>4 DEF IsInjective, NamesIn, Range
    <2>10. /\ report'[p] \in RightReports(Backend(p))
           /\ Range(Mentioned(report'[p])) = Range(Mentioned(report[p])) \union {q.name : q \in {r}}
           /\ IsInjective(Mentioned(report'[p]))
        <3>1. \A q \in Range(<<r>>) : q.name \notin Range(Mentioned(report[p]))
            BY <2>3, <2>4, <2>9
        <3>2. /\ report'[p] \in RightReports(Backend(p))
              /\ Range(Mentioned(report'[p])) =
                    Range(Mentioned(report[p])) \union {q.name : q \in Range(<<r>>)}
              /\ IsInjective(Mentioned(report'[p]))
            BY <2>5, <2>8, <2>9, <3>1, MoreResults
        <3> QED BY <2>9, <3>2
    <2> QED BY <1>2, <2>2, <2>4, <2>10, Past
<1> QED BY <1>3, <1>4

\* The seam cases are accepted, and added to what Run has reported.
LEMMA SeamsAdded ==
    ASSUME DemosInv, NEW p \in Demos, stage[p] = "seams",
           NEW new, new = [report[p] EXCEPT !.results = @ \o SeamResults]
    PROVE  new \in CompleteReports(Backend(p))
<1>1. /\ Backend(p) = "elasticsearch" /\ ToRun(p) = {}
      /\ report[p] \in RightReports(Backend(p))
      /\ Range(Mentioned(report[p])) = NamesAt(Applicable(Backend(p)))
      /\ IsInjective(Mentioned(report[p]))
    <2>1. RightSoFar(p) /\ Accounted(p)
        BY DEF DemosInv, DemoInv
    <2> QED BY <2>1 DEF RightSoFar, Accounted
<1>2. Backend(p) \in Backends
    BY <1>1 DEF Backends
<1>3. /\ Len(SeamCases) \in Nat /\ DOMAIN SeamCases = 1 .. Len(SeamCases)
      /\ \A i, j \in 1 .. Len(SeamCases) : SeamCases[i].name = SeamCases[j].name => i = j
      /\ \A i \in 1 .. Len(SeamCases) : \A j \in DOMAIN Scenarios :
            Scenarios[j].name # SeamCases[i].name
    BY CaseFacts
<1>4. \A i \in 1 .. Len(SeamCases) :
          SeamResult(i) \in RightResults(Backend(p)) /\ SeamResult(i).name = SeamCases[i].name
    BY <1>1, <1>3 DEF RightResults, SeamResult
<1>5. /\ SeamResults \in Seq(RightResults(Backend(p))) /\ DOMAIN SeamResults = 1 .. Len(SeamCases)
      /\ \A i \in 1 .. Len(SeamCases) : SeamResults[i].name = SeamCases[i].name
    BY <1>3, <1>4 DEF SeamResults
<1>6. IsInjective(NamesIn(SeamResults))
    BY <1>3, <1>5 DEF IsInjective, NamesIn
<1>7. {r.name : r \in Range(SeamResults)} = NamesOf(SeamCases)
    BY <1>3, <1>5 DEF Range, NamesOf
<1>8. ASSUME NEW r \in Range(SeamResults)
      PROVE  r.name \notin Range(Mentioned(report[p]))
    <2>1. PICK i \in 1 .. Len(SeamCases) : r.name = SeamCases[i].name
        BY <1>5 DEF Range
    <2>2. SeamCases[i].name \notin NamesAt(Applicable(Backend(p)))
        BY <1>3 DEF NamesAt, Applicable
    <2> QED BY <1>1, <2>1, <2>2
<1>9. /\ new \in RightReports(Backend(p))
      /\ Range(Mentioned(new)) = Range(Mentioned(report[p])) \union {r.name : r \in Range(SeamResults)}
      /\ IsInjective(Mentioned(new))
    <2> DEFINE b == Backend(p)
               rep == report[p]
    <2>1. /\ b \in Backends /\ rep \in RightReports(b)
          /\ IsInjective(Mentioned(rep)) /\ IsInjective(NamesIn(SeamResults))
          /\ SeamResults \in Seq(RightResults(b)) /\ new = [rep EXCEPT !.results = @ \o SeamResults]
          /\ \A r \in Range(SeamResults) : r.name \notin Range(Mentioned(rep))
        BY <1>1, <1>2, <1>5, <1>6, <1>8
    <2> HIDE DEF b, rep
    <2>2. /\ new \in RightReports(b)
          /\ Range(Mentioned(new)) = Range(Mentioned(rep)) \union {r.name : r \in Range(SeamResults)}
          /\ IsInjective(Mentioned(new))
        BY <2>1, MoreResults
    <2> QED BY <2>2 DEF b, rep
<1> QED BY <1>1, <1>7, <1>9 DEF CompleteReports, Expected

LEMMA RunSeamsRight ==
    ASSUME DemosInv, NEW p \in Demos, RunSeams(p)
    PROVE  DemoInv(p)'
<1>1. PICK answers \in [DOMAIN SeamCases -> SUBSET RecordIds] :
          IF \A i \in DOMAIN SeamCases : CompareIDs(answers[i], SeamCases[i].want)
          THEN /\ report' = [report EXCEPT ![p].results = @ \o
                       [i \in DOMAIN SeamCases |->
                          [name |-> SeamCases[i].name, ids |-> answers[i], collapsed |-> FALSE]]]
               /\ stage' = [stage EXCEPT ![p] = "closing"]
          ELSE /\ stage' = [stage EXCEPT ![p] = "failing"]
               /\ UNCHANGED report
    BY DEF RunSeams
<1>2. /\ stage[p] = "seams" /\ selection'[p] = selection[p] /\ at'[p] = at[p]
      /\ position'[p] = position[p] /\ printed'[p] = printed[p] /\ code'[p] = code[p]
    BY DEF RunSeams
<1>3. CASE \E i \in DOMAIN SeamCases : ~CompareIDs(answers[i], SeamCases[i].want)
    <2>1. stage'[p] = "failing" /\ report'[p] = report[p]
        BY <1>1, <1>3 DEF DemosInv, Typed
    <2> QED BY <1>2, <2>1, Failing
<1>4. CASE \A i \in DOMAIN SeamCases : CompareIDs(answers[i], SeamCases[i].want)
    <2>1. [i \in DOMAIN SeamCases |->
              [name |-> SeamCases[i].name, ids |-> answers[i], collapsed |-> FALSE]] = SeamResults
        BY <1>4 DEF CompareIDs, SeamResults, SeamResult
    <2>2. /\ stage'[p] = "closing"
          /\ report'[p] = [report[p] EXCEPT !.results = @ \o SeamResults]
        BY <1>1, <1>4, <2>1 DEF DemosInv, Typed
    <2>3. report'[p] \in CompleteReports(Backend(p))
        BY <1>2, <2>2, SeamsAdded
    <2>4. Backend(p)' = Backend(p) /\ Backend(p) \in Backends
        BY <1>2, BackendFacts DEF Backend
    <2>5. report'[p] \in RightReports(Backend(p)) /\ report'[p] \in AnyReports
        BY <2>3, <2>4, RightReportFacts DEF CompleteReports
    <2>6. Accounted(p)'
        BY <2>2, <2>3, <2>4 DEF Accounted, CompleteReports
    <2>7. DemoInv(p)
        BY DEF DemosInv
    <2>8. Underway(p)' /\ PrintedRight(p)'
        BY <1>2, <2>2, <2>7 DEF DemoInv, Underway, PrintedRight
    <2>9. RightSoFar(p)'
        BY <2>2, <2>4, <2>5 DEF RightSoFar
    <2> QED BY <1>2, <2>2, <2>5, <2>6, <2>7, <2>8, <2>9 DEF DemoInv
<1> QED BY <1>3, <1>4

\* A report cut short is right as far as it goes, and some line is missing.
LEMMA CutFacts ==
    ASSUME NEW b \in Backends, NEW rep \in RightReports(b), NEW cut \in CutShort(rep)
    PROVE  /\ cut \in RightReports(b)
           /\ Len(cut.results) # Len(rep.results) \/ Len(cut.skipped) # Len(rep.skipped)
<1>1. /\ rep.results \in Seq(RightResults(b)) /\ Len(rep.results) \in Nat
      /\ rep.skipped \in Seq(NamesAt(SkippedBy(b))) /\ Len(rep.skipped) \in Nat
    BY DEF RightReports
<1>2. ASSUME NEW n \in 0 .. Len(rep.results) - 1,
             cut = [results |-> SubSeq(rep.results, 1, n), skipped |-> << >>]
      PROVE  cut \in RightReports(b) /\ Len(cut.results) # Len(rep.results)
    <2>1. SubSeq(rep.results, 1, n) \in Seq(RightResults(b)) /\ Len(SubSeq(rep.results, 1, n)) = n
        BY <1>1
    <2> QED BY <1>1, <1>2, <2>1 DEF RightReports
<1>3. ASSUME NEW n \in 0 .. Len(rep.skipped) - 1,
             cut = [results |-> rep.results, skipped |-> SubSeq(rep.skipped, 1, n)]
      PROVE  cut \in RightReports(b) /\ Len(cut.skipped) # Len(rep.skipped)
    <2>1. /\ SubSeq(rep.skipped, 1, n) \in Seq(NamesAt(SkippedBy(b)))
          /\ Len(SubSeq(rep.skipped, 1, n)) = n
        BY <1>1
    <2> QED BY <1>1, <1>3, <2>1 DEF RightReports
<1> QED BY <1>2, <1>3 DEF CutShort

\* The header counts the lines of the report that is written.
LEMMA OutputFacts ==
    ASSUME NEW p \in Demos, Backend(p) \in Backends, report[p] \in RightReports(Backend(p)),
           NEW written \in RightReports(Backend(p))
    PROVE  /\ Output(p, written) \in Entries
           /\ Output(p, written).backend = selection[p][at[p]]
           /\ Output(p, written).backend = Backend(p) /\ Output(p, written).report = written
           /\ Whole(Output(p, written)) <=>
                 /\ Len(written.results) = Len(report[p].results)
                 /\ Len(written.skipped) = Len(report[p].skipped)
<1>1. Len(report[p].results) \in Nat /\ Len(report[p].skipped) \in Nat
    BY DEF RightReports
<1>2. written \in AnyReports
    BY RightReportFacts
<1> QED BY <1>1, <1>2 DEF Output, Entries, Whole, Backend

LEMMA WriteRight ==
    ASSUME DemosInv, NEW p \in Demos, Write(p)
    PROVE  DemoInv(p)'
<1> DEFINE entry == Output(p, report[p])
<1>1. /\ stage[p] = "writing" /\ selection'[p] = selection[p]
      /\ position'[p] = position[p] /\ report'[p] = report[p]
      /\ printed'[p] = Append(printed[p], entry)
      /\ \/ /\ at[p] < Len(selection[p]) /\ stage'[p] = "opening"
            /\ at'[p] = at[p] + 1 /\ code'[p] = code[p]
         \/ /\ ~(at[p] < Len(selection[p])) /\ stage'[p] = "done"
            /\ at'[p] = at[p] /\ code'[p] = 0
    BY DEF Write, Exit, DemosInv, Typed
<1>2. DemoInv(p)
    BY DEF DemosInv
<1>3. /\ Backend(p) \in Backends
      /\ at[p] \in 1 .. Len(selection[p]) /\ Len(selection[p]) \in {1, 2}
    BY <1>1, BackendFacts
<1>4. /\ Len(printed[p]) = at[p] - 1 /\ selection[p] \in Selections
      /\ stage[p] = "writing" /\ code[p] = 9
    BY <1>1, <1>2 DEF DemoInv, Underway
<1>5. report[p] \in CompleteReports(Backend(p))
    BY <1>1, <1>2 DEF DemoInv, RightSoFar, Accounted, CompleteReports
<1>6. /\ entry \in Entries /\ Whole(entry) /\ EntryRight(entry)
      /\ entry.backend = selection[p][at[p]]
    <2>1. report[p] \in RightReports(Backend(p))
        BY <1>5 DEF CompleteReports
    <2>2. /\ entry \in Entries /\ Whole(entry)
          /\ entry.backend = selection[p][at[p]]
          /\ entry.backend = Backend(p) /\ entry.report = report[p]
        BY <1>3, <2>1, OutputFacts
    <2>3. entry.report \in CompleteReports(entry.backend)
        BY <1>5, <2>2
    <2>4. entry.report \in RightReports(entry.backend)
        BY <2>1, <2>2
    <2> HIDE DEF entry
    <2> QED BY <2>2, <2>3, <2>4 DEF EntryRight
<1> HIDE DEF entry
<1>8. /\ printed'[p] \in Seq(Entries)
      /\ Len(printed'[p]) = at[p] /\ printed'[p][at[p]] = entry
      /\ \A i \in 1 .. Len(printed[p]) : printed'[p][i] = printed[p][i]
    BY <1>1, <1>2, <1>3, <1>4, <1>6 DEF DemoInv
<1>9. at'[p] \in 1 .. 2
    <2>1. at'[p] = at[p] \/ (at'[p] = at[p] + 1 /\ at[p] < Len(selection[p]))
        BY <1>1
    <2>2. ASSUME NEW n \in {1, 2}, NEW a \in 1 .. n, NEW b, b = a \/ (b = a + 1 /\ a < n)
          PROVE  b \in 1 .. 2
        BY <2>2
    <2> QED BY <1>3, <2>1, <2>2
<1>10. Accounted(p)' /\ RightSoFar(p)'
    BY <1>1, <1>2 DEF DemoInv, Accounted, RightSoFar
<1>11. Underway(p)'
    BY <1>1, <1>3, <1>4, <1>8 DEF Underway
<1>12. PrintedRight(p)'
    <2>1. ASSUME NEW i \in 1 .. Len(printed'[p])
          PROVE  /\ printed'[p][i].backend = selection'[p][i]
                 /\ EntryRight(printed'[p][i]) /\ Whole(printed'[p][i])
        <3>1. i \in 1 .. Len(printed[p]) \/ i = at[p]
            BY <1>3, <1>4, <1>8
        <3>2. CASE i = at[p]
            BY <1>1, <1>6, <1>8, <3>2
        <3>3. CASE i \in 1 .. Len(printed[p])
            BY <1>1, <1>2, <1>4, <1>8, <3>3 DEF DemoInv, PrintedRight
        <3> QED BY <3>1, <3>2, <3>3
    <2>2. \A i \in 1 .. Len(printed[p])' :
              /\ printed'[p][i].backend = selection'[p][i]
              /\ EntryRight(printed'[p][i]) /\ Whole(printed'[p][i])
        BY <2>1
    <2> QED BY <2>2 DEF PrintedRight, EntryRight, Whole
<1> QED BY <1>1, <1>2, <1>8, <1>9, <1>10, <1>11, <1>12 DEF DemoInv

\* Writing fails: what is on the output of the last report is cut short.
LEMMA WriteFailsRight ==
    ASSUME DemosInv, NEW p \in Demos, WriteFails(p)
    PROVE  DemoInv(p)'
<1>1. /\ stage[p] = "writing" /\ stage'[p] = "done" /\ code'[p] = 1
      /\ selection'[p] = selection[p] /\ at'[p] = at[p] /\ position'[p] = position[p]
      /\ report'[p] = report[p]
    BY DEF WriteFails, Exit, DemosInv, Typed
<1>2. CASE printed'[p] = printed[p]
    BY <1>1, <1>2, Failing
<1>3. ASSUME NEW written \in CutShort(report[p]),
             printed'[p] = Append(printed[p], Output(p, written))
      PROVE  DemoInv(p)'
    <2> DEFINE entry == Output(p, written)
    <2>1. DemoInv(p)
        BY DEF DemosInv
    <2>2. /\ Backend(p) \in Backends /\ report[p] \in RightReports(Backend(p))
          /\ at[p] \in 1 .. Len(selection[p]) /\ Len(printed[p]) = at[p] - 1
          /\ code[p] = 9 /\ printed[p] \in Seq(Entries)
        BY <1>1, <2>1, BackendFacts DEF DemoInv, Underway, RightSoFar
    <2>3. /\ written \in RightReports(Backend(p))
          /\ \/ Len(written.results) # Len(report[p].results)
             \/ Len(written.skipped) # Len(report[p].skipped)
        BY <1>3, <2>2, CutFacts
    <2>4. /\ entry \in Entries /\ ~Whole(entry) /\ entry.backend = selection[p][at[p]]
          /\ EntryRight(entry)
        BY <2>2, <2>3, OutputFacts DEF EntryRight
    <2> HIDE DEF entry
    <2>5. /\ printed'[p] \in Seq(Entries)
          /\ Len(printed'[p]) = at[p] /\ printed'[p][at[p]] = entry
          /\ \A i \in 1 .. Len(printed[p]) : printed'[p][i] = printed[p][i]
        <3>1. printed'[p] = Append(printed[p], entry)
            BY <1>3 DEF entry
        <3> QED BY <2>2, <2>4, <3>1
    <2>6. SomeMissing(p)'
        BY <1>1, <2>2, <2>4, <2>5 DEF SomeMissing, Whole
    <2>7. Underway(p)'
        BY <1>1, <2>6 DEF Underway
    <2>8. ASSUME NEW i \in 1 .. Len(printed'[p])
          PROVE  /\ printed'[p][i].backend = selection'[p][i] /\ EntryRight(printed'[p][i])
                 /\ ~Whole(printed'[p][i]) => i = Len(printed'[p])
        <3>1. i \in 1 .. Len(printed[p]) \/ i = at[p]
            BY <2>2, <2>5
        <3>2. CASE i = at[p]
            BY <1>1, <2>4, <2>5, <3>2
        <3>3. CASE i \in 1 .. Len(printed[p])
            <4>1. PrintedRight(p) /\ code[p] # 1
                BY <2>1, <2>2 DEF DemoInv
            <4>2. /\ printed[p][i].backend = selection[p][i] /\ EntryRight(printed[p][i])
                  /\ Whole(printed[p][i])
                BY <3>3, <4>1 DEF PrintedRight
            <4> QED BY <1>1, <2>5, <3>3, <4>2
        <3> QED BY <3>1, <3>2, <3>3
    <2>9. PrintedRight(p)'
        BY <1>1, <2>8 DEF PrintedRight, EntryRight, Whole
    <2>10. Accounted(p)' /\ RightSoFar(p)'
        BY <1>1, <2>1 DEF DemoInv, Accounted, RightSoFar
    <2> QED BY <1>1, <2>1, <2>5, <2>7, <2>9, <2>10 DEF DemoInv
<1>4. \/ printed'[p] = printed[p]
      \/ \E written \in CutShort(report[p]) :
            printed'[p] = Append(printed[p], Output(p, written))
    BY DEF WriteFails, DemosInv
<1> QED BY <1>2, <1>3, <1>4

\* The steps that leave the reports alone, and Open, which begins a new one.
LEMMA OtherStepsRight ==
    ASSUME DemosInv, NEW p \in Demos,
           \/ ParseFlags(p) \/ Start(p) \/ Open(p) \/ OpenFails(p) \/ ScenarioFails(p)
           \/ Finish(p) \/ SeamsFail(p) \/ Close(p) \/ Expire(p)
    PROVE  DemoInv(p)'
<1>1. DemoInv(p)
    BY DEF DemosInv
<1>2. CASE \/ OpenFails(p) \/ ScenarioFails(p) \/ SeamsFail(p)
           \/ (Close(p) /\ stage'[p] = "done")
    <2>1. /\ stage[p] \notin {"idle", "done"}
          /\ selection'[p] = selection[p] /\ at'[p] = at[p] /\ position'[p] = position[p]
          /\ report'[p] = report[p] /\ printed'[p] = printed[p]
          /\ \/ stage'[p] = "failing" /\ code'[p] = code[p]
             \/ stage'[p] = "done" /\ code'[p] = 1
        BY <1>2 DEF OpenFails, ScenarioFails, SeamsFail, Close, Exit, DemosInv, Typed
    <2> QED BY <2>1, Failing
<1>3. CASE ParseFlags(p)
    <2>1. /\ stage[p] = "idle" /\ stage'[p] = "done" /\ code'[p] \in {0, 2}
          /\ selection'[p] = selection[p] /\ at'[p] = at[p] /\ position'[p] = position[p]
          /\ report'[p] = report[p] /\ printed'[p] = printed[p]
        BY <1>3 DEF ParseFlags, Exit, DemosInv, Typed
    <2>2. Len(printed[p]) = Len(selection[p])
        BY <1>1, <2>1 DEF DemoInv, Underway
    <2> QED BY <1>1, <2>1, <2>2
            DEF DemoInv, Accounted, Underway, PrintedRight, RightSoFar
<1>4. CASE Start(p)
    <2>1. /\ stage[p] = "idle" /\ stage'[p] = "opening" /\ code'[p] = code[p]
          /\ selection'[p] \in Selections /\ at'[p] = at[p] /\ position'[p] = position[p]
          /\ report'[p] = report[p] /\ printed'[p] = printed[p]
        BY <1>4 DEF Start, DemosInv, Typed
    <2>2. at[p] = 1 /\ Len(printed[p]) = 0 /\ code[p] = 9
        BY <1>1, <2>1 DEF DemoInv, Underway
    <2>3. Len(selection'[p]) = 1 \/ Len(selection'[p]) = 2
        BY <2>1, SelectionFacts
    <2>4. Accounted(p)' /\ RightSoFar(p)' /\ PrintedRight(p)'
        BY <1>1, <2>1, <2>2 DEF DemoInv, Accounted, RightSoFar, PrintedRight
    <2>5. Underway(p)'
        <3>1. at'[p] <= Len(selection'[p])
            <4>1. ASSUME NEW n, n = 1 \/ n = 2
                  PROVE  1 <= n
                BY <4>1
            <4>2. 1 <= Len(selection'[p])
                BY <2>3, <4>1
            <4>3. at'[p] = 1
                BY <2>1, <2>2
            <4> QED BY <4>2, <4>3
        <3>2. Len(printed'[p]) = at'[p] - 1
            BY <2>1, <2>2
        <3> QED BY <2>1, <2>2, <3>1, <3>2 DEF Underway
    <2> QED BY <1>1, <2>1, <2>4, <2>5 DEF DemoInv
<1>5. CASE Open(p)
    <2>1. /\ stage[p] = "opening" /\ stage'[p] = "running" /\ code'[p] = code[p]
          /\ selection'[p] = selection[p] /\ at'[p] = at[p] /\ position'[p] = 1
          /\ report'[p] = Empty /\ printed'[p] = printed[p]
        BY <1>5 DEF Open, DemosInv, Typed
    <2>2. /\ Empty \in RightReports(Backend(p)) /\ Backend(p)' = Backend(p)
          /\ Backend(p) \in Backends
        BY <2>1, BackendFacts DEF Empty, RightReports, Backend
    <2>3. Mentioned(Empty) = << >>
        BY DEF Mentioned, Listed, Empty
    <2>4. Range(Mentioned(Empty)) = {} /\ IsInjective(Mentioned(Empty))
        BY <2>3 DEF Range, IsInjective
    <2>5. ToRun(p)' = Applicable(Backend(p))
        <3>1. Applicable(Backend(p)) \subseteq 1 .. Len(Scenarios) /\ Len(Scenarios) \in Nat
            BY CaseFacts DEF Applicable
        <3> QED BY <2>1, <2>2, <3>1 DEF ToRun
    <2>6. NamesAt(Applicable(Backend(p)) \ ToRun(p)') = {}
        BY <2>5 DEF NamesAt
    <2>7. Accounted(p)'
        BY <2>1, <2>2, <2>4, <2>6 DEF Accounted
    <2>8. Underway(p)' /\ PrintedRight(p)'
        BY <1>1, <2>1 DEF DemoInv, Underway, PrintedRight
    <2>9. RightSoFar(p)'
        BY <2>1, <2>2 DEF RightSoFar
    <2>10. Empty \in AnyReports /\ 1 \in 1 .. Len(Scenarios) + 1
        BY <2>2, RightReportFacts, CaseFacts
    <2> QED BY <1>1, <2>1, <2>7, <2>8, <2>9, <2>10 DEF DemoInv
<1>6. CASE Finish(p)
    <2>1. /\ stage[p] = "running" /\ code'[p] = code[p]
          /\ stage'[p] = IF Backend(p) = "elasticsearch" THEN "seams" ELSE "closing"
          /\ selection'[p] = selection[p] /\ at'[p] = at[p] /\ position'[p] = position[p]
          /\ report'[p] = report[p] /\ printed'[p] = printed[p]
        BY <1>6 DEF Finish, DemosInv, Typed
    <2>2. ToRun(p) = {}
        BY <1>6 DEF Finish, AllRun
    <2>3. Backend(p)' = Backend(p) /\ ToRun(p)' = ToRun(p)
        BY <2>1 DEF Backend, ToRun
    <2>4. Range(Mentioned(report[p])) = NamesAt(Applicable(Backend(p)) \ ToRun(p))
        BY <1>1, <2>1 DEF DemoInv, Accounted
    <2>5. Backend(p) # "elasticsearch" => NamesAt(Applicable(Backend(p)) \ ToRun(p)) = Expected(Backend(p))
        BY <2>2 DEF Expected
    <2>6. Accounted(p)'
        BY <1>1, <2>1, <2>3, <2>4, <2>5 DEF DemoInv, Accounted
    <2>7. RightSoFar(p)'
        BY <1>1, <2>1, <2>2, <2>3 DEF DemoInv, RightSoFar
    <2>8. Underway(p)' /\ PrintedRight(p)'
        BY <1>1, <2>1 DEF DemoInv, Underway, PrintedRight
    <2> QED BY <1>1, <2>1, <2>6, <2>7, <2>8 DEF DemoInv
<1>7. CASE (Close(p) /\ stage'[p] # "done") \/ Expire(p)
    <2>1. /\ stage[p] \notin {"idle", "done"}
          /\ \/ stage[p] = "closing" /\ stage'[p] = "writing"
             \/ stage'[p] = stage[p]
          /\ code'[p] = code[p] /\ selection'[p] = selection[p] /\ at'[p] = at[p]
          /\ position'[p] = position[p] /\ report'[p] = report[p] /\ printed'[p] = printed[p]
        BY <1>7 DEF Close, Expire, Exit, DemosInv, Typed
    <2>2. Backend(p)' = Backend(p) /\ ToRun(p)' = ToRun(p)
        BY <2>1 DEF Backend, ToRun
    <2>3. Accounted(p)' /\ RightSoFar(p)'
        BY <1>1, <2>1, <2>2 DEF DemoInv, Accounted, RightSoFar
    <2>4. Underway(p)' /\ PrintedRight(p)'
        BY <1>1, <2>1 DEF DemoInv, Underway, PrintedRight
    <2> QED BY <1>1, <2>1, <2>3, <2>4 DEF DemoInv
<1> QED BY <1>2, <1>3, <1>4, <1>5, <1>6, <1>7

\* The demos' invariant holds.
THEOREM DemosInvariant == Spec => []DemosInv
<1>1. Init => DemosInv
    <2> SUFFICES ASSUME Init
                 PROVE  DemosInv
        OBVIOUS
    <2>1. Empty \in AnyReports
        BY DEF Empty, AnyReports
    <2>2. Mentioned(Empty) = << >>
        BY DEF Mentioned, Listed, Empty
    <2>3. IsInjective(Mentioned(Empty))
        BY <2>2 DEF IsInjective
    <2>4. 1 \in 1 .. Len(Scenarios) + 1
        BY CaseFacts
    <2>5. Typed
        BY <2>4 DEF Init, Typed
    <2>6. ASSUME NEW p \in Demos
          PROVE  DemoInv(p)
        <3>1. Accounted(p) /\ Underway(p) /\ PrintedRight(p) /\ RightSoFar(p)
            BY <2>3 DEF Init, Accounted, Underway, PrintedRight, RightSoFar
        <3> QED BY <2>1, <2>4, <3>1 DEF Init, DemoInv
    <2> QED BY <2>1, <2>5, <2>6 DEF Init, DemosInv
<1>2. DemosInv /\ [Next]_vars => DemosInv'
    <2> SUFFICES ASSUME DemosInv, [Next]_vars
                 PROVE  DemosInv'
        OBVIOUS
    <2>1. ASSUME NEW p \in Demos, Step(p)
          PROVE  DemosInv'
        <3>1. DemoInv(p)'
            BY <2>1, SkipRight, ExecuteRight, RunSeamsRight, WriteRight, WriteFailsRight,
               OtherStepsRight
            DEF Step
        <3> QED BY <2>1, <3>1, OneDemo
    <2>2. CASE UNCHANGED vars
        <3>1. /\ selection' = selection /\ at' = at /\ stage' = stage /\ position' = position
              /\ report' = report /\ expired' = expired /\ printed' = printed /\ code' = code
            BY <2>2 DEF vars
        <3>2. ASSUME NEW p \in Demos
              PROVE  DemoInv(p)'
            <4>1. Backend(p)' = Backend(p) /\ ToRun(p)' = ToRun(p)
                BY <3>1 DEF Backend, ToRun
            <4>2. DemoInv(p)
                BY DEF DemosInv
            <4> QED BY <3>1, <4>1, <4>2
                    DEF DemoInv, Accounted, Underway, SomeMissing, PrintedRight, RightSoFar
        <3> QED BY <3>1, <3>2 DEF DemosInv, Typed
    <2> QED BY <2>1, <2>2 DEF Next
<1> QED BY <1>1, <1>2, PTL DEF Spec

-----------------------------------------------------------------------------

\* The right results of one name agree, whichever backends they are from, if neither
\* is adjusted to the storage, and are the same if the backends store alike.
LEMMA RightAgree ==
    ASSUME NEW b \in Backends, NEW c \in Backends,
           NEW r \in RightResults(b), NEW q \in RightResults(c), r.name = q.name
    PROVE  /\ ~r.collapsed /\ ~q.collapsed => r.ids = q.ids
           /\ DistinguishesMissing(b) = DistinguishesMissing(c) => r = q
<1>1. CASE \E i \in RunBy(b) : r = ScenarioResult(i, b)
    <2>1. PICK i \in RunBy(b) : r = ScenarioResult(i, b)
        BY <1>1
    <2>2. i \in DOMAIN Scenarios /\ r.name = Scenarios[i].name
        BY <2>1 DEF RunBy, Applicable, ScenarioResult, ResultFor
    <2>3. PICK j \in RunBy(c) : q = ScenarioResult(j, c)
        <3>1. \A j \in DOMAIN SeamCases : q # SeamResult(j)
            <4>1. \A j \in DOMAIN SeamCases : SeamResult(j).name # Scenarios[i].name
                BY <2>2, CaseFacts DEF SeamResult
            <4> QED BY <2>2, <4>1
        <3> QED BY <3>1, RightResultFacts
    <2>4. j \in DOMAIN Scenarios /\ q.name = Scenarios[j].name
        BY <2>3 DEF RunBy, Applicable, ScenarioResult, ResultFor
    <2>5. i = j
        BY <2>2, <2>4, CaseFacts
    <2>6. /\ r.ids = ExpectedIDs(Scenarios[i], b) /\ q.ids = ExpectedIDs(Scenarios[i], c)
          /\ r.collapsed = UsesCollapsed(Scenarios[i], b)
          /\ q.collapsed = UsesCollapsed(Scenarios[i], c)
        BY <2>1, <2>3, <2>5 DEF ScenarioResult, ResultFor
    <2>7. ~r.collapsed /\ ~q.collapsed => r.ids = q.ids
        BY <2>2, <2>6, CaseFacts
    <2>8. DistinguishesMissing(b) = DistinguishesMissing(c) => r = q
        BY <2>1, <2>3, <2>5 DEF ScenarioResult, ResultFor, ExpectedIDs, UsesCollapsed
    <2> QED BY <2>7, <2>8
<1>2. CASE \E i \in DOMAIN SeamCases : r = SeamResult(i)
    <2>1. PICK i \in DOMAIN SeamCases : r = SeamResult(i)
        BY <1>2
    <2>2. r.name = SeamCases[i].name
        BY <2>1 DEF SeamResult
    <2>3. PICK j \in DOMAIN SeamCases : q = SeamResult(j)
        <3>1. \A j \in RunBy(c) : q # ScenarioResult(j, c)
            <4>1. \A j \in RunBy(c) : ScenarioResult(j, c).name # SeamCases[i].name
                BY CaseFacts DEF ScenarioResult, ResultFor, RunBy, Applicable
            <4> QED BY <2>2, <4>1
        <3> QED BY <3>1, RightResultFacts
    <2>4. i = j
        BY <2>2, <2>3, CaseFacts DEF SeamResult
    <2> QED BY <2>1, <2>3, <2>4
<1> QED BY <1>1, <1>2, RightResultFacts

\* A complete report runs and skips exactly what its backend should.
LEMMA CompleteFacts ==
    ASSUME NEW b \in Backends, NEW rep \in CompleteReports(b)
    PROVE  /\ rep \in RightReports(b)
           /\ Range(Mentioned(rep)) = Expected(b) /\ IsInjective(Mentioned(rep))
           /\ Range(Listed(rep)) = Expected(b) \ NamesAt(SkippedBy(b))
           /\ Range(rep.skipped) = NamesAt(SkippedBy(b))
           /\ IsInjective(Listed(rep)) /\ IsInjective(rep.skipped)
           /\ Listed(rep) \in Seq(Expected(b)) /\ rep.skipped \in Seq(Expected(b))
           /\ Len(Listed(rep)) = Len(rep.results)
           /\ \A r \in Range(rep.results) : r \in RightResults(b) /\ r.name \in Range(Listed(rep))
           /\ \A name \in Range(Listed(rep)) :
                 ResultOf(rep, name) \in RightResults(b) /\ ResultOf(rep, name).name = name
<1>1. /\ rep \in RightReports(b)
      /\ Range(Mentioned(rep)) = Expected(b) /\ IsInjective(Mentioned(rep))
    BY DEF CompleteReports
<1>2. /\ rep.results \in Seq(RightResults(b))
      /\ rep.skipped \in Seq(NamesAt(SkippedBy(b))) /\ rep.skipped \in Seq(Expected(b))
      /\ \A r \in RightResults(b) : r.name \in Expected(b)
    BY <1>1, RightReportFacts
<1>3. /\ Listed(rep) \in Seq(Expected(b)) /\ Len(Listed(rep)) = Len(rep.results)
      /\ Range(Mentioned(rep)) = Range(Listed(rep)) \union Range(rep.skipped)
      /\ IsInjective(Listed(rep)) /\ IsInjective(rep.skipped)
    BY <1>1, <1>2, ReportFacts
<1>4. /\ DOMAIN Listed(rep) = DOMAIN rep.results
      /\ \A i \in DOMAIN rep.results :
            rep.results[i] \in RightResults(b) /\ Listed(rep)[i] = rep.results[i].name
    BY <1>2 DEF Listed
<1>5. \A r \in Range(rep.results) : r \in RightResults(b) /\ r.name \in Range(Listed(rep))
    BY <1>4 DEF Range
<1>6. \A name \in Range(Listed(rep)) :
          ResultOf(rep, name) \in RightResults(b) /\ ResultOf(rep, name).name = name
    BY <1>5, ResultOfFacts
<1>7. Range(rep.skipped) \subseteq NamesAt(SkippedBy(b))
    BY <1>2 DEF Range
<1>8. \A name \in Range(Listed(rep)) : name \in Expected(b) \ NamesAt(SkippedBy(b))
    BY <1>6, RightResultFacts
<1>9. NamesAt(SkippedBy(b)) \subseteq Expected(b)
    BY DEF NamesAt, SkippedBy, Expected
<1>10. /\ Range(Listed(rep)) = Expected(b) \ NamesAt(SkippedBy(b))
       /\ Range(rep.skipped) = NamesAt(SkippedBy(b))
    BY <1>1, <1>3, <1>7, <1>8, <1>9
<1> QED BY <1>1, <1>2, <1>3, <1>5, <1>6, <1>10

\* A name that a right report lists, even one cut short, is that of a right result.
LEMMA ListedRight ==
    ASSUME NEW b \in Backends, NEW rep \in RightReports(b), NEW name \in Range(Listed(rep))
    PROVE  ResultOf(rep, name) \in RightResults(b) /\ ResultOf(rep, name).name = name
<1>1. rep.results \in Seq(RightResults(b))
    BY DEF RightReports
<1>2. \A r \in Range(rep.results) : r \in RightResults(b)
    BY <1>1, RangeFacts DEF Range
<1> QED BY <1>2, ResultOfFacts

\* What right reports have both run as it is, they have found alike.
LEMMA CoreAgrees ==
    ASSUME NEW b \in Backends, NEW l \in RightReports(b),
           NEW c \in Backends, NEW r \in RightReports(c), NEW name \in Core(l, r)
    PROVE  /\ ResultOf(l, name).ids = ResultOf(r, name).ids
           /\ CompareIDs(ResultOf(l, name).ids, ResultOf(r, name).ids)
<1>1. /\ name \in Range(Listed(l)) /\ name \in Range(Listed(r))
      /\ ~ResultOf(l, name).collapsed /\ ~ResultOf(r, name).collapsed
    BY DEF Core
<1>2. /\ ResultOf(l, name) \in RightResults(b) /\ ResultOf(r, name) \in RightResults(c)
      /\ ResultOf(l, name).name = ResultOf(r, name).name
    BY <1>1, ListedRight
<1>3. ResultOf(l, name).ids = ResultOf(r, name).ids
    BY <1>1, <1>2, RightAgree
<1>4. Blank \notin ResultOf(l, name).ids
    BY <1>2, RightResultFacts, CaseFacts
<1> QED BY <1>3, <1>4 DEF CompareIDs

\* They have run a scenario in common as it is.
LEMMA CoreExists ==
    ASSUME NEW b \in Backends, NEW l \in CompleteReports(b),
           NEW c \in Backends, NEW r \in CompleteReports(c)
    PROVE  Core(l, r) # {} /\ IsFiniteSet(Core(l, r))
<1>1. PICK i \in DOMAIN Scenarios : Common(Scenarios[i])
    BY ScenariosAssumption
<1>2. ASSUME NEW d \in Backends, NEW rep \in CompleteReports(d)
      PROVE  /\ Scenarios[i].name \in Range(Listed(rep))
             /\ ~ResultOf(rep, Scenarios[i].name).collapsed
    <2>1. i \in RunBy(d)
        BY <1>1 DEF RunBy, Applicable, Common, Skipped
    <2>2. Scenarios[i].name \in Expected(d) \ NamesAt(SkippedBy(d))
        <3>1. i \in Applicable(d) /\ i \notin SkippedBy(d) /\ SkippedBy(d) \subseteq DOMAIN Scenarios
            BY <2>1 DEF RunBy, SkippedBy, Applicable
        <3>2. \A j \in DOMAIN Scenarios : Scenarios[j].name = Scenarios[i].name => j = i
            BY CaseFacts
        <3> QED BY <3>1, <3>2 DEF Expected, NamesAt
    <2>3. Scenarios[i].name \in Range(Listed(rep))
        BY <2>2, CompleteFacts
    <2>4. /\ ResultOf(rep, Scenarios[i].name) \in RightResults(d)
          /\ ResultOf(rep, Scenarios[i].name).name = Scenarios[i].name
        BY <2>3, CompleteFacts
    <2>5. /\ ScenarioResult(i, d) \in RightResults(d)
          /\ ScenarioResult(i, d).name = Scenarios[i].name
          /\ ~ScenarioResult(i, d).collapsed
        BY <1>1, <2>1 DEF RightResults, ScenarioResult, ResultFor, UsesCollapsed, Common
    <2>6. ResultOf(rep, Scenarios[i].name) = ScenarioResult(i, d)
        BY <2>4, <2>5, RightAgree
    <2> QED BY <2>3, <2>5, <2>6
<1>3. Scenarios[i].name \in Core(l, r)
    BY <1>2 DEF Core
<1>4. IsFiniteSet(Range(Listed(l)))
    <2>1. Listed(l) \in Seq(Expected(b))
        BY CompleteFacts
    <2> QED BY <2>1, RangeFacts
<1>5. Core(l, r) \subseteq Range(Listed(l))
    BY DEF Core
<1> QED BY <1>3, <1>4, <1>5, FS_Subset

\* A backend with all the canonical scenarios applies all, and has no other cases.
LEMMA CanonicalFacts ==
    ASSUME NEW b \in Backends, Canonical(b)
    PROVE  /\ Applicable(b) = DOMAIN Scenarios
           /\ Blank \notin Expected(b)
<1>1. NamesOf(Scenarios) = Expected(b)
    BY DEF Canonical
<1>2. ASSUME NEW i \in DOMAIN Scenarios
      PROVE  i \in Applicable(b)
    <2>1. Scenarios[i].name \in Expected(b) /\ Scenarios[i].name \notin NamesOf(SeamCases)
        BY <1>1, CaseFacts DEF NamesOf
    <2>2. PICK j \in Applicable(b) : Scenarios[j].name = Scenarios[i].name
        BY <2>1 DEF Expected, NamesAt
    <2>3. j = i
        BY <2>2, CaseFacts DEF Applicable
    <2> QED BY <2>3
<1>3. Blank \notin NamesOf(Scenarios)
    BY CaseFacts DEF NamesOf
<1> QED BY <1>1, <1>2, <1>3 DEF Applicable

\* What the matrix demands of two reports of the canonical scenarios.
LEMMA CanonicalAgree ==
    ASSUME NEW b \in Backends, NEW l \in CompleteReports(b), Canonical(b),
           NEW c \in Backends, NEW r \in CompleteReports(c), Canonical(c)
    PROVE  /\ b = "reference" => CompareReference(l, r)
           /\ DistinguishesMissing(b) = DistinguishesMissing(c) => CompareEquivalent(l, r)
           /\ CompareCoreIntersection(l, r) > 0
<1>1. /\ Range(Mentioned(l)) = Expected(b) /\ Range(Mentioned(r)) = Expected(b)
      /\ IsInjective(Mentioned(l)) /\ IsInjective(Mentioned(r))
      /\ Range(Listed(l)) = Expected(b) \ NamesAt(SkippedBy(b))
      /\ Range(Listed(r)) = Expected(b) \ NamesAt(SkippedBy(c))
      /\ IsInjective(Listed(l)) /\ IsInjective(Listed(r))
      /\ Range(l.skipped) = NamesAt(SkippedBy(b)) /\ Range(r.skipped) = NamesAt(SkippedBy(c))
      /\ IsInjective(l.skipped) /\ IsInjective(r.skipped)
    BY CompleteFacts DEF Canonical
<1>2. /\ Listed(l) \in Seq(Expected(b)) /\ l.skipped \in Seq(Expected(b))
      /\ Len(Listed(l)) = Len(l.results)
    BY CompleteFacts
<1>3. /\ Listed(r) \in Seq(Expected(c)) /\ r.skipped \in Seq(Expected(c))
      /\ Len(Listed(r)) = Len(r.results)
    BY CompleteFacts
<1>4. ASSUME NEW res \in Range(r.results), res.name \in Range(Listed(l))
      PROVE  LET want == ResultOf(l, res.name)
             IN  /\ ~res.collapsed /\ ~want.collapsed => CompareIDs(res.ids, want.ids)
                 /\ DistinguishesMissing(b) = DistinguishesMissing(c) =>
                       res.collapsed = want.collapsed /\ CompareIDs(res.ids, want.ids)
    <2> DEFINE want == ResultOf(l, res.name)
    <2>1. /\ want \in RightResults(b) /\ res \in RightResults(c)
          /\ want.name = res.name
        BY <1>4, CompleteFacts
    <2> HIDE DEF want
    <2>2. Blank \notin res.ids
        BY <2>1, RightResultFacts, CaseFacts
    <2>3. /\ ~res.collapsed /\ ~want.collapsed => res.ids = want.ids
          /\ DistinguishesMissing(b) = DistinguishesMissing(c) => res = want
        BY <2>1, RightAgree
    <2>4. res.ids = want.ids => CompareIDs(res.ids, want.ids)
        BY <2>2 DEF CompareIDs
    <2> QED BY <2>3, <2>4 DEF want
<1>5. ASSUME b = "reference"
      PROVE  CompareReference(l, r)
    <2>1. SkippedBy(b) = {}
        BY <1>5 DEF SkippedBy, RunBy, Skipped, DistinguishesMissing
    <2>2. NamesAt(SkippedBy(b)) = {}
        BY <2>1 DEF NamesAt
    <2>3. l.skipped = << >>
        <3>1. \A i \in 1 .. Len(l.skipped) : l.skipped[i] \in Range(l.skipped)
            BY <1>2 DEF Range
        <3>2. Len(l.skipped) = 0
            <4>1. Len(l.skipped) \in Nat
                BY <1>2
            <4> QED BY <1>1, <2>2, <3>1, <4>1
        <3> QED BY <1>2, <3>2
    <2>4. ASSUME NEW res \in Range(r.results)
          PROVE  res.collapsed \/ CompareIDs(res.ids, ResultOf(l, res.name).ids)
        <3>1. res.name \in Range(Listed(l))
            BY <1>1, <2>2, CompleteFacts
        <3>2. ResultOf(l, res.name) \in RightResults(b)
            BY <3>1, CompleteFacts
        <3>3. PICK i \in RunBy(b) : ResultOf(l, res.name) = ScenarioResult(i, b)
            BY <1>5, <3>2, RightResultFacts
        <3>4. ~ResultOf(l, res.name).collapsed
            <4>1. ~UsesCollapsed(Scenarios[i], b)
                BY <1>5 DEF UsesCollapsed, DistinguishesMissing
            <4>2. ResultOf(l, res.name).collapsed = UsesCollapsed(Scenarios[i], b)
                BY <3>3 DEF ScenarioResult, ResultFor
            <4> QED BY <4>1, <4>2
        <3> QED BY <1>4, <3>1, <3>4
    <2>5. Range(Mentioned(r)) = Range(Listed(l))
        BY <1>1, <2>2
    <2> QED BY <1>1, <2>3, <2>4, <2>5 DEF CompareReference
<1>6. ASSUME DistinguishesMissing(b) = DistinguishesMissing(c)
      PROVE  CompareEquivalent(l, r)
    <2>1. SkippedBy(b) = SkippedBy(c)
        <3>1. Applicable(b) = Applicable(c)
            BY CanonicalFacts
        <3> QED BY <1>6, <3>1 DEF SkippedBy, RunBy, Skipped
    <2>2. /\ Range(Listed(r)) = Range(Listed(l)) /\ Range(r.skipped) = Range(l.skipped)
        BY <1>1, <2>1
    <2>3. /\ Len(Listed(l)) = Cardinality(Range(Listed(l)))
          /\ Len(l.skipped) = Cardinality(Range(l.skipped))
        BY <1>1, <1>2, RangeFacts
    <2>4. /\ Len(Listed(r)) = Cardinality(Range(Listed(r)))
          /\ Len(r.skipped) = Cardinality(Range(r.skipped))
        BY <1>1, <1>3, RangeFacts
    <2>5. Len(l.results) = Len(r.results) /\ Len(l.skipped) = Len(r.skipped)
        BY <1>2, <1>3, <2>2, <2>3, <2>4
    <2>6. \A res \in Range(r.results) : res.name \in Range(Listed(l))
        BY <2>2, CompleteFacts
    <2> QED BY <1>1, <1>4, <1>6, <2>2, <2>5, <2>6 DEF CompareEquivalent
<1>7. CompareCoreIntersection(l, r) > 0
    <2>1. Indexed(l) /\ Indexed(r)
        BY <1>1, CanonicalFacts DEF Indexed
    <2>2. SameUniverse(l, r)
        BY <1>1 DEF SameUniverse
    <2>3. \A name \in Core(l, r) : CompareIDs(ResultOf(l, name).ids, ResultOf(r, name).ids)
        BY CoreAgrees DEF CompleteReports
    <2>4. Core(l, r) # {} /\ IsFiniteSet(Core(l, r))
        BY CoreExists
    <2>5. Cardinality(Core(l, r)) \in Nat /\ Cardinality(Core(l, r)) # 0
        BY <2>4, FS_CardinalityType, FS_EmptySet
    <2>6. CompareCoreIntersection(l, r) = Cardinality(Core(l, r))
        BY <2>1, <2>2, <2>3 DEF CompareCoreIntersection
    <2> QED BY <2>5, <2>6
<1> QED BY <1>5, <1>6, <1>7

-----------------------------------------------------------------------------

\* DemoReports' type invariant: in particular, the report that a demo is working on
\* accounts for exactly the scenarios its Run has come past.
THEOREM DemosTypeCorrect == Spec => []TypeOK
<1>1. DemosInv => TypeOK
    BY DEF DemosInv, DemoInv, TypeOK
<1> QED BY <1>1, DemosInvariant, PTL

\* What stands in a demo's output comes from its list of backends.
LEMMA PrintedFacts ==
    ASSUME DemosInv, NEW p \in Demos, NEW entry \in Range(printed[p])
    PROVE  entry.backend \in Backends /\ EntryRight(entry)
<1>1. printed[p] \in Seq(Entries) /\ PrintedRight(p)
    BY DEF DemosInv, DemoInv
<1>2. PICK i \in 1 .. Len(printed[p]) : entry = printed[p][i]
    BY <1>1 DEF Range
<1>3. printed[p][i] \in Entries
    <2>1. \A T : \A s \in Seq(T) : \A j \in 1 .. Len(s) : s[j] \in T
        OBVIOUS
    <2> QED BY <1>1, <2>1
<1> QED BY <1>1, <1>2, <1>3 DEF PrintedRight, Entries

\* The exit status tells whether all reports were printed as a whole.  Every report
\* that was, in a demo that fails later too, is complete; one that was cut short is
\* the last of a demo that exits 1, has fewer lines than its header says, and like
\* the others no wrong match set (internal/demoapp/main.go, Run and WriteReport in
\* internal/scenario/run.go, cmd/README.md).
THEOREM ExitStatusHolds == Spec => []ExitStatus
<1>1. ASSUME DemosInv
      PROVE  ExitStatus
    <2>1. ASSUME NEW p \in Demos
          PROVE  /\ printed[p] \in Seq(Entries) /\ DOMAIN printed[p] = 1 .. Len(printed[p])
                 /\ selection[p] \in Seq(Backends) /\ DOMAIN selection[p] = 1 .. Len(selection[p])
                 /\ Underway(p) /\ PrintedRight(p)
        <3>1. /\ printed[p] \in Seq(Entries) /\ selection[p] \in Selections \union {<< >>}
              /\ Underway(p) /\ PrintedRight(p)
            BY <1>1, <2>1 DEF DemosInv, DemoInv
        <3>2. CASE selection[p] = << >>
            BY <3>1, <3>2
        <3>3. CASE selection[p] \in Selections
            BY <3>1, <3>3, SelectionFacts
        <3> QED BY <3>1, <3>2, <3>3
    <2>2. ASSUME NEW p \in Demos, code[p] = 0
          PROVE  [i \in DOMAIN printed[p] |-> printed[p][i].backend] = selection[p]
        <3> DEFINE given == selection[p]
                   made == [i \in DOMAIN printed[p] |-> printed[p][i].backend]
        <3>1. /\ DOMAIN printed[p] = 1 .. Len(printed[p]) /\ DOMAIN given = 1 .. Len(given)
              /\ given \in Seq(Backends) /\ Len(printed[p]) = Len(given)
              /\ \A i \in 1 .. Len(printed[p]) : printed[p][i].backend = given[i]
            BY <2>1, <2>2 DEF Underway, PrintedRight
        <3>2. DOMAIN made = DOMAIN given /\ \A i \in DOMAIN given : made[i] = given[i]
            BY <3>1
        <3>3. /\ made = [i \in DOMAIN made |-> made[i]]
              /\ given = [i \in DOMAIN given |-> given[i]]
            BY <3>1
        <3> HIDE DEF given, made
        <3>4. made = given
            BY <3>2, <3>3
        <3> QED BY <3>4 DEF given, made
    <2>3. ASSUME NEW p \in Demos, code[p] = 0, NEW entry \in Range(printed[p])
          PROVE  Whole(entry)
        <3>1. PICK i \in 1 .. Len(printed[p]) : entry = printed[p][i]
            BY <2>1 DEF Range
        <3> QED BY <2>1, <2>3, <3>1 DEF PrintedRight
    <2>4. ASSUME NEW p \in Demos, code[p] = 1
          PROVE  \E i \in DOMAIN selection[p] : i \in DOMAIN printed[p] => ~Whole(printed[p][i])
        BY <2>1, <2>4 DEF Underway, SomeMissing
    <2>5. ASSUME NEW p \in Demos, NEW i \in DOMAIN printed[p]
          PROVE  LET entry == printed[p][i] IN
                 /\ IF Whole(entry)
                    THEN Range(Mentioned(entry.report)) = Expected(entry.backend)
                    ELSE i = Len(printed[p]) /\ code[p] = 1
                 /\ \A r \in Range(entry.report.results) :
                       \/ \E j \in DOMAIN Scenarios :
                             /\ r.name = Scenarios[j].name
                             /\ r.ids = ExpectedIDs(Scenarios[j], entry.backend)
                       \/ \E j \in DOMAIN SeamCases :
                             /\ r.name = SeamCases[j].name
                             /\ r.ids = SeamCases[j].want
        <3> DEFINE entry == printed[p][i]
        <3>1. /\ entry.backend \in Backends /\ EntryRight(entry)
              /\ ~Whole(entry) => i = Len(printed[p]) /\ code[p] = 1
            <4>1. i \in 1 .. Len(printed[p]) /\ entry \in Range(printed[p])
                BY <2>1 DEF Range
            <4> QED BY <1>1, <2>1, <4>1, PrintedFacts DEF PrintedRight
        <3> HIDE DEF entry
        <3>2. Whole(entry) => Range(Mentioned(entry.report)) = Expected(entry.backend)
            BY <3>1 DEF EntryRight, CompleteReports
        <3>3. ASSUME NEW r \in Range(entry.report.results)
              PROVE  \/ \E j \in RunBy(entry.backend) : r = ScenarioResult(j, entry.backend)
                     \/ \E j \in DOMAIN SeamCases : r = SeamResult(j)
            <4>1. entry.report.results \in Seq(RightResults(entry.backend))
                BY <3>1 DEF EntryRight, RightReports
            <4>2. r \in RightResults(entry.backend)
                BY <4>1 DEF Range
            <4> QED BY <4>2, RightResultFacts
        <3>4. \A r \in Range(entry.report.results) :
                  \/ \E j \in DOMAIN Scenarios :
                        /\ r.name = Scenarios[j].name
                        /\ r.ids = ExpectedIDs(Scenarios[j], entry.backend)
                  \/ \E j \in DOMAIN SeamCases :
                        /\ r.name = SeamCases[j].name
                        /\ r.ids = SeamCases[j].want
            BY <3>3 DEF ScenarioResult, ResultFor, SeamResult, RunBy, Applicable
        <3> QED BY <3>1, <3>2, <3>4 DEF entry
    <2> QED BY <2>2, <2>3, <2>4, <2>5 DEF ExitStatus
<1> QED BY <1>1, DemosInvariant, PTL

\* Whatever the demos have printed agrees: every two reports, cut short or not, have
\* found the same in the scenarios that both ran as they are.  If both are whole there
\* are some, and all the comparisons of the matrix accept the reports of the
\* canonical scenarios (internal/scenario/run.go; integration/matrix_test.go makes
\* them).
THEOREM PrintedAgreeHolds == Spec => []PrintedAgree
<1>1. ASSUME DemosInv
      PROVE  PrintedAgree
    <2>1. ASSUME NEW entry \in Printed
          PROVE  entry.backend \in Backends /\ EntryRight(entry)
        BY <1>1, PrintedFacts DEF Printed
    <2> SUFFICES ASSUME NEW a \in Printed, NEW b \in Printed
                 PROVE  /\ \A name \in Core(a.report, b.report) :
                              ResultOf(a.report, name).ids = ResultOf(b.report, name).ids
                        /\ Whole(a) /\ Whole(b) => Core(a.report, b.report) # {}
                        /\ Whole(a) /\ Whole(b) /\ Canonical(a.backend) /\ Canonical(b.backend) =>
                              /\ a.backend = "reference" => CompareReference(a.report, b.report)
                              /\ DistinguishesMissing(a.backend) = DistinguishesMissing(b.backend)
                                    => CompareEquivalent(a.report, b.report)
                              /\ CompareCoreIntersection(a.report, b.report) > 0
        BY DEF PrintedAgree
    <2>2. /\ a.backend \in Backends /\ a.report \in RightReports(a.backend)
          /\ b.backend \in Backends /\ b.report \in RightReports(b.backend)
          /\ Whole(a) => a.report \in CompleteReports(a.backend)
          /\ Whole(b) => b.report \in CompleteReports(b.backend)
        BY <2>1 DEF EntryRight
    <2>3. \A name \in Core(a.report, b.report) :
              ResultOf(a.report, name).ids = ResultOf(b.report, name).ids
        BY <2>2, CoreAgrees
    <2>4. Whole(a) /\ Whole(b) => Core(a.report, b.report) # {}
        BY <2>2, CoreExists
    <2>5. Whole(a) /\ Whole(b) /\ Canonical(a.backend) /\ Canonical(b.backend) =>
              /\ a.backend = "reference" => CompareReference(a.report, b.report)
              /\ DistinguishesMissing(a.backend) = DistinguishesMissing(b.backend)
                    => CompareEquivalent(a.report, b.report)
              /\ CompareCoreIntersection(a.report, b.report) > 0
        BY <2>2, CanonicalAgree
    <2> QED BY <2>3, <2>4, <2>5
<1> QED BY <1>1, DemosInvariant, PTL

=============================================================================
