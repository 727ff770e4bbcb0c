---------------------------- MODULE DemoReports ----------------------------
(***************************************************************************)
(* Demos that run the canonical scenarios and print reports                *)
(* (internal/demoapp/main.go, Run in internal/scenario/run.go, and the     *)
(* opening and closing of a backend around it in internal/demoharness).    *)
(*                                                                         *)
(* A demo takes its backends one after the other, each under a deadline of *)
(* its own, prints a report after each, and stops at the first failure.    *)
(* The services and the adapters under test may answer anything: finding   *)
(* wrong answers is what the demos are for.                                *)
(***************************************************************************)
EXTENDS ScenarioReports

CONSTANTS
    Demos,       \* invocations of demos
    Scenarios,   \* the canonical scenarios, in order: [name, distinct (requires
                 \* missing to be distinct from null), ldap (uses only what the
                 \* LDAP compiler can express), exact, collapsed], with the
                 \* expected identifiers for either kind of storage
    SeamCases    \* the cases of Elasticsearch only, in order: [name, want]

NamesOf(cases) == {cases[i].name : i \in DOMAIN cases}

IsList(cases) ==
    /\ Len(cases) \in Nat /\ DOMAIN cases = 1 .. Len(cases)
    /\ Blank \notin NamesOf(cases)
    /\ \A i, j \in DOMAIN cases : cases[i].name = cases[j].name => i = j

\* A scenario that every backend runs, with the same answer.
Common(s) == ~s.distinct /\ s.ldap /\ s.exact = s.collapsed

ASSUME ScenariosAssumption ==
    /\ IsList(Scenarios) /\ IsList(SeamCases)
    /\ NamesOf(Scenarios) \intersect NamesOf(SeamCases) = {}
    /\ Blank \notin RecordIds
    /\ \A i \in DOMAIN Scenarios :
          /\ Scenarios[i].distinct \in BOOLEAN
          /\ Scenarios[i].ldap \in BOOLEAN
          /\ Scenarios[i].exact \subseteq RecordIds
          /\ Scenarios[i].collapsed \subseteq RecordIds
    /\ \A i \in DOMAIN SeamCases : SeamCases[i].want \subseteq RecordIds
    /\ \E i \in DOMAIN Scenarios : Common(Scenarios[i])

VARIABLES
    selection,  \* selection[p]: the backends p has to run, in order
    at,         \* at[p]: position in it of the current backend
    stage,      \* stage[p]: where p is with that backend
    position,   \* position[p]: p's Run has come past the scenarios before it
    report,     \* report[p]: the report Run is building
    expired,    \* demos whose context for the current backend has expired
    printed,    \* printed[p]: the reports on p's output, see Output; the last one
                \* may have been cut short
    code        \* code[p]: p's exit code, 9 while it runs

vars == <<selection, at, stage, position, report, expired, printed, code>>

\* What a demo can be asked to run: RunMemory, RunDocument, or RunSQL with one
\* backend or with all.
Selections == {<<"reference">>, <<"mongo">>, <<"ldap">>, <<"elasticsearch">>,
               <<"mysql">>, <<"postgres">>, <<"mysql", "postgres">>}

\* The harness's DistinguishesMissing: SQL stores a missing field as null, and
\* LDAP stores neither.
DistinguishesMissing(backend) == backend \in {"reference", "mongo", "elasticsearch"}

\* compilertest.Scenarios: those that the harness's compiler can express.
Applicable(backend) ==
    {i \in DOMAIN Scenarios : backend = "ldap" => Scenarios[i].ldap}

Backend(p) == selection[p][at[p]]

\* The scenarios that p's Run has not come to, and the one whose turn it is.
ToRun(p) == {i \in Applicable(Backend(p)) : i >= position[p]}
Due(p) == {i \in ToRun(p) : \A j \in ToRun(p) : i <= j}
AllRun(p) == ToRun(p) = {}

\* UsesMissingCollapsedMatchSet and ExpectedIDs, which depend on the harness.
UsesCollapsed(s, backend) ==
    ~DistinguishesMissing(backend) /\ s.collapsed # s.exact

ExpectedIDs(s, backend) ==
    IF DistinguishesMissing(backend) THEN s.exact ELSE s.collapsed

-----------------------------------------------------------------------------

Init ==
    /\ selection = [p \in Demos |-> << >>]
    /\ at = [p \in Demos |-> 1]
    /\ stage = [p \in Demos |-> "idle"]
    /\ position = [p \in Demos |-> 1]
    /\ report = [p \in Demos |-> Empty]
    /\ expired = {}
    /\ printed = [p \in Demos |-> << >>]
    /\ code = [p \in Demos |-> 9]

Exit(p, c) ==
    /\ stage' = [stage EXCEPT ![p] = "done"]
    /\ code' = [code EXCEPT ![p] = c]

\* The flags are invalid (2), or ask for help (0).
ParseFlags(p) ==
    /\ stage[p] = "idle"
    /\ \E c \in {0, 2} : Exit(p, c)
    /\ UNCHANGED <<selection, at, position, report, expired, printed>>

\* The runner is called for the first backend, under a new context.
Start(p) ==
    /\ stage[p] = "idle"
    /\ selection' \in {[selection EXCEPT ![p] = s] : s \in Selections}
    /\ stage' = [stage EXCEPT ![p] = "opening"]
    /\ UNCHANGED <<at, position, report, expired, printed, code>>

\* The backend is reached, and the compiler and the harness are made.
Open(p) ==
    /\ stage[p] = "opening" /\ p \notin expired
    /\ stage' = [stage EXCEPT ![p] = "running"]
    /\ position' = [position EXCEPT ![p] = 1]
    /\ report' = [report EXCEPT ![p] = Empty]
    /\ UNCHANGED <<selection, at, expired, printed, code>>

\* Opening fails, and cleans up after itself.
OpenFails(p) ==
    /\ stage[p] = "opening"
    /\ Exit(p, 1)
    /\ UNCHANGED <<selection, at, position, report, expired, printed>>

\* The scenario cannot be represented by the backend.
Skipped(s, backend) == s.distinct /\ ~DistinguishesMissing(backend)

\* Run skips the scenario whose turn it is.
Skip(p) ==
    /\ stage[p] = "running" /\ p \notin expired
    /\ \E i \in Due(p) :
          /\ Skipped(Scenarios[i], Backend(p))
          /\ report' = [report EXCEPT ![p].skipped = Append(@, Scenarios[i].name)]
          /\ position' = [position EXCEPT ![p] = i + 1]
    /\ UNCHANGED <<selection, at, stage, expired, printed, code>>

\* The result of a scenario with an answer.
ResultFor(s, backend, ids) ==
    [name |-> s.name, ids |-> ids, collapsed |-> UsesCollapsed(s, backend)]

\* Mutant of Accepted: the identifiers are not compared.
AcceptedUnread(s, backend, ids) == Blank \notin ids

\* CompareIDs with the expected identifiers.
Accepted(s, backend, ids) == CompareIDs(ids, ExpectedIDs(s, backend))

\* Run executes the scenario, and the answer is a set of identifiers.
Execute(p) ==
    /\ stage[p] = "running" /\ p \notin expired
    /\ \E i \in Due(p), ids \in SUBSET RecordIds :
          /\ ~Skipped(Scenarios[i], Backend(p))
          /\ IF Accepted(Scenarios[i], Backend(p), ids)
             THEN /\ report' = [report EXCEPT ![p].results =
                                  Append(@, ResultFor(Scenarios[i], Backend(p), ids))]
                  /\ position' = [position EXCEPT ![p] = i + 1]
                  /\ UNCHANGED stage
             ELSE /\ stage' = [stage EXCEPT ![p] = "failing"]
                  /\ UNCHANGED <<report, position>>
    /\ UNCHANGED <<selection, at, expired, printed, code>>

\* Building, inspecting or executing fails, or the context has expired.
ScenarioFails(p) ==
    /\ stage[p] = "running"
    /\ ~AllRun(p)
    /\ stage' = [stage EXCEPT ![p] = "failing"]
    /\ UNCHANGED <<selection, at, position, report, expired, printed, code>>

\* Every scenario is accounted for: Run returns its report.
Finish(p) ==
    /\ stage[p] = "running" /\ AllRun(p)
    /\ stage' = [stage EXCEPT ![p] = IF Backend(p) = "elasticsearch" THEN "seams" ELSE "closing"]
    /\ UNCHANGED <<selection, at, position, report, expired, printed, code>>

\* The seam cases are executed, and their results are added when all are as
\* expected.
RunSeams(p) ==
    /\ stage[p] = "seams" /\ p \notin expired
    /\ \E answers \in [DOMAIN SeamCases -> SUBSET RecordIds] :
          IF \A i \in DOMAIN SeamCases : CompareIDs(answers[i], SeamCases[i].want)
          THEN /\ report' = [report EXCEPT ![p].results = @ \o
                       [i \in DOMAIN SeamCases |->
                          [name |-> SeamCases[i].name, ids |-> answers[i], collapsed |-> FALSE]]]
               /\ stage' = [stage EXCEPT ![p] = "closing"]
          ELSE /\ stage' = [stage EXCEPT ![p] = "failing"]
               /\ UNCHANGED report
    /\ UNCHANGED <<selection, at, position, expired, printed, code>>

\* A check or a case fails before there is an answer, a change of the policy
\* around the cases does, or the context has expired.
SeamsFail(p) ==
    /\ stage[p] = "seams"
    /\ stage' = [stage EXCEPT ![p] = "failing"]
    /\ UNCHANGED <<selection, at, position, report, expired, printed, code>>

\* The backends whose runner returns an error of closing them.
ReportingClose == {"mongo", "mysql", "postgres"}

\* Mutant of Close: the error of Run is replaced by the result of closing.
CloseForgettingError(p) ==
    /\ stage[p] \in {"closing", "failing"}
    /\ \/ stage' = [stage EXCEPT ![p] = "writing"] /\ UNCHANGED code
       \/ Exit(p, 1)
    /\ UNCHANGED <<selection, at, position, report, expired, printed>>

\* The deferred cleanup closes the backend; its error counts if Run had none.
\* There is nothing to close for the reference, LDAP's connection is closed
\* before Run, and Elasticsearch's cleanup drops its error.
Close(p) ==
    /\ \/ /\ stage[p] = "closing"
          /\ stage' = [stage EXCEPT ![p] = "writing"]
          /\ UNCHANGED code
       \/ /\ stage[p] = "closing" /\ Backend(p) \in ReportingClose
          /\ Exit(p, 1)
       \/ /\ stage[p] = "failing"
          /\ Exit(p, 1)
    /\ UNCHANGED <<selection, at, position, report, expired, printed>>

\* What WriteReport leaves on p's output: the header, with how many scenarios
\* passed and were skipped, and the lines of what it has written of the report.
Output(p, written) ==
    [backend |-> Backend(p), passed |-> Len(report[p].results),
     skipped |-> Len(report[p].skipped), report |-> written]

\* WriteReport writes the whole report; the next backend gets a new context.
Write(p) ==
    /\ stage[p] = "writing"
    /\ printed' = [printed EXCEPT ![p] = Append(@, Output(p, report[p]))]
    /\ IF at[p] < Len(selection[p])
       THEN /\ stage' = [stage EXCEPT ![p] = "opening"]
            /\ at' = [at EXCEPT ![p] = @ + 1]
            /\ UNCHANGED code
       ELSE Exit(p, 0) /\ UNCHANGED at
    /\ expired' = expired \ {p}
    /\ UNCHANGED <<selection, position, report>>

\* A report up to the line before one that cannot be written: the results come
\* first, then what was skipped.
CutShort(rep) ==
    {[results |-> SubSeq(rep.results, 1, n), skipped |-> << >>] :
        n \in 0 .. Len(rep.results) - 1}
    \union
    {[results |-> rep.results, skipped |-> SubSeq(rep.skipped, 1, n)] :
        n \in 0 .. Len(rep.skipped) - 1}

\* WriteReport returns at the first line it cannot write.  The lines before it
\* stay on the output, unless it was the header.
WriteFails(p) ==
    /\ stage[p] = "writing"
    /\ \/ UNCHANGED printed
       \/ \E written \in CutShort(report[p]) :
             printed' = [printed EXCEPT ![p] = Append(@, Output(p, written))]
    /\ Exit(p, 1)
    /\ UNCHANGED <<selection, at, position, report, expired>>

\* The deadline of the context for the current backend passes.
Expire(p) ==
    /\ stage[p] \in {"opening", "running", "seams"} /\ p \notin expired
    /\ expired' = expired \union {p}
    /\ UNCHANGED <<selection, at, stage, position, report, printed, code>>

Step(p) ==
    \/ ParseFlags(p) \/ Start(p)
    \/ Open(p) \/ OpenFails(p)
    \/ Skip(p) \/ Execute(p) \/ ScenarioFails(p) \/ Finish(p)
    \/ RunSeams(p) \/ SeamsFail(p)
    \/ Close(p) \/ Write(p) \/ WriteFails(p)
    \/ Expire(p)

Next == \E p \in Demos : Step(p)

Spec == Init /\ [][Next]_vars

\* Mutant of GiveUp: a query does not get the context.
GiveUpOpening(p) == p \in expired /\ OpenFails(p)

\* A call returns once its context has expired, one to the directory at the
\* latest when the driver's limit on it is over too.
GiveUp(p) == p \in expired /\ (OpenFails(p) \/ ScenarioFails(p) \/ SeamsFail(p))

\* Timers fire, calls honour their context, and the demo's own code runs on.
Fairness ==
    \A p \in Demos :
        /\ WF_vars(Expire(p)) /\ WF_vars(GiveUp(p))
        /\ WF_vars(Finish(p)) /\ WF_vars(Close(p)) /\ WF_vars(Write(p) \/ WriteFails(p))

FairSpec == Spec /\ Fairness

-----------------------------------------------------------------------------

NamesAt(indices) == {Scenarios[i].name : i \in indices}

\* The names a complete report for a backend mentions.
Expected(backend) ==
    NamesAt(Applicable(backend)) \union
        IF backend = "elasticsearch" THEN NamesOf(SeamCases) ELSE {}

Typed ==
    /\ selection \in [Demos -> Selections \union {<< >>}]
    /\ at \in [Demos -> 1 .. 2]
    /\ stage \in [Demos -> {"idle", "opening", "running", "seams", "failing", "closing",
                            "writing", "done"}]
    /\ position \in [Demos -> 1 .. Len(Scenarios) + 1]
    /\ expired \in SUBSET Demos
    /\ code \in [Demos -> {0, 1, 2, 9}]

\* The report p is working on mentions each scenario that p has come past, once,
\* and nothing of the backend before.
Accounted(p) ==
    /\ stage[p] \in {"running", "seams"} =>
          Range(Mentioned(report[p])) = NamesAt(Applicable(Backend(p)) \ ToRun(p))
    /\ stage[p] \in {"closing", "writing"} =>
          Range(Mentioned(report[p])) = Expected(Backend(p))
    /\ IsInjective(Mentioned(report[p]))

\* Types, and every report accounts for the scenarios its Run has come past.
TypeOK == Typed /\ \A p \in Demos : Accounted(p)

Printed == UNION {Range(printed[p]) : p \in Demos}

\* As many lines follow the header as it says.
Whole(entry) ==
    /\ Len(entry.report.results) = entry.passed
    /\ Len(entry.report.skipped) = entry.skipped

\* The backends whose demos run all the canonical scenarios and nothing else.
Canonical(backend) == Expected(backend) = NamesOf(Scenarios)

\* What stands on the demos' outputs agrees, whatever the services and adapters
\* answered and whichever demos failed: two reports, cut short or not, found the
\* same in the scenarios that both ran as they are, and there are some if both
\* are whole.  Of the backends with all the canonical scenarios, every whole
\* report is also accepted against the memory reference, those from the same
\* kind of storage are equivalent, and the core comparison accepts any two.
PrintedAgree ==
    \A a, b \in Printed :
        /\ \A name \in Core(a.report, b.report) :
              ResultOf(a.report, name).ids = ResultOf(b.report, name).ids
        /\ Whole(a) /\ Whole(b) => Core(a.report, b.report) # {}
        /\ Whole(a) /\ Whole(b) /\ Canonical(a.backend) /\ Canonical(b.backend) =>
              /\ a.backend = "reference" => CompareReference(a.report, b.report)
              /\ DistinguishesMissing(a.backend) = DistinguishesMissing(b.backend)
                    => CompareEquivalent(a.report, b.report)
              /\ CompareCoreIntersection(a.report, b.report) > 0

\* "Exit 0: every executed match set equals its canonical expected IDs"
\* (cmd/README.md).  A demo that exits 0 has printed a whole report for each
\* backend it was asked for, in order, and one that exits 1 has not; in neither
\* case does a wrong match set stand in a report.  Exit 1 may leave a last report
\* cut short, which its own header gives away; where the header is right, no
\* scenario that applies is missing, and no seam case.
ExitStatus ==
    \A p \in Demos :
        /\ code[p] = 0 =>
              /\ [i \in DOMAIN printed[p] |-> printed[p][i].backend] = selection[p]
              /\ \A entry \in Range(printed[p]) : Whole(entry)
        /\ code[p] = 1 =>
              \E i \in DOMAIN selection[p] : i \in DOMAIN printed[p] => ~Whole(printed[p][i])
        /\ \A i \in DOMAIN printed[p] :
              LET entry == printed[p][i] IN
              /\ IF Whole(entry)
                 THEN Range(Mentioned(entry.report)) = Expected(entry.backend)
                 ELSE i = Len(printed[p]) /\ code[p] = 1
              /\ \A r \in Range(entry.report.results) :
                    \/ \E j \in DOMAIN Scenarios :
                          /\ r.name = Scenarios[j].name
                          /\ r.ids = ExpectedIDs(Scenarios[j], entry.backend)
                    \/ \E j \in DOMAIN SeamCases :
                          /\ r.name = SeamCases[j].name
                          /\ r.ids = SeamCases[j].want

\* Every demo ends, even if a service never answers: each backend has a deadline,
\* after which no call waits any longer, or one to the directory for as long as
\* the driver allows.
Terminates == \A p \in Demos : stage[p] # "idle" ~> stage[p] = "done"

=============================================================================
