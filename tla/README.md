# weave-integration-testbed: a TLA+ model of the testbed

The testbed runs one family of predicates against several real services. What
is delicate in it is not the predicates, which belong to other repositories, but
what this repository does around them: it replays fixtures into shared services
that offer no transaction over the whole fixture, under deadlines, with several
commands that may run at once (`testbedctl`, the demos, the integration tests
and CI jobs), and it reports through exit statuses and comparisons whether the
services agree. The modules here model that code, the configurations check it
with TLC on small instances, and TLAPS proves the central results for every
instance.

Paths below are relative to the repository's root; `PROJECT.json` maps every
definition to the lines it models.

## 1. Inventory

| Component | State | Operations | Works with | What is hard |
|---|---|---|---|---|
| SQL fixture (`internal/testenv/sql.go`, `testdata/*/00*.sql`) | table, its index, its rows | `WaitForSQL`, `ResetSQL`, `QuerySQLRecords`, `CloseSQL` | MySQL and PostgreSQL, called by `testbedctl` | every statement commits by itself; two replays interleave; a statement given up may run later |
| MongoDB fixture (`internal/testenv/mongo.go`) | documents of two collections | `WaitForMongo`, `ReadMongoServerInfo`, `ResetMongo`, `QueryMongoIDs` | MongoDB | neither `DeleteMany` nor `InsertMany` is atomic; the insert stops at a duplicate |
| LDAP fixture (`internal/testenv/ldap.go`) | entries of two organizational units | `WaitForLDAP`, `ReadLDAPServerInfo`, `ResetLDAP`, `queryLDAP` | OpenLDAP; `testbedctl` and the LDAP demo | a listing goes stale while its entries are deleted; no context in `ResetLDAP` |
| Elasticsearch fixture (`internal/testenv/elasticsearch.go`) | an index: mapping, documents, documents visible | `WaitForElasticsearch`, `ReadElasticsearchServerInfo`, `ResetElasticsearch`, `VerifyElasticsearchIndexContract`, `QueryElasticsearchIDs` | Elasticsearch; `testbedctl` and the demo | automatic index creation, refreshes, partly refused bulk requests |
| Expensive-query policy (`internal/demoharness/elasticsearch.go`) | one setting of the cluster | `NewElasticsearchHarness`, `RunElasticsearchSeamCases`, cleanup, `SetElasticsearchExpensiveQueries` | the Elasticsearch demo and its test | shared by all demos; must be given back on every path; late requests |
| `testbedctl` orchestration (`cmd/testbedctl/main.go`) | failures so far, rows of the SQL fixtures, the open handle | `run`, `runForBackend` and its siblings | the four fixtures | one failure must not hide or stop the others; when the SQL fixtures are compared |
| Demo shell (`internal/demoapp/main.go`) | reports so far | `RunMemory`, `RunDocument`, `RunSQL` | scenario runner, harnesses | fail-fast over backends, exit codes |
| Scenario runner (`internal/scenario/run.go`) | a report | `Run`, `WriteReport`, `CompareReference`, `CompareEquivalent`, `CompareCoreIntersection` | demo shell, integration tests | a comparison must not accept unequal reports |
| Record identities (`internal/fixture/record.go`) | none | `CompareIDs`, `CanonicalIDs`, `CompareSQLRecords` | all fixtures | duplicates, order |
| Field states (`internal/fixture/{elasticsearch,mongo,ldap}.go`, `internal/demoharness/memory.go`) | none | encodings of value, null and missing; validation of the bulk file | fixtures | null and missing confused |
| SQL script splitting (`splitSQLStatements`) | none | one function | `ResetSQL` | empty statements, boundaries at the ends |
| Readiness and handles | open handles | `WaitFor*`, `Open*`, `Close*` | every command | timer racing deadline, handles left open |
| Configuration (`internal/testenv/config.go`) | none | environment and backend names | every command | defaults that depend on each other, the edges of a port number |
| Other demo harnesses, generated GORM code | none of their own | adapters of external compilers | scenario runner | – |
| Services and containers (`compose.yaml`) | the services' data | – | – | appear as the environment's actions |

What makes each of them correct is stated in section 4.

## 2. Plan

The order follows the damage a mistake can do: first what changes the services,
then what the commands report of it, then the pure functions.

1. `FixtureContract`, the abstract specification of a reset, and `SqlFixture`
   with its proofs. *Done.*
2. `MongoFixture`, `LdapFixture`, `ElasticsearchFixture`, each refining
   `FixtureContract`. *Done, with proofs.*
3. `ElasticsearchPolicy`. *Done, with proofs.*
4. `ScenarioReports`, `ReportCompare` and `DemoReports`: the runner's loop, the three
   comparisons, exit codes, for all seven demos. *Done, with proofs.*
5. `TestbedCtl`: the orchestration over several services, composed from one
   `FixtureContract` per service, with the polling loops, the handles and the
   comparison of the two SQL fixtures. *Done, with proofs.*
6. `RecordIdentities`, `FixtureFiles`, `Environment`, composed in `CommandInputs`:
   what the commands read and compare. *Done, with proofs.*

Liveness and the findings aside, no property of a run is left that is only
model-checked (section 7).

Parameters are constants with named assumptions, every operation is one
action, and no module uses a `RECURSIVE` operator, so that all of them can be
proved about.

## 3. The modules

### FixtureContract: what a reset promises

No reset is atomic and none takes a lock, so isolation is not promised and is not
true: a run can report success while another empties what it has just written.
What can be promised is an account. `owed[p]` is what run `p` has cleared and not
written back, `lost` what was missing before anybody dealt with it, and
`outcome[p]` what the caller of `p` sees. A run reports success only if it owes
nothing and everything has been dealt with (`Succeed`). `Clear`, `Restore` and
`Refill` remain possible for a run that has *failed*, since a request it gave up
on may be executed later, and are impossible for a run that has succeeded. It
follows (`Settled`, proved) that once some run has succeeded and none is left
unfinished or failed, the fixture is complete, however the runs were interleaved.
A failed run is an exception that a later success does not lift: resetting again
until the exit status is 0 is what one does, but a request that the failed run gave
up on may still arrive after the success. What is left to rely on then is the
account (`Accounted`): whatever is missing is owed by a run that is unfinished or failed.

### SqlFixture

One invocation of `testbedctl` on MySQL or PostgreSQL is a run `p`:

| Model | Code |
|---|---|
| `Start`, `Ready`, `Dispatch` | `runForBackend` up to the switch on the command, `WaitForSQL` |
| `Script` | the statements of `001_schema.sql` and `002_seed.sql`; MySQL creates its index in `CREATE TABLE`, PostgreSQL in a statement of its own |
| `Send`, `Answer` | one turn of the loops of `ResetSQL` around `ExecContext` |
| `Execute`, `Lose` | the server executes or refuses the statement; it is lost or cancelled |
| `Verify` | `QuerySQLRecords` and `verifyFixture` |
| `Return`, `ReturnError` | the function's return, and the deferred close that can turn success into an error |
| `Expire`, `GiveUp` | the context's deadline; the call that notices it |
| `Break` | a kill, a broken connection, or an unreadable script |

`Execute` is enabled for a run that has already failed: the driver returns when
the context expires, but the server may still have the statement. `Accepts`
says which statements a server refuses in which state: `CREATE TABLE` on an
existing table, the index, `DELETE` or `INSERT` without a table, `INSERT` on a
key that is there. Those refusals are the only way runs disturb each other
visibly.

### MongoFixture

`Steps` are `DeleteMany` and `InsertMany` on `records`, then on `probes`. The server
carries each out document by document (`DeleteOne`, `InsertOne`), other runs in
between, which is what MongoDB promises for multi-document operations without a
transaction. The ordered `InsertMany` stops at the first duplicate key and leaves
what it has inserted. `check` and `verify` only look at the records, as
`QueryMongoIDs` does. The initial state is any subset of the fixture.

### LdapFixture

`stage[p]` follows `ResetLDAP`: list and delete below `ou=records`, list and delete
below `ou=probes`, add all entries. `todo[p]` is the listing taken at that
moment; the server chooses its order, while entries are added in the fixture's.
Deleting what is gone and adding what exists are errors. `ResetLDAP` gets no
context, so `GiveUp` is not possible in phase `resetting`: there only
`OperationEnds`, the driver's five-second limit on one operation, ends a call.
A verification looks at the context once (`Query`) and then opens its connection and
searches without it (`Verify`), so it too may end after the deadline.

### ElasticsearchFixture

A run walks through `Plan(command)`, the sequence of its requests. The server's
rules that matter are in `Execute*`: deleting a missing index is accepted (the
code accepts 404), creating an existing one is refused, a bulk request creates a
missing index with a dynamic mapping, is complete only when a refresh has made
its documents visible (`refresh=wait_for`; `Refresh` may also happen at any other
time), and may be answered 200 although items were refused (`RejectBulk`).
`ContractHolds` is the check of mapping and settings, `Matches` that of the search.
The client library may send a request once more when it did not get an answer to
the first attempt (`Resend`): a `DELETE` executed twice may delete an index another
run has just created, a creation executed twice is refused although it has
succeeded, and a bulk request may refill an index. What is assumed of the library
is that it makes its attempts one after the other and returns after the last, and
of the server that it executes a first attempt, if at all, before the second (see
section 8).

### ElasticsearchPolicy

The demo forbids expensive queries, runs the canonical scenarios and the boundary
check, allows them for the expensive cases, forbids them again and gives them
back in a deferred cleanup. `stage[p]` is that sequence; each change of the
setting is a PUT and a GET that must read back the value (`Put`, `ExecutePut`,
`Get`, `Return`). `late[p]` holds values of PUTs that were given up and may still
arrive, even after the cleanup. `OnError` is where the code's error paths lead:
from the expensive cases to the restoring change, from everywhere else to the
cleanup. The cleanup has a context of its own (`GiveUp`'s second disjunct). The boundary
check takes any error of its query for the rejection it expects, a broken connection
or the deadline included (`Boundary`'s third disjunct).

### ScenarioReports and ReportCompare: the comparisons

`ScenarioReports` has the three comparisons of `internal/scenario/run.go` as operators
on reports, each the conjunction of its early returns. `ReportCompare` builds two
arbitrary reports entry by entry, since the comparisons exist to catch reports
that are not as they should be: repeated names, a name both run and skipped, blank
names and identifiers. A result has a single identifier, which may be blank: apart from
refusing blanks, the comparisons look at match sets only as wholes.

### DemoReports: the demos around them

One demo `p` goes through `selection[p]` (`RunSQL`'s loop; one backend for `RunMemory`
and `RunDocument`). For each backend: `Open` or `OpenFails`, then the loop of `Run`
with one action per scenario that is `Due` (`Skip`, `Execute`, `ScenarioFails`), then the deferred
`Close`, then `Write` or `WriteFails`. `WriteReport` writes a header, with the numbers of
scenarios passed and skipped, and then line by line; at the first line it cannot
write it returns, and the lines before stay where they are (`CutShort`). So an entry of
`printed[p]` is the header together with what followed it (`Output`), and is `Whole` when
as many lines follow as the header says. `Execute` lets the service and the adapter
answer any set of identifiers, so concurrent resets of the fixture and wrong
adapters are all included. `Scenarios` stands for `compilertest`'s canonical
scenarios: the instance has one of each kind the code tells apart. The LDAP demo
runs only those its compiler can express (`Applicable`). The Elasticsearch demo
has its seam cases after them (`RunSeams`, `SeamsFail`), whose results are added to the
report when all are right; what they do to the cluster's setting is
`ElasticsearchPolicy`'s. Only the MongoDB and SQL runners return an error of closing
(`ReportingClose`).

### TestbedCtl: several services in one invocation

An invocation `p` has the services it still has to visit in `selected[p]`, a set as
`serviceSelection` is one; it is visiting the `First` of them in the fixed order of
`run` (`Order`):

| Model | Code |
|---|---|
| `Invoke`, `Refuse` | `run` up to the loops, `selectedServices` |
| `Open`, `OpenFails` | `Load*Config` and `Open*` at the head of `runForBackend` and its siblings |
| `Ready`, `NotReady`, `TimerFires`, `DeadlineWakes` | the polling loops of `WaitFor*`: the ping, and the `select` between timer and deadline |
| `ResetSucceeds`, `Verify`, `Fail` | the switch on the command |
| `Leave`, inside it `Conclude` | the deferred close and cancel, and the next turn of `run`'s loops |
| `Report` | `errors.Join`, the comparison of the rows, and `main`'s exit status |
| `Serve` | the service carrying out requests of a reset, even after it was given up |

What happens inside one service is `FixtureContract`'s: the module composes the
four fixtures through their common abstraction, and its own `Refines` says that
resetting several services in one invocation still keeps the contract of each.
`records[p]` are the rows kept for the comparison, as pairs of a service and a value
that stands for the contents of its rows. LDAP has no handle until its ping
succeeds, and its calls are bounded by the driver instead of the context.

### RecordIdentities, FixtureFiles, Environment and CommandInputs

Sequential functions, as operators: `CompareSQLRecords` on sequences of rows;
`splitSQLStatements` by its loop (`ReadScriptLine`, `Flush`); `ValidateElasticsearchBulk` by
its scanner (`ReadAction`, `ReadSource`, `ReadJunk`), with `compareNullableRaw` on the states
of a field; the encodings of value, null and missing for each backend; the `Load`
functions on the texts of environment variables. `CommandInputs` lets their inputs
grow by any choice. The functions share nothing, so a behaviour is about one
`subject`, and the variables of the others stay as they are.

### MC modules

`MC*` extend a module for TLC and define its symmetry, which is used only where no
liveness property is checked, and the scenarios, command lines and records of the
instances.

## 4. Properties

- `TypeOK` (each fixture module): types, and the shape the runs' own variables keep.
  The policy, `testbedctl` and the demos have one too, which is proved; no run is
  spent on it.
- `Accounted`: damage to a fixture is always the doing of a run that has cleared
  something and not written it back; nobody is left without an account.
- `Settled`: exit statuses can be trusted, as above. It covers what no command
  verifies: the index of the table, the second MongoDB collection, the probes of
  the directory, the mapping of the index. For MongoDB and LDAP, `Accounted` and
  `Settled` are those of `FixtureContract` under the refinement mapping, and so is
  `Accounted` for Elasticsearch: there `Refines` is checked, from which they follow by the
  theorems about the contract (section 7).
- `Replayable`: "replaying this file restores the complete stable fixture", as the
  scripts' comments say. A reset fails only because of a fault, its deadline or
  another run, never because of what an interrupted one left.
- `SomeRunSurvives`, `SomeResetSurvives`: resets running into each other do not all
  fail. For SQL this holds of checks too; for MongoDB only of resets, since two
  checks can each find the other's records missing. It is *not* true of LDAP, where
  listings in different orders let every run delete an entry another has just
  deleted, nor of Elasticsearch, where each run's contract check can meet another's
  deletion; it is not stated there.
- `Refines`: the module implements `FixtureContract`.
- `GivenBack`, `OwnFailures`, `SuccessGivesBack` (policy): the setting remains
  forbidden only by a running demo or one that met a fault; a demo fails only
  because of a fault or another demo; an undisturbed success ends with the setting
  confirmed as allowed.
- `AgreementCarriesOver`, `CoreSymmetric` (comparisons): the matrix test compares
  candidates with the reference and a few pairs with each other, and the claim
  "all agree" is about all pairs; these say that it follows, and that the verdict
  on a pair does not depend on its order.
- `PrintedAgree` (demos): any two reports that stand on any demos' outputs, cut
  short or not, agree on the scenarios they have in common; two whole ones have
  some, and whole ones of the backends that run exactly the canonical scenarios are
  accepted by the comparisons. `ExitStatus`: exit 0 means a whole, complete and
  correct report for every backend asked for, exit 1 that one is missing or cut
  short. A report cut short is the last one, has fewer lines than its header says,
  and nothing wrong in it.
- `FailuresJoined`, `SettledEverywhere` (testbedctl): exit 0 means that every selected
  service was visited with success, and the promise of `Settled` for all of them at
  once. `VisitsApart`: however a visit ends, its handle is closed before the next
  begins, and the next has its own time.
- `ScriptKept`: splitting loses, repeats and joins nothing; each statement is a
  stretch of the script from text to text, in order, and two lines of text share
  one exactly when no boundary is between them. `BulkFaithful`: the bulk file
  is accepted exactly when it can restore the whole fixture. `StatesKept`: after a
  reset, a backend tells null and missing apart exactly if its harness says so.
  `RecordsAgree`: `CompareSQLRecords` accepts exactly the equal fixtures.
  `EnvironmentObeyed`: a configuration is what the environment says, or refused.
- `Terminates`: every run ends, whatever servers and network do.

`faulted` and `crossed` (and `setter`, `cleaned` in the policy) are history variables:
no guard reads them. A run is *faulted* when a request of its is lost, its
deadline passes, its handle fails to close or it is killed, and *crossed* when
another run's change takes effect between its steps.

## 5. Runs

| Run | Instance | Shows |
|---|---|---|
| `SqlCommands` | 2 runs, 2 rows, PostgreSQL, all commands | all properties of the module |
| `MongoCommands` | 2 runs, 2 records, 1 probe, all commands | `TypeOK`, `Replayable`, `SomeResetSurvives`, `Terminates`, `Refines` |
| `LdapCommands` | 2 runs, 2 records, 1 probe, all commands | `TypeOK`, `Replayable`, `Terminates`, `Refines` |
| `LdapDeadline` | 1 reset | finding 1: `TimeoutStopsChanges` does not hold |
| `ElasticsearchCommands` | 2 runs, 2 records, all commands | `TypeOK`, `Replayable`, `Settled`, `Terminates`, `Refines` |
| `PolicyDemos` | 2 demos | `GivenBack`, `OwnFailures`, `SuccessGivesBack`, `Terminates` |
| `PolicyExitStatus` | 1 demo | finding 2: `CleanupReported` does not hold |
| `ReportComparisons` | all pairs of reports of up to 2 entries over 2 names, 2 identifiers and blanks | all properties of the comparisons but the next |
| `ReportSkips` | the same | finding 3: `EquivalentMeansIdentical` does not hold |
| `DemoMatrix` | 2 demos, any selection, one scenario of each kind, one seam case | `PrintedAgree`, `ExitStatus`, `Terminates` |
| `TestbedCommands` | 3 services; one invocation checks all, verifies the SQL ones or asks for the directory's health, the other resets MySQL | all properties of the module but the types |
| `CommandInputs` | scripts of up to 7 lines, bulk files over 3 records, pairs of fixtures of up to 2 rows, all environments | the properties of the inputs |

**Bounds.** The state spaces are finite without constraints: every run walks
through a bounded script, each invocation is one run, and the only bounds are the
constants. Two runs are enough for every pairwise interference, including a late
request of a failed run meeting a later run. Two documents or
entries are the least for an insert that stops halfway and for a listing of which
a part has become stale; one probe makes the second collection or unit
distinguishable from the first. A row of the SQL table needs no more than one
identifier except for the mapping of the account row by row, since the script's
`INSERT` is one statement. PostgreSQL's script is the longer one, with an index that
can be missing on its own; that `Accounted`, `Settled` and `Refines` hold for MySQL's
too, and for more than two runs, is proved.

`TestbedCommands` has one service with a context-bound client that is compared, one
that is also reset by the other invocation, and one without a context; a third
kind would repeat MongoDB's. Its second invocation is the one that disturbs the
first, so both resetting everything would only repeat the interference that the
fixture modules have. Seven lines are what it takes for two statements that
each have a blank line inside and a boundary before, between and after them; two
rows on each side for a repetition beside a row that differs. In `CommandInputs`
`MaxLines` and `MaxRows` are bounds in the guards.

Two entries per report are what it takes for a repeated name, a name both run
and skipped, and a name missing on one side; `MaxEntries` bounds
them. Two demos are enough for properties of pairs of reports.

`CHECK_DEADLOCK FALSE` is set because the invocations end: a state in which all
have finished has no successor.

**Fairness.** Assumed is only what the Go runtime and the drivers provide: a
context's timer fires (`Expire`), and a call returns once its context has expired
(`GiveUp`). In `LdapFixture`, where neither a reset nor a search under way has a context,
it is that the driver's limit ends an operation (`OperationEnds`) and that the process goes on with its
loops (`Send`, `NextLoop`). In `ElasticsearchPolicy` the cleanup's own five-second
context ends the cleanup. In `DemoReports` the demo's own code between calls (`Finish`, `Close`,
writing) also runs on; its calls to the directory take no context once they have
begun, and end at the latest by the driver's limit after the deadline, which
`GiveUp` stands for as well. In `TestbedCtl`, `select` may take the polling timer although
the deadline has passed, but since it chooses at random among the cases that are
ready, not always: strong fairness of `DeadlineWakes`. Nothing is assumed of servers or network: `Execute*`,
`Ready`, `Refresh` have no fairness, so `Terminates` holds even if every server is
silent for ever.

Every property has a mutant in `PROJECT.json`: a plausible bug of the code (an error
not looked at, a missing `DROP`, a loop run once too often, a call without its
context), under which TLC finds the property violated in the same run. The
mutants are written in the modules beside the definitions they replace.

## 6. Findings

1. **`ResetLDAP` does not end at the timeout** (`LdapDeadline`,
   `internal/testenv/ldap.go:190`). `README.md:112` says that each operation has a
   finite per-service timeout; `ResetLDAP` takes no context, and after the timeout
   it continues deleting and adding entries, each within the connection's own
   five seconds. It does end (`Terminates`), but a reset may succeed well after its
   deadline.
2. **A failed cleanup is not reported** (`PolicyExitStatus`,
   `internal/demoharness/elasticsearch.go:120`). `cmd/README.md:146` lists cleanup
   among the failures that exit 1; the error of giving back the expensive-query
   setting is discarded, so a demo may exit 0 and leave expensive queries
   forbidden for everybody.

3. **Equivalence overlooks skipped scenarios** (`ReportSkips`,
   `internal/scenario/run.go:210`). The comment on `CompareEquivalent` promises
   identical skip decisions; a name repeated among the right report's skipped
   scenarios can stand for a missing one. The reports of `Run` name each scenario
   once, so the matrix test is not affected.

## 7. What is proved

| Module | Theorems |
|---|---|
| `SqlFixtureProofs` | `TypeCorrect`, `AccountedHolds`, `ReplayableHolds`, `SomeRunSurvivesHolds`, `SettledHolds`, `RefinesHolds` |
| `MongoFixtureProofs` | `TypeCorrect`, `AccountedHolds`, `ReplayableHolds`, `SomeResetSurvivesHolds`, `SettledHolds`, `RefinesHolds` |
| `LdapFixtureProofs` | `TypeCorrect`, `AccountedHolds`, `ReplayableHolds`, `SettledHolds`, `RefinesHolds` |
| `ElasticsearchFixtureProofs` | `TypeCorrect`, `AccountedHolds`, `ReplayableHolds`, `SettledHolds`, `RefinesHolds` |
| `ElasticsearchPolicyProofs` | `TypeCorrect`, `GivenBackHolds`, `OwnFailuresHolds`, `SuccessGivesBackHolds` (an action property) |
| `TestbedCtlProofs` | `TypeCorrect`, `VisitsApartHolds`, `FailuresJoinedHolds`, `SettledEverywhereHolds`, `RefinesHolds`; `AccountKept`, `ContractSettled`, about `FixtureContract` |
| `ReportProofs` | `CoreSymmetricHolds`, `AgreementCarriesOverHolds`, about the comparisons; `DemosTypeCorrect`, `ExitStatusHolds`, `PrintedAgreeHolds`, about the demos |
| `CommandInputsProofs` | `ScriptKeptHolds`, `BulkFaithfulHolds`, `StatesKeptHolds`, `RecordsAgreeHolds`, `EnvironmentObeyedHolds` |

All hold for any sets of runs, rows, documents, entries, services, demos, scenarios
or names, and for inputs of any length; the only assumptions are the named
`ASSUME`s of the modules: commands and dialects are those the code has, fixtures have
the form the code's constants give them, the services are among the five, the
canonical identifiers are finitely many and at least one, and neither they nor a
scenario's name are blank. Of the scenarios and seam cases it is assumed that
their names differ, and that some scenario needs neither missing fields nor what the
LDAP compiler lacks and has one match set for every backend; the
matrix test fails without such a scenario (`integration/matrix_test.go:112`), and
only `PrintedAgree` uses it. TLC evaluates the assumptions in every run.
Each module rests on an inductive invariant, `IInv` or, for the demos, `DemosInv`,
proved first, of which the header of the module gives the argument. Before its proof each was
checked by TLC, on the instances of section 5 and, where that is feasible, larger
ones: three resets or checks of either SQL dialect (20.9 million states), three
resets of MongoDB, three demos of the policy (3.9 million states).

**SQL.** `Shapes` ties each run's place in the script to its command and phase.
`Account` explains what the table lacks by a run at a known place: once a statement
has been executed, a missing table by a run that has executed its `DROP` and nothing
after it, a missing index by a run between PostgreSQL's `CREATE TABLE` and `CREATE INDEX`,
and missing rows by a run that owes them. `Settled` and `Accounted` are not inductive
without it: an `INSERT` that ends the last debt makes the fixture whole only because
the table then has its index, and nothing in `Accounted` says so while the debt
lasts. `Undisturbed` says that a run which met neither a fault nor another run finds
the table as its own statements left it, hence `Replayable`. `Survival` says that, without faults,
whatever is missing is about to be supplied by a run none of whose statements has
been refused; a refusal is always due to another run's progress, hence
`SomeRunSurvives`.

**MongoDB and LDAP.** A run's whole effect is in two sets, what it has cleared and
what it has written; each action but the server's leaves both alone. For MongoDB
the ordered `InsertMany` makes what a run has written a prefix, so of any runs one is
ahead (`Leader`), and only a run ahead can stop another: `SomeResetSurvives`. For LDAP
the listing is part of the invariant: a run that nobody disturbed still finds
what it has listed and not yet deleted.

**Elasticsearch.** `Account` has one clause for each of missing documents, documents
not yet visible and a mapping that is not the strict one, each naming the reset that
has not got far enough; a bulk request that creates the index by itself damages
the mapping only while some reset has its own contract check still ahead.

**The policy.** `GivenBack` is not inductive: it needs `LastWord`, that a demo without a
fault which set the policy last and has reached its cleanup's answer has set it to
allowed, and `Abandoned`, that late PUTs belong to demos that met a fault.

**testbedctl.** `Progress` (an invocation has a verdict on exactly the chosen services
it need not visit any more), `Reading` (the rows it holds are those of its successful
visits, one kind for each service) and `Account` (who may have requests under way at a
service, and who may owe records there). The refinement is of one contract per
service; every step is a step of each contract or leaves it alone. `Refines` is
stated as the contracts' initial conditions and an action property, which is what a
quantified `Spec` amounts to.

**Comparisons.** That two reports within the reference's universe have the same
scenarios rests on counting: a subset of a finite set that is as large is the set.
The lemmas are about reports of any length.

**Demos.** `PrintedAgree` speaks of what is printed, and nothing in it says how that
came about, so it is not inductive. `DemosInv` follows a report from where `Run`
starts it: all its results are right ones for its backend (`RightSoFar`), it mentions
exactly the scenarios `Run` has come past, each once (`Accounted`, a part of
`TypeOK`), because the one whose turn it is is not mentioned yet (`PastFacts`); once
nothing is due any more, the report is complete. `PrintedRight` keeps that for
what has been printed as a whole, and for a report cut short that its results are
right as far as they go (`EntryRight`, `CutFacts`) and that it is the last of a demo that
exits 1. `Underway` relates how many reports those are to the selection and the exit code
(`SomeMissing` for exit 1), which with `PrintedRight` is `ExitStatus`. `PrintedAgree` then
follows without any further induction, from what two right reports are, wherever
they were made: results of one name are of one scenario (`RightAgree`), and between
complete ones the comparisons' lookups and counts succeed (`CompleteFacts`,
`CanonicalFacts`, with the lemmas about the comparisons).

**Inputs.** These functions are loops over their input, and the proofs are about one
turn. `ScriptInv` says that what has been collected is exactly the lines since the last
boundary and that the statements split what comes before as they should; flushing
extends the split to the end (`FlushFacts`), because trimming leaves the lines from the
first text to the last (`TrimFacts`). `ScriptKept` says the same of the statements at
the end of every prefix. `BulkInv` says that the sources accepted are their
records' own, and none twice; that the comparison leaves nothing else for a
record is `SourceFacts`, on which `StatesKept` rests too. `RecordsAgree` and
`EnvironmentObeyed` are shown of any two fixtures and any environment.

**The contract.** `AccountKept` and `ContractSettled`, from `TypeOK`, `Accounted` and `Reports`
together, for any identifiers and runs; they stand at the end of `TestbedCtlProofs`,
which composes one contract per service. Every module that implements the
contract inherits them.

**Only model-checked**: every liveness property (`Terminates`, outside the prover's
reach, as is anything with `ENABLED`), and the findings, which are counterexamples.
What a recursive definition computes for every input is outside the prover's reach
as well; the modules contain no recursive operator.

## 8. Simplifications

- A SQL statement is atomic at the server and commits at once (both drivers use
  autocommit); rows are their identifiers. The scripts' `INSERT` is one statement.
- The read of a verification is atomic for SQL, MongoDB and LDAP. For
  Elasticsearch the three reads are three steps. In `TestbedCtl` a verification is one
  step within the deadline for every service; that LDAP's may end later is in
  `LdapFixture`.
- A first attempt at an Elasticsearch request that is executed only *after* the
  second, the connection having broken with the request still queued at the server,
  is not modelled: the server is taken to execute the attempts at one request in
  the order they were made. It is an assumption of `Settled` and `Refines`: a `DELETE` whose
  first attempt came through only after its run has succeeded would break both.
  A request of a run that has *failed* may be executed at any later time.
- A line of a report is written or not: a part of one, which a failing write may
  leave at the end of the output, counts as not written.
- In the fixture modules a wait for readiness is its outcome; its polling loop is in
  `TestbedCtl`.
- In `TestbedCtl` a reset's requests are those of `FixtureContract`, any set of records
  at a time, and the identifiers are those a verification reads.
- Contents of documents, entries and rows are abstracted: the code writes
  constants, so a record is there or it is not.
- What fails before the first request that changes a service (reading the bulk
  file, building the client) is part of `Break`.
- Identifiers in reports are sets, since every comparison sorts and removes
  repetitions first; blank names are those `TrimSpace` makes empty.
- `Run`'s checks of its own arguments (nil context, factory or callback) cannot fail
  for the demos and are left out.
- A bulk file's required scalar fields are one value (`of`), and a script's line is a
  boundary, blank or text; blanks inside a line do not matter, since only the
  whole statement is trimmed. The canonical records have no zero numbers and no
  empty texts in nullable fields, for which `rawEquals` would also take null.
- Environment texts are those the code tells apart: unset, blank, the default and
  two others. An unset variable and an empty one are the same to `os.Getenv`.
- The services keep their data in what the model calls the server's state; a
  server's own crash or loss of data is not modelled, since the testbed has no
  code for it beyond failing.

Not modelled, and why: the adapters of external compilers and the canonical
scenarios (the `weave` libraries are not in this repository), generated code,
container start-up, the inspections of compiled conditions (pure walks over library
types), and the integration tests, which were read as statements of intent.
