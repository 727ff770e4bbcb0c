---------------------------- MODULE LdapFixture ----------------------------
(***************************************************************************)
(* The LDAP fixture: runs of testbedctl, or of the LDAP demo, against one  *)
(* directory (cmd/testbedctl/main.go, internal/testenv/ldap.go).           *)
(*                                                                         *)
(* A reset lists the children of ou=records, deletes them one by one, does *)
(* the same for ou=probes, and then adds every fixture entry in order.     *)
(* Each listing is taken once and is stale as soon as another run moves.   *)
(* Deleting an entry that is gone and adding one that exists are errors.   *)
(* ResetLDAP takes no context: only the driver's five-second limit per     *)
(* operation bounds it, and the run's own deadline does not stop it.       *)
(***************************************************************************)
EXTENDS Naturals

CONSTANTS
    Runs,      \* invocations working on this directory
    Records,   \* the entries below ou=records, in the order they are added
    Probes,    \* the entries below ou=probes, in the same order
    Commands   \* the commands the invocations may be given

ASSUME EntriesAssumption ==
    /\ Records \subseteq Nat \ {0} /\ Probes \subseteq Nat \ {0}
    /\ \A r \in Records, q \in Probes : r < q
ASSUME CommandsAssumption ==
    Commands \subseteq {"health", "reset", "verify", "check"}

VARIABLES
    held,      \* the fixture entries the directory holds
    command,   \* command[p]: what p was asked to do
    phase,     \* phase[p]: where p's runForLDAP is
    stage,     \* stage[p]: how far p's ResetLDAP is, see Stages
    todo,      \* todo[p]: entries p has still to delete, or to add
    entry,     \* entry[p]: the entry p's operation is about, 0 if it is in none
    wire,      \* wire[p]: what became of that operation so far
    expired,   \* runs whose context's deadline has passed
    \* history, for stating properties
    faulted,   \* runs that met a fault or their deadline
    crossed    \* runs between whose operations another's took effect

historyVars == <<faulted, crossed>>
vars == <<held, command, phase, stage, todo, entry, wire, expired, faulted, crossed>>

Entries == Records \union Probes

\* ResetLDAP in order: list and delete the records, list and delete the
\* probes, add everything.
Stages == {"listRecords", "deleteRecords", "listProbes", "deleteProbes", "add", "end"}

Resets == {"reset", "check"}
Active == {"waiting", "resetting", "verifying", "searching"}
Phases == Active \union {"idle", "ok", "failed"}

-----------------------------------------------------------------------------

\* Earlier runs may have left any part of the fixture behind.
Init ==
    /\ held \in SUBSET Entries
    /\ command = [p \in Runs |-> "health"]
    /\ phase = [p \in Runs |-> "idle"]
    /\ stage = [p \in Runs |-> "listRecords"]
    /\ todo = [p \in Runs |-> {}]
    /\ entry = [p \in Runs |-> 0]
    /\ wire = [p \in Runs |-> "none"]
    /\ expired = {}
    /\ faulted = {}
    /\ crossed = {}

\* The invocation starts its deadline and waits for the directory.
Start(p) ==
    /\ phase[p] = "idle"
    /\ \E c \in Commands : command' = [command EXCEPT ![p] = c]
    /\ phase' = [phase EXCEPT ![p] = "waiting"]
    /\ UNCHANGED <<held, stage, todo, entry, wire, expired, historyVars>>

\* The command is carried out, once the directory is up and known.
Dispatch(p) ==
    /\ phase' = [phase EXCEPT ![p] = CASE command[p] = "health" -> "ok"
                                       [] command[p] = "verify" -> "verifying"
                                       [] command[p] \in Resets -> "resetting"]
    /\ UNCHANGED historyVars

\* The root DSE or the schema cannot be read, or lacks LDAPv3 or a custom
\* attribute type.
Unsupported(p) ==
    /\ phase' = [phase EXCEPT ![p] = "failed"]
    /\ faulted' = faulted \union {p}
    /\ UNCHANGED crossed

\* WaitForLDAP has bound and searched.  It does so without consulting the
\* context, so it may succeed at any time.
Ready(p) ==
    /\ phase[p] = "waiting"
    /\ Dispatch(p) \/ Unsupported(p)
    /\ UNCHANGED <<held, command, stage, todo, entry, wire, expired>>

\* Run p has seen or changed some of the entries.
Begun(p) == stage[p] # "listRecords"

Between(p) == {q \in Runs \ {p} : phase[q] \in Active /\ Begun(q)}

\* Mutant of List: the whole directory is listed as the first unit's children.
ListEverything(p) ==
    /\ phase[p] = "resetting"
    /\ \/ /\ stage[p] = "listRecords"
          /\ stage' = [stage EXCEPT ![p] = "deleteRecords"]
       \/ /\ stage[p] = "listProbes"
          /\ stage' = [stage EXCEPT ![p] = "deleteProbes"]
    /\ todo' = [todo EXCEPT ![p] = held]
    /\ UNCHANGED <<held, command, phase, entry, wire, expired, historyVars>>

\* Mutant of List: the records are listed for both units.
ListRecordsTwice(p) ==
    /\ phase[p] = "resetting"
    /\ \/ /\ stage[p] = "listRecords"
          /\ stage' = [stage EXCEPT ![p] = "deleteRecords"]
       \/ /\ stage[p] = "listProbes"
          /\ stage' = [stage EXCEPT ![p] = "deleteProbes"]
    /\ todo' = [todo EXCEPT ![p] = held \cap Records]
    /\ UNCHANGED <<held, command, phase, entry, wire, expired, historyVars>>

\* The children of the next organizational unit are listed, once.
List(p) ==
    /\ phase[p] = "resetting"
    /\ \/ /\ stage[p] = "listRecords"
          /\ stage' = [stage EXCEPT ![p] = "deleteRecords"]
          /\ todo' = [todo EXCEPT ![p] = held \cap Records]
       \/ /\ stage[p] = "listProbes"
          /\ stage' = [stage EXCEPT ![p] = "deleteProbes"]
          /\ todo' = [todo EXCEPT ![p] = held \cap Probes]
    /\ UNCHANGED <<held, command, phase, entry, wire, expired, historyVars>>

\* The next Del request, in whatever order the server has listed the children,
\* or the next Add request, in the order of LDAPEntries, is sent; the context is
\* not consulted.
Send(p) ==
    /\ phase[p] = "resetting"
    /\ stage[p] \in {"deleteRecords", "deleteProbes", "add"}
    /\ wire[p] = "none"
    /\ wire' = [wire EXCEPT ![p] = "sent"]
    /\ \E e \in todo[p] :
          /\ stage[p] = "add" => \A f \in todo[p] : e <= f
          /\ entry' = [entry EXCEPT ![p] = e]
    /\ UNCHANGED <<held, command, phase, stage, todo, expired, historyVars>>

\* The server executes p's Del: an entry that is gone is an error.
ExecuteDel(p) ==
    /\ wire[p] = "sent" /\ stage[p] \in {"deleteRecords", "deleteProbes"}
    /\ held' = held \ {entry[p]}
    /\ wire' = [wire EXCEPT ![p] = IF entry[p] \in held THEN "done" ELSE "error"]
    /\ crossed' = crossed \union Between(p)
    /\ UNCHANGED <<command, phase, stage, todo, entry, expired, faulted>>

\* The server executes p's Add: an entry that exists is an error.
ExecuteAdd(p) ==
    /\ wire[p] = "sent" /\ stage[p] = "add"
    /\ held' = held \union {entry[p]}
    /\ wire' = [wire EXCEPT ![p] = IF entry[p] \in held THEN "error" ELSE "done"]
    /\ crossed' = crossed \union Between(p)
    /\ UNCHANGED <<command, phase, stage, todo, entry, expired, faulted>>

\* The request is lost, or the server fails to carry it out.
Lose(p) ==
    /\ wire[p] = "sent"
    /\ wire' = [wire EXCEPT ![p] = "error"]
    /\ faulted' = faulted \union {p}
    /\ UNCHANGED <<held, command, phase, stage, todo, entry, expired, crossed>>

\* Mutant of Answer: a result that reports an error counts as done.
AnswerIgnoringErrors(p) ==
    /\ phase[p] = "resetting"
    /\ wire[p] \in {"done", "error"}
    /\ wire' = [wire EXCEPT ![p] = "none"]
    /\ todo' = [todo EXCEPT ![p] = @ \ {entry[p]}]
    /\ entry' = [entry EXCEPT ![p] = 0]
    /\ UNCHANGED <<held, command, phase, stage, expired, historyVars>>

\* The operation's answer: the entry is finished, or the run is.
Answer(p) ==
    /\ phase[p] = "resetting"
    /\ \/ /\ wire[p] = "done"
          /\ wire' = [wire EXCEPT ![p] = "none"]
          /\ todo' = [todo EXCEPT ![p] = @ \ {entry[p]}]
          /\ entry' = [entry EXCEPT ![p] = 0]
          /\ UNCHANGED phase
       \/ /\ wire[p] = "error"
          /\ phase' = [phase EXCEPT ![p] = "failed"]
          /\ UNCHANGED <<wire, todo, entry>>
    /\ UNCHANGED <<held, command, stage, expired, historyVars>>

\* A loop of ResetLDAP has gone through its entries: the next one begins, or
\* the reset has succeeded.
NextLoop(p) ==
    /\ phase[p] = "resetting"
    /\ stage[p] \in {"deleteRecords", "deleteProbes", "add"}
    /\ todo[p] = {}
    /\ \/ /\ stage[p] = "deleteRecords"
          /\ stage' = [stage EXCEPT ![p] = "listProbes"]
          /\ UNCHANGED <<phase, todo>>
       \/ /\ stage[p] = "deleteProbes"
          /\ stage' = [stage EXCEPT ![p] = "add"]
          /\ todo' = [todo EXCEPT ![p] = Entries]
          /\ UNCHANGED phase
       \/ /\ stage[p] = "add"
          /\ stage' = [stage EXCEPT ![p] = "end"]
          /\ phase' = [phase EXCEPT ![p] = IF command[p] = "check" THEN "verifying" ELSE "ok"]
          /\ UNCHANGED todo
    /\ UNCHANGED <<held, command, entry, wire, expired, historyVars>>

\* What verifyLDAPFixture accepts: it looks at the records only.
Matches == Records \subseteq held

\* queryLDAP consults the context once, before it opens a connection of its own.
Query(p) ==
    /\ phase[p] = "verifying"
    /\ p \notin expired
    /\ phase' = [phase EXCEPT ![p] = "searching"]
    /\ UNCHANGED <<held, command, stage, todo, entry, wire, expired, historyVars>>

\* It then searches ou=records, whatever has become of the deadline.
Verify(p) ==
    /\ phase[p] = "searching"
    /\ phase' = [phase EXCEPT ![p] = IF Matches THEN "ok" ELSE "failed"]
    /\ UNCHANGED <<held, command, stage, todo, entry, wire, expired, historyVars>>

-----------------------------------------------------------------------------

\* The deadline of p's context passes.
Expire(p) ==
    /\ phase[p] \in Active
    /\ p \notin expired
    /\ expired' = expired \union {p}
    /\ faulted' = faulted \union {p}
    /\ UNCHANGED <<held, command, phase, stage, todo, entry, wire, crossed>>

\* Mutant of GiveUp: the wait for the directory does not look at the context.
GiveUpOnlyVerifying(p) ==
    /\ phase[p] = "verifying"
    /\ p \in expired
    /\ phase' = [phase EXCEPT ![p] = "failed"]
    /\ UNCHANGED <<held, command, stage, todo, entry, wire, expired, historyVars>>

\* Only the wait between two attempts to connect, and queryLDAP before it opens
\* its connection, look at the context.
GiveUp(p) ==
    /\ phase[p] \in {"waiting", "verifying"}
    /\ p \in expired
    /\ phase' = [phase EXCEPT ![p] = "failed"]
    /\ UNCHANGED <<held, command, stage, todo, entry, wire, expired, historyVars>>

\* An operation exceeds the connection's five-second limit, the connection
\* breaks, a listing or a search fails, or the process is killed.  A request in
\* flight may still be executed.
Break(p) ==
    /\ phase[p] \in Active
    /\ phase' = [phase EXCEPT ![p] = "failed"]
    /\ faulted' = faulted \union {p}
    /\ UNCHANGED <<held, command, stage, todo, entry, wire, expired, crossed>>

Next ==
    \E p \in Runs :
        \/ Start(p) \/ Ready(p)
        \/ List(p) \/ Send(p) \/ Answer(p) \/ NextLoop(p)
        \/ ExecuteDel(p) \/ ExecuteAdd(p) \/ Lose(p)
        \/ Query(p) \/ Verify(p)
        \/ Expire(p) \/ GiveUp(p) \/ Break(p)

Spec == Init /\ [][Next]_vars

\* An operation in flight ends within five seconds, by its answer or by the
\* limit, which breaks the run; the program then goes on; the context's timer
\* fires.  Nothing is assumed of the server.
OperationEnds(p) ==
    \/ List(p)
    \/ Answer(p)
    \/ Verify(p)
    \/ /\ \/ phase[p] = "searching"
          \/ /\ phase[p] = "resetting"
             /\ wire[p] = "sent" \/ stage[p] \in {"listRecords", "listProbes"}
       /\ Break(p)

Fairness ==
    \A p \in Runs :
        /\ WF_vars(Send(p)) /\ WF_vars(NextLoop(p)) /\ WF_vars(OperationEnds(p))
        /\ WF_vars(Expire(p)) /\ WF_vars(GiveUp(p))

FairSpec == Spec /\ Fairness

-----------------------------------------------------------------------------

\* Types, and what an operation in flight is about.
TypeOK ==
    /\ held \in SUBSET Entries
    /\ command \in [Runs -> {"health", "reset", "verify", "check"}]
    /\ phase \in [Runs -> Phases]
    /\ stage \in [Runs -> Stages]
    /\ todo \in [Runs -> SUBSET Entries]
    /\ entry \in [Runs -> Entries \union {0}]
    /\ wire \in [Runs -> {"none", "sent", "done", "error"}]
    /\ expired \in SUBSET Runs /\ faulted \in SUBSET Runs /\ crossed \in SUBSET Runs
    /\ \A p \in Runs :
          /\ IF wire[p] = "none" THEN entry[p] = 0 ELSE entry[p] \in todo[p]
          /\ stage[p] = "deleteRecords" => todo[p] \subseteq Records
          /\ stage[p] = "deleteProbes" => todo[p] \subseteq Probes

IsReset(p) == phase[p] # "idle" /\ command[p] \in Resets

\* What run p's current loop has still to get through at the server.
Left(p) == IF wire[p] = "done" THEN todo[p] \ {entry[p]} ELSE todo[p]

\* The entries whose places run p has cleared: it has listed their unit, and
\* they were not there or it has deleted them.
Cleared(p) ==
    {e \in Records : /\ stage[p] # "listRecords"
                     /\ stage[p] = "deleteRecords" => e \notin Left(p)}
    \union
    {e \in Probes : /\ stage[p] \in {"deleteProbes", "add", "end"}
                    /\ stage[p] = "deleteProbes" => e \notin Left(p)}

\* The entries run p has added.
Written(p) == {e \in Entries : stage[p] \in {"add", "end"} /\ e \notin Left(p)}

\* What run p is accountable for.
Owed(p) == Cleared(p) \ Written(p)

\* An entry that is missing is one whose place no run has cleared, or some run
\* has cleared it and not added it since: wherever a reset stops, and however
\* stale its listing was, what is gone is on its account.
Accounted ==
    \A e \in Entries \ held :
        (\A p \in Runs : e \notin Cleared(p)) \/ (\E p \in Runs : e \in Owed(p))

\* When some reset or check has succeeded and none is unfinished or failed, all
\* eleven entries are there, although check only counts the six records.
Settled ==
    (/\ \E p \in Runs : IsReset(p) /\ phase[p] = "ok"
     /\ \A p \in Runs : IsReset(p) => phase[p] = "ok") => held = Entries

\* A reset or check fails only because of a fault, its deadline or another run,
\* never because of the entries an interrupted run left behind.
Replayable ==
    \A p \in Runs : IsReset(p) /\ phase[p] = "failed" => p \in faulted \union crossed

\* Every run ends, even one whose directory never answers.
Terminates ==
    \A p \in Runs : phase[p] \in Active ~> phase[p] \in {"ok", "failed"}

\* "Each operation has a finite per-service timeout" (README.md): once the
\* timeout of a run has passed, it starts no further change of the directory.
TimeoutStopsChanges ==
    [][\A p \in Runs : p \in expired /\ wire[p] = "none" => wire'[p] # "sent"]_vars

-----------------------------------------------------------------------------

\* The account of FixtureContract, entry by entry.
lostBar == {e \in Entries \ held : \A p \in Runs : e \notin Cleared(p)}

owedBar == [p \in Runs |-> Owed(p)]

outcomeBar == [p \in Runs |-> IF ~IsReset(p) THEN "idle"
                              ELSE IF phase[p] \in Active THEN "active"
                              ELSE phase[p]]

Contract == INSTANCE FixtureContract WITH
    Ids <- Entries,
    present <- held, lost <- lostBar, owed <- owedBar, outcome <- outcomeBar

\* ResetLDAP with its callers implements FixtureContract.
Refines == Contract!Spec

=============================================================================
