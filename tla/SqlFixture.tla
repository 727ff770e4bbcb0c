---------------------------- MODULE SqlFixture ----------------------------
(***************************************************************************)
(* The SQL fixture: runs of testbedctl against one MySQL or PostgreSQL     *)
(* database (cmd/testbedctl/main.go, internal/testenv/sql.go and the       *)
(* scripts under testdata/).                                               *)
(*                                                                         *)
(* A reset replays the schema script and then the seed script, one         *)
(* ExecContext call per statement, each committed on its own and with no   *)
(* transaction, lock or lease around them.  The statements of several runs *)
(* therefore interleave at the server.  A run that gives up at its         *)
(* deadline, loses its connection or is killed leaves behind at most one   *)
(* statement, which the server may still execute.                          *)
(***************************************************************************)
EXTENDS Naturals, Sequences

CONSTANTS
    Runs,      \* invocations of testbedctl on this backend
    Ids,       \* the identifiers of the fixture's rows
    Dialect,   \* "mysql" or "postgres": whose scripts are replayed
    Commands   \* the commands the invocations may be given

ASSUME DialectAssumption == Dialect \in {"mysql", "postgres"}
ASSUME CommandsAssumption ==
    Commands \subseteq {"health", "reset", "verify", "check"}

VARIABLES
    \* the server
    table,     \* table semantic_records: absent, without its index, or complete
    rows,      \* the identifiers of the rows in the table
    \* the runs
    command,   \* command[p]: what p was asked to do
    phase,     \* phase[p]: where p's runForBackend is
    next,      \* next[p]: position in the script of p's current statement
    wire,      \* wire[p]: what became of that statement so far
    expired,   \* runs whose context's deadline has passed
    \* history, for stating properties
    faulted,   \* runs that met a fault or their deadline
    crossed    \* runs between whose statements another's was executed

serverVars  == <<table, rows>>
historyVars == <<faulted, crossed>>
vars == <<table, rows, command, phase, next, wire, expired, faulted, crossed>>

\* Mutant of Script: a schema script without DROP TABLE IF EXISTS.
ScriptWithoutDrop ==
    IF Dialect = "mysql"
    THEN <<"create", "delete", "insert">>
    ELSE <<"create", "index", "delete", "insert">>

\* What ResetSQL reads from 001_schema.sql and 002_seed.sql, in order.
Script ==
    IF Dialect = "mysql"
    THEN <<"drop", "create", "delete", "insert">>
    ELSE <<"drop", "create", "index", "delete", "insert">>

Steps == Len(Script)

Resets == {"reset", "check"}   \* the commands that replay the scripts

Phases == {"idle", "waiting", "resetting", "verifying", "ok", "failed"}
Active == {"waiting", "resetting", "verifying"}

\* "sent": at the server or on the way; "done" and "error": executed or
\* refused, whether or not the client has seen the answer.
Wire == {"none", "sent", "done", "error"}

-----------------------------------------------------------------------------

Init ==
    /\ table \in {"absent", "indexed"}
    /\ rows = IF table = "absent" THEN {} ELSE Ids
    /\ command = [p \in Runs |-> "health"]
    /\ phase = [p \in Runs |-> "idle"]
    /\ next = [p \in Runs |-> 1]
    /\ wire = [p \in Runs |-> "none"]
    /\ expired = {}
    /\ faulted = {}
    /\ crossed = {}

\* The invocation opens its handle and starts its deadline.
Start(p) ==
    /\ phase[p] = "idle"
    /\ \E c \in Commands : command' = [command EXCEPT ![p] = c]
    /\ phase' = [phase EXCEPT ![p] = "waiting"]
    /\ UNCHANGED <<serverVars, next, wire, expired, historyVars>>

\* Run p returns nil; the deferred Close may still turn that into an error.
Return(p) ==
    \/ /\ phase' = [phase EXCEPT ![p] = "ok"]
       /\ UNCHANGED historyVars
    \/ /\ phase' = [phase EXCEPT ![p] = "failed"]
       /\ faulted' = faulted \union {p}
       /\ UNCHANGED crossed

\* Run p returns an error of its own: a statement or the comparison failed.
\* (A failing Close does not replace that error.)
ReturnError(p) == phase' = [phase EXCEPT ![p] = "failed"] /\ UNCHANGED historyVars

\* The command is carried out, once the database is up.
Dispatch(p) ==
    \/ command[p] = "health" /\ Return(p)
    \/ /\ command[p] = "verify"
       /\ phase' = [phase EXCEPT ![p] = "verifying"]
       /\ UNCHANGED historyVars
    \/ /\ command[p] \in Resets
       /\ phase' = [phase EXCEPT ![p] = "resetting"]
       /\ UNCHANGED historyVars

\* A ping succeeds within the deadline.
Ready(p) ==
    /\ phase[p] = "waiting"
    /\ p \notin expired
    /\ Dispatch(p)
    /\ UNCHANGED <<serverVars, command, next, wire, expired>>

\* ExecContext hands the next statement to the driver; a context that has
\* expired fails instead (GiveUp).
Send(p) ==
    /\ phase[p] = "resetting"
    /\ wire[p] = "none"
    /\ p \notin expired
    /\ wire' = [wire EXCEPT ![p] = "sent"]
    /\ UNCHANGED <<serverVars, command, phase, next, expired, historyVars>>

\* Whether the server accepts statement s in its current state.  The script's
\* INSERT supplies every row, so one row already there violates the key.
Accepts(s) ==
    CASE s = "drop"   -> TRUE
      [] s = "create" -> table = "absent"
      [] s = "index"  -> table = "bare"
      [] s = "delete" -> table # "absent"
      [] s = "insert" -> table # "absent" /\ rows = {}

\* What an accepted statement does.  MySQL's CREATE TABLE makes the index too.
Effect(s) ==
    /\ table' = CASE s = "drop"   -> "absent"
                  [] s = "create" -> IF Dialect = "mysql" THEN "indexed" ELSE "bare"
                  [] s = "index"  -> "indexed"
                  [] OTHER        -> table
    /\ rows' = CASE s \in {"drop", "create", "delete"} -> {}
                 [] s = "insert" -> Ids
                 [] OTHER        -> rows

\* How many of its statements run p has had executed.
Executed(p) == IF wire[p] = "done" THEN next[p] ELSE next[p] - 1

\* The runs other than p that have had some statement executed and are not
\* finished: what p does now happens between their steps.
Between(p) == {q \in Runs \ {p} : phase[q] \in Active /\ Executed(q) >= 1}

\* The server executes the statement of p it has received, even if p has given
\* up on it.
Execute(p) ==
    /\ wire[p] = "sent"
    /\ LET s == Script[next[p]] IN
       IF Accepts(s)
       THEN /\ Effect(s)
            /\ wire' = [wire EXCEPT ![p] = "done"]
       ELSE /\ wire' = [wire EXCEPT ![p] = "error"]
            /\ UNCHANGED serverVars
    /\ crossed' = crossed \union Between(p)
    /\ UNCHANGED <<command, phase, next, expired, faulted>>

\* The statement of p is never executed: it does not reach the server, or the
\* server cancels it.
Lose(p) ==
    /\ wire[p] = "sent"
    /\ wire' = [wire EXCEPT ![p] = "error"]
    /\ faulted' = faulted \union {p}
    /\ UNCHANGED <<serverVars, command, phase, next, expired, crossed>>

\* Mutant of Answer: the loop runs once more after the last statement.
AnswerPastEnd(p) ==
    /\ phase[p] = "resetting"
    /\ wire[p] = "done"
    /\ wire' = [wire EXCEPT ![p] = "none"]
    /\ next' = [next EXCEPT ![p] = @ + 1]
    /\ IF next[p] <= Steps
       THEN UNCHANGED <<phase, historyVars>>
       ELSE Return(p)
    /\ UNCHANGED <<serverVars, command, expired>>

\* Mutant of Answer: the error of ExecContext is not looked at.
AnswerIgnoringErrors(p) ==
    /\ phase[p] = "resetting"
    /\ wire[p] \in {"done", "error"}
    /\ wire' = [wire EXCEPT ![p] = "none"]
    /\ next' = [next EXCEPT ![p] = @ + 1]
    /\ IF next[p] < Steps THEN UNCHANGED <<phase, historyVars>> ELSE Return(p)
    /\ UNCHANGED <<serverVars, command, expired>>

\* ExecContext returns: the next statement's turn, the end of the reset, or
\* the error that ends the run.
Answer(p) ==
    /\ phase[p] = "resetting"
    /\ \/ /\ wire[p] = "done"
          /\ wire' = [wire EXCEPT ![p] = "none"]
          /\ next' = [next EXCEPT ![p] = @ + 1]
          /\ IF next[p] < Steps
             THEN UNCHANGED <<phase, historyVars>>
             ELSE \/ command[p] = "reset" /\ Return(p)
                  \/ /\ command[p] = "check"
                     /\ phase' = [phase EXCEPT ![p] = "verifying"]
                     /\ UNCHANGED historyVars
       \/ /\ wire[p] = "error"
          /\ ReturnError(p)
          /\ UNCHANGED <<next, wire>>
    /\ UNCHANGED <<serverVars, command, expired>>

\* What verifyFixture accepts: exactly the fixture's identifiers, in a table with
\* or without its index.
Matches == table # "absent" /\ rows = Ids

\* QuerySQLRecords reads the table with one SELECT.
Verify(p) ==
    /\ phase[p] = "verifying"
    /\ p \notin expired
    /\ IF Matches THEN Return(p) ELSE ReturnError(p)
    /\ UNCHANGED <<serverVars, command, next, wire, expired>>

-----------------------------------------------------------------------------

\* The deadline of p's context passes.
Expire(p) ==
    /\ phase[p] \in Active
    /\ p \notin expired
    /\ expired' = expired \union {p}
    /\ faulted' = faulted \union {p}
    /\ UNCHANGED <<serverVars, command, phase, next, wire, crossed>>

\* Mutant of GiveUp: the statements and the query are issued without the context.
GiveUpWhenWaiting(p) ==
    /\ phase[p] = "waiting"
    /\ p \in expired
    /\ ReturnError(p)
    /\ UNCHANGED <<serverVars, command, next, wire, expired>>

\* The call p is in, or the next one it makes, returns the context's error.  A
\* statement in flight stays in flight.
GiveUp(p) ==
    /\ phase[p] \in Active
    /\ p \in expired
    /\ ReturnError(p)
    /\ UNCHANGED <<serverVars, command, next, wire, expired>>

\* The process is killed, its connection breaks under a call, or a script cannot
\* be read: the run ends without success and does not learn what became of the
\* statement in flight.
Break(p) ==
    /\ phase[p] \in Active
    /\ phase' = [phase EXCEPT ![p] = "failed"]
    /\ faulted' = faulted \union {p}
    /\ UNCHANGED <<serverVars, command, next, wire, expired, crossed>>

Next ==
    \E p \in Runs :
        \/ Start(p)
        \/ Ready(p)
        \/ Send(p)
        \/ Execute(p)
        \/ Lose(p)
        \/ Answer(p)
        \/ Verify(p)
        \/ Expire(p)
        \/ GiveUp(p)
        \/ Break(p)

Spec == Init /\ [][Next]_vars

\* The context's timer fires, and a call returns once its context has expired.
\* Nothing is assumed of the server or of the network.
Fairness == \A p \in Runs : WF_vars(Expire(p)) /\ WF_vars(GiveUp(p))

FairSpec == Spec /\ Fairness

-----------------------------------------------------------------------------

\* Type invariant, with the shape a run's own variables keep: statements are
\* in flight only from runs that reset, and only one of the script's.
TypeOK ==
    /\ table \in {"absent", "bare", "indexed"} /\ rows \in SUBSET Ids
    /\ table = "absent" => rows = {}
    /\ command \in [Runs -> {"health", "reset", "verify", "check"}]
    /\ phase \in [Runs -> Phases]
    /\ next \in [Runs -> 1 .. Steps + 1]
    /\ wire \in [Runs -> Wire]
    /\ expired \in SUBSET Runs /\ faulted \in SUBSET Runs /\ crossed \in SUBSET Runs
    /\ \A p \in Runs :
          /\ phase[p] = "resetting" => next[p] \in 1 .. Steps
          /\ next[p] > Steps => wire[p] = "none"

\* The fixture is as a complete replay of the scripts leaves it.
Whole == table = "indexed" /\ rows = Ids

\* Run p has had some of its script executed, but not all of it.
Owes(p) == Executed(p) \in 1 .. Steps - 1

\* Run p replays the scripts.
IsReset(p) == phase[p] # "idle" /\ command[p] \in Resets

\* A fixture that is not whole, once any script statement has been executed,
\* is always the doing of a run that has had part of its script executed and
\* not the rest: replaying statement by statement, as ResetSQL does, never
\* leaves damage that nobody is accountable for.
Accounted ==
    (\E p \in Runs : Executed(p) >= 1) /\ (\A p \in Runs : ~Owes(p)) => Whole

\* The exit statuses of ResetSQL's callers can be relied on: when at least one
\* reset or check has reported success and none is unfinished or failed, the
\* fixture is whole, although every one of them may have dropped and emptied
\* what the others had filled.
Settled ==
    (/\ \E p \in Runs : IsReset(p) /\ phase[p] = "ok"
     /\ \A p \in Runs : IsReset(p) => phase[p] = "ok") => Whole

\* "Replaying this file restores the complete stable fixture": a reset or check
\* fails only because of a fault, its deadline or another run's statement, and
\* never because of what an earlier, interrupted run left in the database.
Replayable ==
    \A p \in Runs : IsReset(p) /\ phase[p] = "failed" => p \in faulted \union crossed

\* Resets that run into each other cannot all fail: without faults, when every
\* reset has finished, one has succeeded.
SomeRunSurvives ==
    (/\ faulted = {}
     /\ \E p \in Runs : IsReset(p)
     /\ \A p \in Runs : IsReset(p) => phase[p] \in {"ok", "failed"})
    => \E p \in Runs : IsReset(p) /\ phase[p] = "ok"

\* Every run ends, whatever the server and the network do: the deadline reaches
\* the ping, the statement and the query.
Terminates ==
    \A p \in Runs : phase[p] \in Active ~> phase[p] \in {"ok", "failed"}

-----------------------------------------------------------------------------

\* The replay implements the contract of a reset: the runs that replay the
\* scripts are the contract's, a run owes every row from its first executed
\* statement to its INSERT, and the rows missing before any statement was
\* executed are the ones lost.
lostBar == IF \E p \in Runs : Executed(p) >= 1 THEN {} ELSE Ids \ rows

owedBar == [p \in Runs |-> IF Owes(p) THEN Ids ELSE {}]

outcomeBar == [p \in Runs |-> IF ~IsReset(p) THEN "idle"
                              ELSE IF phase[p] \in Active THEN "active"
                              ELSE phase[p]]

Contract == INSTANCE FixtureContract WITH
    present <- rows, lost <- lostBar, owed <- owedBar, outcome <- outcomeBar

\* ResetSQL with its callers implements FixtureContract.
Refines == Contract!Spec

=============================================================================
