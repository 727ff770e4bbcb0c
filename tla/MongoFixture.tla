--------------------------- MODULE MongoFixture ---------------------------
(***************************************************************************)
(* The MongoDB fixture: runs of testbedctl against one database            *)
(* (cmd/testbedctl/main.go, internal/testenv/mongo.go).                    *)
(*                                                                         *)
(* A reset empties and refills the collection of semantic records, then    *)
(* the collection of regular-expression probes.  DeleteMany and InsertMany *)
(* are not atomic: the server works through a collection document by       *)
(* document, other runs' documents appearing and disappearing in between.  *)
(* InsertMany is ordered and stops at the first duplicate _id.             *)
(***************************************************************************)
EXTENDS Naturals

CONSTANTS
    Runs,      \* invocations of testbedctl on this database
    Records,   \* the _ids of semantic_records, in the order they are inserted
    Probes,    \* the _ids of regex_probe_records, in the same order
    Commands   \* the commands the invocations may be given

ASSUME DocumentsAssumption ==
    Records \subseteq Nat /\ Probes \subseteq Nat /\ Records \cap Probes = {}
ASSUME CommandsAssumption ==
    Commands \subseteq {"health", "reset", "verify", "check"}

VARIABLES
    held,      \* the _ids of the documents the two collections hold
    command,   \* command[p]: what p was asked to do
    phase,     \* phase[p]: where p's runForMongo is
    step,      \* step[p]: which of ResetMongo's calls is p's current one
    wire,      \* wire[p]: "sent" from the call until its answer is processed
    todo,      \* todo[p]: documents the current call has not reached yet
    expired,   \* runs whose context's deadline has passed
    \* history, for stating properties
    faulted,   \* runs that met a fault or their deadline
    crossed    \* runs between whose writes another run's took effect

historyVars == <<faulted, crossed>>
vars == <<held, command, phase, step, wire, todo, expired, faulted, crossed>>

\* The calls of ResetMongo: 1 and 3 are DeleteMany, 2 and 4 InsertMany.
Steps == 4
IsDelete(k) == k \in {1, 3}

\* Mutant of Documents: the second DeleteMany empties the first collection again.
DocumentsOfOneDelete(k) == IF k \in {1, 2, 3} THEN Records ELSE Probes

\* The documents a call works through.
Documents(k) == IF k \in {1, 2} THEN Records ELSE Probes

Resets == {"reset", "check"}
Phases == {"idle", "waiting", "resetting", "verifying", "ok", "failed"}
Active == {"waiting", "resetting", "verifying"}

-----------------------------------------------------------------------------

\* Earlier runs may have left any part of the fixture behind.
Init ==
    /\ held \in SUBSET (Records \union Probes)
    /\ command = [p \in Runs |-> "health"]
    /\ phase = [p \in Runs |-> "idle"]
    /\ step = [p \in Runs |-> 1]
    /\ wire = [p \in Runs |-> "none"]
    /\ todo = [p \in Runs |-> {}]
    /\ expired = {}
    /\ faulted = {}
    /\ crossed = {}

\* The invocation opens its client and starts its deadline.
Start(p) ==
    /\ phase[p] = "idle"
    /\ \E c \in Commands : command' = [command EXCEPT ![p] = c]
    /\ phase' = [phase EXCEPT ![p] = "waiting"]
    /\ UNCHANGED <<held, step, wire, todo, expired, historyVars>>

\* Run p returns nil; the deferred CloseMongo, which has a deadline of its own,
\* may still turn that into an error.
Return(p) ==
    \/ /\ phase' = [phase EXCEPT ![p] = "ok"]
       /\ UNCHANGED historyVars
    \/ /\ phase' = [phase EXCEPT ![p] = "failed"]
       /\ faulted' = faulted \union {p}
       /\ UNCHANGED crossed

ReturnError(p) == phase' = [phase EXCEPT ![p] = "failed"] /\ UNCHANGED historyVars

\* The command is carried out, once the server is up and known.
Dispatch(p) ==
    \/ command[p] = "health" /\ Return(p)
    \/ /\ command[p] = "verify"
       /\ phase' = [phase EXCEPT ![p] = "verifying"]
       /\ UNCHANGED historyVars
    \/ /\ command[p] \in Resets
       /\ phase' = [phase EXCEPT ![p] = "resetting"]
       /\ UNCHANGED historyVars

\* buildInfo is not answered properly, or the server is outside the 6.0+ profile.
Unsupported(p) ==
    /\ phase' = [phase EXCEPT ![p] = "failed"]
    /\ faulted' = faulted \union {p}
    /\ UNCHANGED crossed

\* A ping succeeds within the deadline.
Ready(p) ==
    /\ phase[p] = "waiting"
    /\ p \notin expired
    /\ Dispatch(p) \/ Unsupported(p)
    /\ UNCHANGED <<held, command, step, wire, todo, expired>>

\* The driver sends the current call.
Send(p) ==
    /\ phase[p] = "resetting"
    /\ wire[p] = "none"
    /\ p \notin expired
    /\ wire' = [wire EXCEPT ![p] = "sent"]
    /\ todo' = [todo EXCEPT ![p] = Documents(step[p])]
    /\ UNCHANGED <<held, command, phase, step, expired, historyVars>>

\* Run p's calls have reached some document.
Begun(p) == step[p] > 1 \/ (wire[p] # "none" /\ todo[p] # Records)

Between(p) == {q \in Runs \ {p} : phase[q] \in Active /\ Begun(q)}

\* DeleteMany's scan passes the place of document d and removes what is there.
DeleteOne(p, d) ==
    /\ wire[p] = "sent" /\ IsDelete(step[p]) /\ d \in todo[p]
    /\ held' = held \ {d}
    /\ todo' = [todo EXCEPT ![p] = @ \ {d}]
    /\ crossed' = crossed \union Between(p)
    /\ UNCHANGED <<command, phase, step, wire, expired, faulted>>

\* Mutant of InsertOne: an unordered InsertMany.
InsertAnyOne(p, d) ==
    /\ wire[p] = "sent" /\ ~IsDelete(step[p])
    /\ d \in todo[p]
    /\ IF d \in held
       THEN /\ wire' = [wire EXCEPT ![p] = "error"]
            /\ UNCHANGED <<held, todo>>
       ELSE /\ held' = held \union {d}
            /\ todo' = [todo EXCEPT ![p] = @ \ {d}]
            /\ UNCHANGED wire
    /\ crossed' = crossed \union Between(p)
    /\ UNCHANGED <<command, phase, step, expired, faulted>>

\* InsertMany reaches document d, the first one left: it is inserted, or it
\* is a duplicate and the call ends there.
InsertOne(p, d) ==
    /\ wire[p] = "sent" /\ ~IsDelete(step[p])
    /\ d \in todo[p] /\ \A e \in todo[p] : d <= e
    /\ IF d \in held
       THEN /\ wire' = [wire EXCEPT ![p] = "error"]
            /\ UNCHANGED <<held, todo>>
       ELSE /\ held' = held \union {d}
            /\ todo' = [todo EXCEPT ![p] = @ \ {d}]
            /\ UNCHANGED wire
    /\ crossed' = crossed \union Between(p)
    /\ UNCHANGED <<command, phase, step, expired, faulted>>

\* The server abandons the call of p, or never receives it.
Lose(p) ==
    /\ wire[p] = "sent" /\ todo[p] # {}
    /\ wire' = [wire EXCEPT ![p] = "error"]
    /\ faulted' = faulted \union {p}
    /\ UNCHANGED <<held, command, phase, step, todo, expired, crossed>>

\* Mutant of Answer: one more call is made after the last InsertMany.
AnswerPastEnd(p) ==
    /\ phase[p] = "resetting"
    /\ wire[p] = "sent" /\ todo[p] = {}
    /\ wire' = [wire EXCEPT ![p] = "none"]
    /\ step' = [step EXCEPT ![p] = @ + 1]
    /\ IF step[p] <= Steps THEN UNCHANGED <<phase, historyVars>> ELSE Return(p)
    /\ UNCHANGED <<held, command, todo, expired>>

\* Mutant of Answer: the error of a call is not looked at.
AnswerIgnoringErrors(p) ==
    /\ phase[p] = "resetting"
    /\ wire[p] = "error" \/ (wire[p] = "sent" /\ todo[p] = {})
    /\ wire' = [wire EXCEPT ![p] = "none"]
    /\ step' = [step EXCEPT ![p] = @ + 1]
    /\ IF step[p] < Steps THEN UNCHANGED <<phase, historyVars>> ELSE Return(p)
    /\ UNCHANGED <<held, command, todo, expired>>

\* The call returns: the next call's turn, the end of the reset, or the error
\* that ends the run.
Answer(p) ==
    /\ phase[p] = "resetting"
    /\ \/ /\ wire[p] = "sent" /\ todo[p] = {}
          /\ wire' = [wire EXCEPT ![p] = "none"]
          /\ step' = [step EXCEPT ![p] = @ + 1]
          /\ IF step[p] < Steps
             THEN UNCHANGED <<phase, historyVars>>
             ELSE \/ command[p] = "reset" /\ Return(p)
                  \/ /\ command[p] = "check"
                     /\ phase' = [phase EXCEPT ![p] = "verifying"]
                     /\ UNCHANGED historyVars
       \/ /\ wire[p] = "error"
          /\ ReturnError(p)
          /\ UNCHANGED <<step, wire>>
    /\ UNCHANGED <<held, command, todo, expired>>

\* What verifyMongoFixture accepts: it looks at the semantic records only.
Matches == Records \subseteq held

\* QueryMongoIDs reads the collection.
Verify(p) ==
    /\ phase[p] = "verifying"
    /\ p \notin expired
    /\ IF Matches THEN Return(p) ELSE ReturnError(p)
    /\ UNCHANGED <<held, command, step, wire, todo, expired>>

-----------------------------------------------------------------------------

\* The deadline of p's context passes.
Expire(p) ==
    /\ phase[p] \in Active
    /\ p \notin expired
    /\ expired' = expired \union {p}
    /\ faulted' = faulted \union {p}
    /\ UNCHANGED <<held, command, phase, step, wire, todo, crossed>>

\* Mutant of GiveUp: the calls of a reset are made without the context.
GiveUpUnlessResetting(p) ==
    /\ phase[p] \in {"waiting", "verifying"}
    /\ p \in expired
    /\ ReturnError(p)
    /\ UNCHANGED <<held, command, step, wire, todo, expired>>

\* The call p is in, or the next one it makes, returns because of the deadline;
\* what the server is doing goes on.
GiveUp(p) ==
    /\ phase[p] \in Active
    /\ p \in expired
    /\ ReturnError(p)
    /\ UNCHANGED <<held, command, step, wire, todo, expired>>

\* The process is killed or loses its connection.
Break(p) ==
    /\ phase[p] \in Active
    /\ phase' = [phase EXCEPT ![p] = "failed"]
    /\ faulted' = faulted \union {p}
    /\ UNCHANGED <<held, command, step, wire, todo, expired, crossed>>

Next ==
    \E p \in Runs :
        \/ Start(p)
        \/ Ready(p)
        \/ Send(p)
        \/ \E d \in Records \union Probes : DeleteOne(p, d) \/ InsertOne(p, d)
        \/ Lose(p)
        \/ Answer(p)
        \/ Verify(p)
        \/ Expire(p)
        \/ GiveUp(p)
        \/ Break(p)

Spec == Init /\ [][Next]_vars

\* Timers fire and calls return once their context has expired.
Fairness == \A p \in Runs : WF_vars(Expire(p)) /\ WF_vars(GiveUp(p))

FairSpec == Spec /\ Fairness

-----------------------------------------------------------------------------

\* Types, and the bookkeeping a run keeps about its current call.
TypeOK ==
    /\ held \in SUBSET (Records \union Probes)
    /\ command \in [Runs -> {"health", "reset", "verify", "check"}]
    /\ phase \in [Runs -> Phases]
    /\ step \in [Runs -> 1 .. Steps + 1]
    /\ wire \in [Runs -> {"none", "sent", "error"}]
    /\ todo \in [Runs -> SUBSET (Records \union Probes)]
    /\ expired \in SUBSET Runs /\ faulted \in SUBSET Runs /\ crossed \in SUBSET Runs
    /\ \A p \in Runs :
          /\ phase[p] = "resetting" => step[p] \in 1 .. Steps
          /\ step[p] > Steps => wire[p] = "none"
          /\ wire[p] # "none" => todo[p] \subseteq Documents(step[p])

\* Run p's call k has reached document d.
Reached(p, k, d) ==
    d \in Documents(k) /\ (step[p] > k \/ (step[p] = k /\ wire[p] # "none" /\ d \notin todo[p]))

Cleared(p, d) == Reached(p, 1, d) \/ Reached(p, 3, d)
Written(p, d) == Reached(p, 2, d) \/ Reached(p, 4, d)

\* The documents run p has passed in DeleteMany and not yet inserted again.
Owed(p) == {d \in Records \union Probes : Cleared(p, d) /\ ~Written(p, d)}

\* A missing document was either never touched by a reset or is owed by a run
\* that cleared it and has not inserted it again: a reset that stops between
\* two documents loses nothing it is not accountable for.
Accounted ==
    \A d \in (Records \union Probes) \ held :
        (\A p \in Runs : ~Cleared(p, d)) \/ (\E p \in Runs : d \in Owed(p))

IsReset(p) == phase[p] # "idle" /\ command[p] \in Resets

\* When some reset or check has succeeded and none is unfinished or failed,
\* both collections are complete, although check itself only looks at one.
Settled ==
    (/\ \E p \in Runs : IsReset(p) /\ phase[p] = "ok"
     /\ \A p \in Runs : IsReset(p) => phase[p] = "ok") => held = Records \union Probes

\* A reset or check fails only because of a fault, its deadline or another run,
\* never because of the documents an interrupted run left behind.
Replayable ==
    \A p \in Runs : IsReset(p) /\ phase[p] = "failed" => p \in faulted \union crossed

\* Resets that run into each other cannot all fail: InsertMany goes through the
\* documents in one order, so the run that is ahead stays ahead.
SomeResetSurvives ==
    (/\ faulted = {}
     /\ \E p \in Runs : IsReset(p)
     /\ \A p \in Runs : IsReset(p) => command[p] = "reset" /\ phase[p] \in {"ok", "failed"})
    => \E p \in Runs : IsReset(p) /\ phase[p] = "ok"

\* Every run ends, whatever the server does.
Terminates ==
    \A p \in Runs : phase[p] \in Active ~> phase[p] \in {"ok", "failed"}

-----------------------------------------------------------------------------

\* The account of FixtureContract, document by document.
lostBar == {d \in (Records \union Probes) \ held : \A p \in Runs : ~Cleared(p, d)}

owedBar == [p \in Runs |-> Owed(p)]

outcomeBar == [p \in Runs |-> IF ~IsReset(p) THEN "idle"
                              ELSE IF phase[p] \in Active THEN "active"
                              ELSE phase[p]]

Contract == INSTANCE FixtureContract WITH
    Ids <- Records \union Probes,
    present <- held, lost <- lostBar, owed <- owedBar, outcome <- outcomeBar

\* ResetMongo with its callers implements FixtureContract.
Refines == Contract!Spec

=============================================================================
