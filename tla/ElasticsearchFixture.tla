----------------------- MODULE ElasticsearchFixture -----------------------
(***************************************************************************)
(* The Elasticsearch fixture: runs of testbedctl, or of the demo, against  *)
(* one index (cmd/testbedctl/main.go, internal/testenv/elasticsearch.go).  *)
(*                                                                         *)
(* A reset deletes the index, creates it with a strict mapping, loads the  *)
(* records with one bulk request that waits for a refresh, and reads the   *)
(* mapping and the settings back.  A bulk request overwrites documents and *)
(* creates a missing index by itself, with a dynamic mapping; the contract *)
(* check is what notices that.  A search sees the documents as of the last *)
(* refresh.  The client library may send a request again whose answer it   *)
(* has not got.                                                            *)
(***************************************************************************)
EXTENDS Naturals, Sequences

CONSTANTS
    Runs,      \* invocations working on this index
    Ids,       \* the identifiers of the records
    Commands   \* the commands the invocations may be given

ASSUME CommandsAssumption ==
    Commands \subseteq {"health", "reset", "verify", "check"}

VARIABLES
    \* the server
    index,     \* "absent", "strict" as the fixture creates it, or "dynamic"
    docs,      \* the documents indexed
    shown,     \* the documents a search finds: those of the last refresh
    \* the runs
    command,   \* command[p]: what p was asked to do
    phase,     \* phase[p]: where p's runForElasticsearch is
    next,      \* next[p]: position in its plan of p's current request
    wire,      \* wire[p]: what became of that request, as last sent
    again,     \* runs whose current request was executed before it was sent again
    expired,   \* runs whose context's deadline has passed
    \* history, for stating properties
    faulted,   \* runs that met a fault or their deadline
    crossed    \* runs between whose requests another's changed the index

serverVars  == <<index, docs, shown>>
historyVars == <<faulted, crossed>>
vars == <<index, docs, shown, command, phase, next, wire, again, expired, faulted, crossed>>

\* ResetElasticsearch's requests.
ResetPlan == <<"delete", "create", "bulk", "mapping", "settings">>

\* verifyElasticsearchFixture's requests.
VerifyPlan == <<"mapping", "settings", "search">>

\* The requests each command makes once the server is ready.
Plan(c) == CASE c = "health" -> << >>
             [] c = "reset"  -> ResetPlan
             [] c = "verify" -> VerifyPlan
             [] c = "check"  -> ResetPlan \o VerifyPlan

Changes == {"delete", "create", "bulk"}   \* the requests that change the index

Resets == {"reset", "check"}
Phases == {"idle", "waiting", "working", "ok", "failed"}
Active == {"waiting", "working"}

\* "written": a bulk request is applied and waits for the refresh.
Wire == {"none", "sent", "written", "done", "error"}

-----------------------------------------------------------------------------

\* A fresh cluster, a complete fixture, one whose loading was interrupted or
\* partly refused, or what a bulk request left after the index was deleted
\* under it.
Init ==
    /\ index \in {"absent", "strict", "dynamic"}
    /\ docs \in IF index = "absent" THEN {{}} ELSE SUBSET Ids
    /\ shown = docs
    /\ command = [p \in Runs |-> "health"]
    /\ phase = [p \in Runs |-> "idle"]
    /\ next = [p \in Runs |-> 1]
    /\ wire = [p \in Runs |-> "none"]
    /\ again = {}
    /\ expired = {}
    /\ faulted = {}
    /\ crossed = {}

\* The invocation opens its client and starts its deadline.
Start(p) ==
    /\ phase[p] = "idle"
    /\ \E c \in Commands : command' = [command EXCEPT ![p] = c]
    /\ phase' = [phase EXCEPT ![p] = "waiting"]
    /\ UNCHANGED <<serverVars, next, wire, again, expired, historyVars>>

\* The command is carried out, once the server is up and known.
Dispatch(p) ==
    /\ phase' = [phase EXCEPT ![p] = IF Plan(command[p]) = << >> THEN "ok" ELSE "working"]
    /\ UNCHANGED historyVars

\* The server does not have the locked versions, or the fixture's files do not
\* load.
Unsupported(p) ==
    /\ phase' = [phase EXCEPT ![p] = "failed"]
    /\ faulted' = faulted \union {p}
    /\ UNCHANGED crossed

\* The server answers within the deadline.
Ready(p) ==
    /\ phase[p] = "waiting"
    /\ p \notin expired
    /\ Dispatch(p) \/ Unsupported(p)
    /\ UNCHANGED <<serverVars, command, next, wire, again, expired>>

\* The request p is at.
Request(p) == Plan(command[p])[next[p]]

\* performElasticsearch or the typed client sends the request.
Send(p) ==
    /\ phase[p] = "working"
    /\ wire[p] = "none"
    /\ p \notin expired
    /\ wire' = [wire EXCEPT ![p] = "sent"]
    /\ UNCHANGED <<serverVars, command, phase, next, again, expired, historyVars>>

\* Run p has had a request executed.
Begun(p) == next[p] > 1 \/ p \in again \/ wire[p] \in {"written", "done"}

Between(p) == {q \in Runs \ {p} : phase[q] \in Active /\ Begun(q)}

\* DELETE: 200 or 404 are both accepted.  Bulk requests waiting for a refresh
\* of the deleted index are answered.
ExecuteDelete(p) ==
    /\ wire[p] = "sent" /\ Request(p) = "delete"
    /\ index' = "absent" /\ docs' = {} /\ shown' = {}
    /\ wire' = [q \in Runs |-> IF q = p \/ wire[q] = "written" THEN "done" ELSE wire[q]]
    /\ crossed' = crossed \union Between(p)
    /\ UNCHANGED <<command, phase, next, again, expired, faulted>>

\* PUT: an index that exists is refused.
ExecuteCreate(p) ==
    /\ wire[p] = "sent" /\ Request(p) = "create"
    /\ index' = IF index = "absent" THEN "strict" ELSE index
    /\ wire' = [wire EXCEPT ![p] = IF index = "absent" THEN "done" ELSE "error"]
    /\ crossed' = crossed \union Between(p)
    /\ UNCHANGED <<docs, shown, command, phase, next, again, expired, faulted>>

\* Mutant of ExecuteBulk: the request does not ask to wait for the refresh.
ExecuteBulkUnrefreshed(p) ==
    /\ wire[p] = "sent" /\ Request(p) = "bulk"
    /\ index' = IF index = "absent" THEN "dynamic" ELSE index
    /\ docs' = Ids
    /\ wire' = [wire EXCEPT ![p] = "done"]
    /\ crossed' = crossed \union Between(p)
    /\ UNCHANGED <<shown, command, phase, next, again, expired, faulted>>

\* _bulk: every document is written, into a new dynamic index if need be; the
\* answer waits for a refresh.
ExecuteBulk(p) ==
    /\ wire[p] = "sent" /\ Request(p) = "bulk"
    /\ index' = IF index = "absent" THEN "dynamic" ELSE index
    /\ docs' = Ids
    /\ wire' = [wire EXCEPT ![p] = "written"]
    /\ crossed' = crossed \union Between(p)
    /\ UNCHANGED <<shown, command, phase, next, again, expired, faulted>>

\* Mutant of RejectBulk: the items of the response are not looked at.
RejectBulkUnread(p) ==
    /\ wire[p] = "sent" /\ Request(p) = "bulk"
    /\ index' = IF index = "absent" THEN "dynamic" ELSE index
    /\ \E S \in SUBSET Ids : S # Ids /\ docs' = docs \union S
    /\ wire' = [wire EXCEPT ![p] = "done"]
    /\ faulted' = faulted \union {p}
    /\ crossed' = crossed \union Between(p)
    /\ UNCHANGED <<shown, command, phase, next, again, expired>>

\* The server refuses some of the documents, and the response's items say so.
RejectBulk(p) ==
    /\ wire[p] = "sent" /\ Request(p) = "bulk"
    /\ index' = IF index = "absent" THEN "dynamic" ELSE index
    /\ \E S \in SUBSET Ids : S # Ids /\ docs' = docs \union S
    /\ wire' = [wire EXCEPT ![p] = "error"]
    /\ faulted' = faulted \union {p}
    /\ crossed' = crossed \union Between(p)
    /\ UNCHANGED <<shown, command, phase, next, again, expired>>

\* The mapping and the settings read back must be the fixture's own.
ContractHolds == index = "strict"

\* The search must find exactly the records.
Matches == index # "absent" /\ shown = Ids

\* One of the requests that only read is answered.
ExecuteRead(p) ==
    /\ wire[p] = "sent" /\ Request(p) \notin Changes
    /\ LET accepted == IF Request(p) = "search" THEN Matches ELSE ContractHolds IN
       wire' = [wire EXCEPT ![p] = IF accepted THEN "done" ELSE "error"]
    /\ UNCHANGED <<serverVars, command, phase, next, again, expired, historyVars>>

\* The server refreshes the index, now and then or for a waiting request.
Refresh ==
    /\ index # "absent"
    /\ shown # docs \/ \E p \in Runs : wire[p] = "written"
    /\ shown' = docs
    /\ wire' = [p \in Runs |-> IF wire[p] = "written" THEN "done" ELSE wire[p]]
    /\ UNCHANGED <<index, docs, command, phase, next, again, expired, historyVars>>

\* The request does not reach the server or is not carried out, or the answer
\* is not one the code accepts.
Lose(p) ==
    /\ wire[p] = "sent"
    /\ wire' = [wire EXCEPT ![p] = "error"]
    /\ faulted' = faulted \union {p}
    /\ UNCHANGED <<serverVars, command, phase, next, again, expired, crossed>>

\* The answer to a request that was executed is lost or says that the server is
\* not available, and the client library sends the request again.  (A request
\* that only reads might as well have been sent later.)
Resend(p) ==
    /\ phase[p] = "working" /\ p \notin expired
    /\ wire[p] \in {"written", "done"} /\ Request(p) \in Changes
    /\ wire' = [wire EXCEPT ![p] = "sent"]
    /\ again' = again \union {p}
    /\ UNCHANGED <<serverVars, command, phase, next, expired, historyVars>>

\* Mutant of Answer: the run ends one request too late.
AnswerPastEnd(p) ==
    /\ phase[p] = "working"
    /\ wire[p] = "done"
    /\ wire' = [wire EXCEPT ![p] = "none"]
    /\ next' = [next EXCEPT ![p] = @ + 1]
    /\ phase' = [phase EXCEPT ![p] = IF next[p] > Len(Plan(command[p])) THEN "ok" ELSE @]
    /\ again' = again \ {p}
    /\ UNCHANGED <<serverVars, command, expired, historyVars>>

\* The answer arrives: the next request's turn, or the end of the run.  (Errors
\* of closing the client are ignored.)
Answer(p) ==
    /\ phase[p] = "working"
    /\ \/ /\ wire[p] = "done"
          /\ wire' = [wire EXCEPT ![p] = "none"]
          /\ next' = [next EXCEPT ![p] = @ + 1]
          /\ phase' = [phase EXCEPT ![p] = IF next[p] = Len(Plan(command[p])) THEN "ok" ELSE @]
          /\ again' = again \ {p}
       \/ /\ wire[p] = "error"
          /\ phase' = [phase EXCEPT ![p] = "failed"]
          /\ UNCHANGED <<next, wire, again>>
    /\ UNCHANGED <<serverVars, command, expired, historyVars>>

-----------------------------------------------------------------------------

\* The deadline of p's context passes.
Expire(p) ==
    /\ phase[p] \in Active
    /\ p \notin expired
    /\ expired' = expired \union {p}
    /\ faulted' = faulted \union {p}
    /\ UNCHANGED <<serverVars, command, phase, next, wire, again, crossed>>

\* Mutant of GiveUp: the requests are made without the context.
GiveUpOnlyWaiting(p) ==
    /\ phase[p] = "waiting"
    /\ p \in expired
    /\ phase' = [phase EXCEPT ![p] = "failed"]
    /\ UNCHANGED <<serverVars, command, next, wire, again, expired, historyVars>>

\* The request p waits for, or the next one, fails with the context's error.  A
\* request the server has received may still be executed.
GiveUp(p) ==
    /\ phase[p] \in Active
    /\ p \in expired
    /\ phase' = [phase EXCEPT ![p] = "failed"]
    /\ UNCHANGED <<serverVars, command, next, wire, again, expired, historyVars>>

\* The process is killed or loses its connection.
Break(p) ==
    /\ phase[p] \in Active
    /\ phase' = [phase EXCEPT ![p] = "failed"]
    /\ faulted' = faulted \union {p}
    /\ UNCHANGED <<serverVars, command, next, wire, again, expired, crossed>>

Next ==
    \/ \E p \in Runs :
        \/ Start(p) \/ Ready(p)
        \/ Send(p) \/ Answer(p)
        \/ ExecuteDelete(p) \/ ExecuteCreate(p) \/ ExecuteBulk(p) \/ RejectBulk(p)
        \/ ExecuteRead(p)
        \/ Lose(p) \/ Resend(p)
        \/ Expire(p) \/ GiveUp(p) \/ Break(p)
    \/ Refresh

Spec == Init /\ [][Next]_vars

\* Timers fire and requests return once their context has expired.
Fairness == \A p \in Runs : WF_vars(Expire(p)) /\ WF_vars(GiveUp(p))

FairSpec == Spec /\ Fairness

-----------------------------------------------------------------------------

\* Types; a search never finds what is not indexed, nor anything in no index.
TypeOK ==
    /\ index \in {"absent", "strict", "dynamic"}
    /\ docs \in SUBSET Ids /\ shown \in SUBSET docs
    /\ index = "absent" => docs = {}
    /\ command \in [Runs -> {"health", "reset", "verify", "check"}]
    /\ phase \in [Runs -> Phases]
    /\ next \in [Runs -> Nat]
    /\ \A p \in Runs : next[p] \in 1 .. Len(Plan(command[p])) + 1
    /\ wire \in [Runs -> Wire]
    /\ again \in SUBSET Runs
    /\ expired \in SUBSET Runs /\ faulted \in SUBSET Runs /\ crossed \in SUBSET Runs
    /\ \A p \in Runs :
          /\ phase[p] = "working" => next[p] <= Len(Plan(command[p]))
          /\ wire[p] = "written" => Request(p) = "bulk"

IsReset(p) == phase[p] # "idle" /\ command[p] \in Resets

\* How many of its requests run p has had carried out.
Executed(p) ==
    IF wire[p] \in {"written", "done"} \/ p \in again THEN next[p] ELSE next[p] - 1

\* Run p has deleted the index and not loaded the records again.
Owes(p) == IsReset(p) /\ Executed(p) \in 1 .. 2

\* The index has the fixture's own mapping and settings, and holds and shows
\* all the records.
Whole == index = "strict" /\ docs = Ids /\ shown = Ids

\* Records are missing only while some run that deleted the index has not
\* loaded them again.
Accounted ==
    (\E p \in Runs : IsReset(p) /\ Executed(p) >= 1) /\ (\A p \in Runs : ~Owes(p))
        => docs = Ids

\* When some reset or check has succeeded and none is unfinished or failed, the
\* index has its strict mapping and every record can be found, although a bulk
\* request may have created it dynamically in between.
Settled ==
    (/\ \E p \in Runs : IsReset(p) /\ phase[p] = "ok"
     /\ \A p \in Runs : IsReset(p) => phase[p] = "ok") => Whole

\* A reset or check fails only because of a fault, its deadline, a request sent
\* again (an index it has just created cannot be created again) or another run,
\* whatever index an earlier run has left, and however refreshes fall.
Replayable ==
    \A p \in Runs : IsReset(p) /\ phase[p] = "failed"
                    => p \in faulted \union again \union crossed

\* Every run ends, whatever the server does.
Terminates ==
    \A p \in Runs : phase[p] \in Active ~> phase[p] \in {"ok", "failed"}

-----------------------------------------------------------------------------

\* The account of FixtureContract: a run owes every record from its DELETE until
\* its bulk request is accepted as a whole.
lostBar == IF \E p \in Runs : IsReset(p) /\ Executed(p) >= 1 THEN {} ELSE Ids \ docs

owedBar == [p \in Runs |-> IF Owes(p) THEN Ids ELSE {}]

outcomeBar == [p \in Runs |-> IF ~IsReset(p) THEN "idle"
                              ELSE IF phase[p] \in Active THEN "active"
                              ELSE phase[p]]

Contract == INSTANCE FixtureContract WITH
    present <- docs, lost <- lostBar, owed <- owedBar, outcome <- outcomeBar

\* ResetElasticsearch with its callers implements FixtureContract.
Refines == Contract!Spec

=============================================================================
