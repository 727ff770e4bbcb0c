---------------------------- MODULE TestbedCtl ----------------------------
(***************************************************************************)
(* Invocations of testbedctl over several services (cmd/testbedctl/main.go,*)
(* with the readiness loops of internal/testenv).                          *)
(*                                                                         *)
(* An invocation visits the selected services one after the other, each    *)
(* with a handle and a deadline of its own: it opens the handle, polls     *)
(* until the service answers, resets or verifies, and closes the handle.   *)
(* A failing visit does not stop the next.  At the end the failures are    *)
(* joined, and a check compares the rows read from the two SQL services.   *)
(*                                                                         *)
(* What a reset does to one service is taken from FixtureContract, which   *)
(* the fixture modules implement request by request; here resets of        *)
(* several services by several invocations are composed.                   *)
(***************************************************************************)
EXTENDS RecordIdentities, FiniteSets, SequencesExt

CONSTANTS
    Runs,      \* invocations
    Services,  \* the services of the instance
    Ids,       \* identifiers of the records a verification expects
    Columns,   \* what the columns of a SQL service's rows may hold
    Lines      \* Lines[p]: the command lines p may be given

\* The services, and the order in which run visits them.
Order == [mysql |-> 1, postgres |-> 2, mongo |-> 3, ldap |-> 4, elasticsearch |-> 5]

\* The service of S that run comes to first.
First(S) == CHOOSE s \in S : \A t \in S : Order[s] <= Order[t]

SqlBackends == {"mysql", "postgres"}
Resets == {"reset", "check"}

ASSUME ServicesAssumption == Services \subseteq DOMAIN Order
\* stableIDs (record.go).
ASSUME IdsAssumption == IsFiniteSet(Ids) /\ Ids # {}
ASSUME LinesAssumption ==
    \A p \in Runs :
        Lines[p] \subseteq [command : {"health", "reset", "verify", "check"}, backend : STRING]

VARIABLES
    \* the services
    present,   \* present[s]: the fixture's records that s holds
    lost,      \* lost[s]: records missing from the start and not dealt with yet
    owed,      \* owed[s][p]: what p may have cleared in s and not written back
    \* the invocations
    command,   \* command[p]
    backend,   \* backend[p]: the --backend text
    selected,  \* selected[p]: the services still to visit, the current one included
    stage,     \* stage[p]: where p is in its visit, or in run
    verdict,   \* verdict[p][s]: how far p's visit of s has got
    handles,   \* handles[p]: the services p holds an open handle of
    records,   \* records[p]: recordsByBackend, as pairs of a service and the columns
               \* of its rows
    exit,      \* exit[p]: the exit status
    \* their contexts and requests
    expired,   \* the invocations whose visit's context has expired
    changing   \* visits whose requests the service may still carry out

fixtureVars == <<present, lost, owed>>
vars == <<present, lost, owed, command, backend, selected, stage, verdict,
          handles, records, exit, expired, changing>>

Visiting == {"opening", "polling", "waiting", "resetting", "verifying",
             "succeeded", "failing"}
Stages == Visiting \union {"idle", "reporting", "done", "killed"}
Verdicts == {"idle", "active", "ok", "failed"}
Texts == {""} \union STRING

\* The service that p is visiting, and this visit of it.
Current(p) == First(selected[p])
Visit(p) == <<p, Current(p)>>

\* The context of the visit, which is made when it begins, has not expired.
InTime(p) == p \notin expired

\* selectedServices: what a --backend text selects; nothing if it is refused.
SelectedServices(name) ==
    CASE name = "all" -> DOMAIN Order
      [] name = "sql" -> SqlBackends
      [] name \in {"mysql", "postgres", "mongo"} -> {name}
      [] name \in {"directory", "ldap"} -> {"ldap"}
      [] name \in {"search", "elasticsearch"} -> {"elasticsearch"}
      [] OTHER -> {}

\* The services p has to visit.
Chosen(p) == Services \intersect SelectedServices(backend[p])

Init ==
    /\ present \in [Services -> SUBSET Ids]
    /\ lost = [s \in Services |-> Ids \ present[s]]
    /\ owed = [s \in Services |-> [p \in Runs |-> {}]]
    /\ command = [p \in Runs |-> "health"]
    /\ backend = [p \in Runs |-> ""]
    /\ selected = [p \in Runs |-> {}]
    /\ stage = [p \in Runs |-> "idle"]
    /\ verdict = [p \in Runs |-> [s \in Services |-> "idle"]]
    /\ handles = [p \in Runs |-> {}]
    /\ records = [p \in Runs |-> {}]
    /\ exit = [p \in Runs |-> "none"]
    /\ expired = {}
    /\ changing = {}

GoTo(p, where) == stage' = [stage EXCEPT ![p] = where]

\* A step that only leads from one stage to another.
Moves(p, from, to) ==
    /\ stage[p] \in from
    /\ GoTo(p, to)
    /\ UNCHANGED <<fixtureVars, command, backend, selected, verdict, handles,
                   records, exit, expired, changing>>

\* The command line is accepted, and the first visit begins.
Invoke(p) ==
    /\ stage[p] = "idle"
    /\ \E line \in Lines[p] :
          LET chosen == Services \intersect SelectedServices(line.backend) IN
          /\ chosen # {}
          /\ command' = [command EXCEPT ![p] = line.command]
          /\ backend' = [backend EXCEPT ![p] = line.backend]
          /\ selected' = [selected EXCEPT ![p] = chosen]
          /\ verdict' = [verdict EXCEPT ![p][First(chosen)] = "active"]
    /\ GoTo(p, "opening")
    /\ UNCHANGED <<fixtureVars, handles, records, exit, expired, changing>>

\* An unsupported command or backend, or an option that cannot be parsed.
Refuse(p) ==
    /\ stage[p] = "idle"
    /\ GoTo(p, "done")
    /\ exit' = [exit EXCEPT ![p] = "1"]
    /\ UNCHANGED <<fixtureVars, command, backend, selected, verdict, handles, records,
                   expired, changing>>

\* The visit of the current service has verdict v, and the next one's is open.
Decide(p, v) ==
    LET rest == selected[p] \ {Current(p)} IN
    /\ selected' = [selected EXCEPT ![p] = rest]
    /\ verdict' = [verdict EXCEPT ![p] =
                      [s \in Services |-> IF s = Current(p) THEN v
                                          ELSE IF rest # {} /\ s = First(rest) THEN "active"
                                          ELSE @[s]]]

\* Mutant of Conclude: run returns at the end of the first visit.
ConcludeAll(p, v) ==
    Decide(p, v) /\ GoTo(p, "reporting") /\ expired' = expired \ {p}

\* Mutant of Conclude: one context serves all visits.
ConcludeKeepingContext(p, v) ==
    /\ Decide(p, v)
    /\ GoTo(p, IF selected[p] = {Current(p)} THEN "reporting" ELSE "opening")
    /\ UNCHANGED expired

\* The visit ends with verdict v, its context is cancelled, and the next begins.
Conclude(p, v) ==
    /\ Decide(p, v)
    /\ GoTo(p, IF selected[p] = {Current(p)} THEN "reporting" ELSE "opening")
    /\ expired' = expired \ {p}

\* The handle is made, without contacting the service.  (LDAP has none yet.)
Open(p) ==
    /\ stage[p] = "opening"
    /\ handles' = [handles EXCEPT ![p] = @ \union ({Current(p)} \ {"ldap"})]
    /\ GoTo(p, "polling")
    /\ UNCHANGED <<fixtureVars, command, backend, selected, verdict, records, exit,
                   expired, changing>>

\* The environment is refused (Environment!Load), or the handle cannot be made.
OpenFails(p) ==
    /\ stage[p] = "opening"
    /\ Conclude(p, "failed")
    /\ UNCHANGED <<fixtureVars, command, backend, handles, records, exit, changing>>

\* The ping succeeds: for LDAP, which dials without the context, even late.
\* ServerInfo may then refuse a service other than the SQL ones.
Ready(p) ==
    /\ stage[p] = "polling"
    /\ InTime(p) \/ Current(p) = "ldap"
    /\ handles' = [handles EXCEPT ![p] = @ \union {Current(p)}]
    /\ \/ /\ Current(p) \notin SqlBackends
          /\ GoTo(p, "failing")
          /\ UNCHANGED changing
       \/ /\ command[p] = "health"
          /\ GoTo(p, "succeeded")
          /\ UNCHANGED changing
       \/ /\ command[p] = "verify"
          /\ GoTo(p, "verifying")
          /\ UNCHANGED changing
       \/ /\ command[p] \in Resets
          /\ GoTo(p, "resetting")
          /\ changing' = changing \union {Visit(p)}
    /\ UNCHANGED <<fixtureVars, command, backend, selected, verdict, records, exit, expired>>

\* Mutant of NotReady: the ping is made without the context.
NotReadyInTime(p) == InTime(p) /\ Moves(p, {"polling"}, "waiting")

\* The ping fails, and the loop waits for its timer or its deadline.
NotReady(p) == Moves(p, {"polling"}, "waiting")

\* The select takes the timer's case, even if the deadline has passed as well.
TimerFires(p) == Moves(p, {"waiting"}, "polling")

\* The select takes the deadline's case.
DeadlineWakes(p) == ~InTime(p) /\ Moves(p, {"waiting"}, "failing")

\* A context made when the visit's handle is open expires.
Expire(p) ==
    /\ stage[p] \in Visiting \ {"opening"}
    /\ InTime(p)
    /\ expired' = expired \union {p}
    /\ UNCHANGED <<fixtureVars, command, backend, selected, stage, verdict, handles,
                   records, exit, changing>>

-----------------------------------------------------------------------------
(* What a service does with the requests of a reset, under way or given up.*)

\* Records are removed, written, or written in a request that fails as a whole.
Serve(p, s) ==
    /\ <<p, s>> \in changing
    /\ \E S \in SUBSET Ids :
          /\ lost' = [lost EXCEPT ![s] = @ \ S]
          /\ \/ /\ present' = [present EXCEPT ![s] = @ \ S]
                /\ owed' = [owed EXCEPT ![s][p] = @ \union S]
             \/ /\ present' = [present EXCEPT ![s] = @ \union S]
                /\ owed' = [owed EXCEPT ![s][p] = @ \ S]
             \/ /\ present' = [present EXCEPT ![s] = @ \union S]
                /\ UNCHANGED owed
    /\ UNCHANGED <<command, backend, selected, stage, verdict, handles, records,
                   exit, expired, changing>>

\* The last request of the reset is answered.
ResetSucceeds(p) ==
    /\ stage[p] = "resetting"
    /\ InTime(p) \/ Current(p) = "ldap"
    /\ owed[Current(p)][p] = {} /\ lost[Current(p)] = {}
    /\ changing' = changing \ {Visit(p)}
    /\ GoTo(p, IF command[p] = "check" THEN "verifying" ELSE "succeeded")
    /\ UNCHANGED <<fixtureVars, command, backend, selected, verdict, handles, records,
                   exit, expired>>

\* The records are read and compared with the canonical identifiers.
Verify(p) ==
    /\ stage[p] = "verifying"
    /\ InTime(p)
    /\ IF present[Current(p)] = Ids
       THEN /\ GoTo(p, "succeeded")
            /\ \E c \in Columns :
                  records' = [records EXCEPT ![p] =
                      @ \union (({Current(p)} \intersect SqlBackends) \X {c})]
       ELSE GoTo(p, "failing") /\ UNCHANGED records
    /\ UNCHANGED <<fixtureVars, command, backend, selected, verdict, handles, exit,
                   expired, changing>>

\* Mutant of Fail: the error is not returned.
FailUnnoticed(p) == Moves(p, {"resetting", "verifying"}, "succeeded")

\* A request fails or meets the deadline.
Fail(p) == Moves(p, {"resetting", "verifying"}, "failing")

\* The deferred Close runs; where it reports errors, one becomes the visit's,
\* unless there is one already.  The rows are kept only from a visit that succeeds.
Leave(p) ==
    /\ stage[p] \in {"succeeded", "failing"}
    /\ handles' = [handles EXCEPT ![p] = @ \ {Current(p)}]
    /\ \/ /\ stage[p] = "succeeded"
          /\ Conclude(p, "ok")
          /\ UNCHANGED records
       \/ /\ stage[p] = "failing" \/ Current(p) \notin {"ldap", "elasticsearch"}
          /\ Conclude(p, "failed")
          /\ records' = [records EXCEPT ![p] = @ \ ({Current(p)} \X Columns)]
    /\ UNCHANGED <<fixtureVars, command, backend, exit, changing>>

-----------------------------------------------------------------------------

\* The rows p has read from a SQL service.
Rows(p, s) ==
    LET ids == SetToSeq(Ids)
        columns == {c \in Columns : <<s, c>> \in records[p]} IN
    IF columns = {} THEN << >>
    ELSE [i \in DOMAIN ids |-> [id |-> ids[i], columns |-> CHOOSE c \in columns : TRUE]]

\* No visit has failed, and a check of both SQL services has read the same rows.
Succeeded(p) ==
    /\ \A s \in Chosen(p) : verdict[p][s] # "failed"
    /\ command[p] = "check" /\ SqlBackends \subseteq Chosen(p)
       => CompareSQLRecords(Rows(p, "mysql"), Rows(p, "postgres"))

\* run returns, and main turns its error into the exit status.
Report(p) ==
    /\ stage[p] = "reporting"
    /\ exit' = [exit EXCEPT ![p] = IF Succeeded(p) THEN "0" ELSE "1"]
    /\ GoTo(p, "done")
    /\ UNCHANGED <<fixtureVars, command, backend, selected, verdict, handles, records,
                   expired, changing>>

\* The process is killed, and with it its handles and contexts are gone.
Kill(p) ==
    /\ stage[p] \in Visiting
    /\ GoTo(p, "killed")
    /\ verdict' = [verdict EXCEPT ![p][Current(p)] = "failed"]
    /\ selected' = [selected EXCEPT ![p] = {}]
    /\ handles' = [handles EXCEPT ![p] = {}]
    /\ expired' = expired \ {p}
    /\ UNCHANGED <<fixtureVars, command, backend, records, exit, changing>>

Next ==
    \E p \in Runs :
        \/ Invoke(p)
        \/ Refuse(p)
        \/ Open(p)
        \/ OpenFails(p)
        \/ Ready(p)
        \/ NotReady(p)
        \/ TimerFires(p)
        \/ DeadlineWakes(p)
        \/ Expire(p)
        \/ \E s \in Services : Serve(p, s)
        \/ ResetSucceeds(p)
        \/ Verify(p)
        \/ Fail(p)
        \/ Leave(p)
        \/ Report(p)
        \/ Kill(p)

Spec == Init /\ [][Next]_vars

\* What the process does without waiting for anything but a timer.
Local(p) == Open(p) \/ OpenFails(p) \/ TimerFires(p) \/ Leave(p) \/ Report(p)

\* A call ends by itself: through its context, or the LDAP driver's limit.
CallEnds(p) ==
    /\ stage[p] \in Visiting
    /\ ~InTime(p) \/ Current(p) = "ldap"
    /\ NotReady(p) \/ Fail(p)

\* The process runs, contexts expire, and calls end.  A timer may win the race
\* against the deadline, but not always: select chooses at random among the
\* cases that are ready.  Nothing is assumed of the services.
Fairness ==
    \A p \in Runs :
        /\ WF_vars(Local(p))
        /\ WF_vars(Expire(p))
        /\ WF_vars(CallEnds(p))
        /\ SF_vars(DeadlineWakes(p))

FairSpec == Spec /\ Fairness

-----------------------------------------------------------------------------

\* Type invariant.
TypeOK ==
    /\ present \in [Services -> SUBSET Ids] /\ lost \in [Services -> SUBSET Ids]
    /\ owed \in [Services -> [Runs -> SUBSET Ids]]
    /\ command \in [Runs -> {"health", "reset", "verify", "check"}]
    /\ backend \in [Runs -> Texts] /\ selected \in [Runs -> SUBSET Services]
    /\ stage \in [Runs -> Stages]
    /\ verdict \in [Runs -> [Services -> Verdicts]]
    /\ handles \in [Runs -> SUBSET Services]
    /\ records \in [Runs -> SUBSET (SqlBackends \X Columns)]
    /\ exit \in [Runs -> {"none", "0", "1"}]
    /\ expired \subseteq Runs /\ changing \subseteq Runs \X Services

\* Exit status 0 means that every selected service was visited with success and,
\* in a check of both SQL services, that their fixtures hold the same rows.  In
\* particular a failing service neither keeps the later ones from their visit
\* nor is forgotten because they succeed, and the rows are not compared unless
\* both were read.
FailuresJoined ==
    \A p \in Runs : stage[p] = "done" =>
        /\ \A s \in Chosen(p) : verdict[p][s] \in {"ok", "failed"}
        /\ exit[p] = "0" =>
              /\ Chosen(p) # {}
              /\ \A s \in Chosen(p) : verdict[p][s] = "ok"
              /\ command[p] = "check" /\ SqlBackends \subseteq Chosen(p)
                 => \E c \in Columns : records[p] = SqlBackends \X {c}

\* The exit status of an invocation can be relied on for all of its services:
\* after a reset or check that exits with 0, each of them is whole, unless some
\* reset or check is unfinished there or has failed there.
SettledEverywhere ==
    \A s \in Services :
        (/\ \E p \in Runs : command[p] \in Resets /\ s \in Chosen(p) /\ exit[p] = "0"
         /\ \A q \in Runs : command[q] \in Resets => verdict[q][s] \in {"idle", "ok"})
        => present[s] = Ids

\* "timeout per service": nothing of a visit outlives it.  However it ends, its
\* handle is closed before the next one begins, which has all of its own time,
\* however much the services before it have used up.
VisitsApart ==
    \A p \in Runs :
        LET inside == stage[p] \in Visiting \ {"opening"} IN
        /\ handles[p] \subseteq IF inside THEN {Current(p)} ELSE {}
        /\ p \in expired => inside

\* Every invocation ends, whatever the services do.
Terminates ==
    \A p \in Runs : stage[p] \in Visiting ~> stage[p] \in {"done", "killed"}

-----------------------------------------------------------------------------

\* On each service the resets of all invocations keep the contract; a visit is a
\* run of the contract.
Contract(s) == INSTANCE FixtureContract WITH
    present <- present[s], lost <- lost[s], owed <- owed[s],
    outcome <- [p \in Runs |-> IF command[p] \in Resets THEN verdict[p][s] ELSE "idle"]

\* Visiting several services in one invocation implements FixtureContract for
\* each of them: every step is, for every service, one of its contract's or none.
Refines ==
    /\ \A s \in Services : Contract(s)!Init
    /\ [][\A s \in Services : UNCHANGED Contract(s)!vars \/ Contract(s)!Next]_vars

=============================================================================
