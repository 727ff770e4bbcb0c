------------------------ MODULE ElasticsearchPolicy ------------------------
(***************************************************************************)
(* The cluster setting search.allow_expensive_queries and the runs of the  *)
(* Elasticsearch demo that change it (internal/demoharness/                *)
(* elasticsearch.go, SetElasticsearchExpensiveQueries in internal/testenv).*)
(*                                                                         *)
(* The demo needs the setting forbidden for its boundary check and allowed *)
(* for its expensive cases, and gives it back allowed in a cleanup that    *)
(* runs on every path once the client is open, under a context of its own. *)
(* The setting belongs to the cluster and every change is a PUT followed   *)
(* by a GET, so two demos see each other's values; a PUT given up at the   *)
(* deadline may be executed later, even after the cleanup.                 *)
(***************************************************************************)

CONSTANT Runs   \* invocations of the demo, or of the integration test

VARIABLES
    policy,    \* the setting: expensive queries are "allowed" or "forbidden"
    stage,     \* stage[p]: where p's RunElasticsearch is, see Stages
    wire,      \* wire[p]: how far p's current change of the setting is
    verdict,   \* verdict[p]: "ok" until p has an error to return
    late,      \* late[p]: values of PUTs p has given up, still on their way
    expired,   \* runs whose context's deadline has passed
    \* history, for stating properties
    setter,    \* the run that set the policy last, if any did
    cleaned,   \* cleaned[p]: what the setting change in p's cleanup returned
    faulted,   \* runs that met a fault or their deadline
    crossed    \* runs during which another one changed the policy

historyVars == <<setter, cleaned, faulted, crossed>>
vars == <<policy, stage, wire, verdict, late, expired, setter, cleaned, faulted, crossed>>

Policies == {"allowed", "forbidden"}

\* RunElasticsearch in order, its four changes of the setting included.
Stages == {"idle", "preparing", "forbid", "canonical", "boundary", "allow",
           "expensive", "restrict", "cleanup", "done", "killed"}

\* Mutant of Sets: the cleanup puts back what the harness had set.
SetsForbiddenLast == [s \in {"forbid", "allow", "restrict", "cleanup"} |->
                         IF s = "allow" THEN "allowed" ELSE "forbidden"]

\* What each change sets.
Sets == [s \in {"forbid", "allow", "restrict", "cleanup"} |->
            IF s \in {"forbid", "restrict"} THEN "forbidden" ELSE "allowed"]

Ended(p) == stage[p] \in {"idle", "done", "killed"}

\* The stages whose calls are made with the demo's own context.
Bounded == Stages \ {"idle", "cleanup", "done", "killed"}

-----------------------------------------------------------------------------

\* A fresh cluster allows expensive queries; an earlier demo may have left them
\* forbidden.
Init ==
    /\ policy \in Policies
    /\ stage = [p \in Runs |-> "idle"]
    /\ wire = [p \in Runs |-> "none"]
    /\ verdict = [p \in Runs |-> "ok"]
    /\ late = [p \in Runs |-> {}]
    /\ expired = {}
    /\ setter = {}
    /\ cleaned = [p \in Runs |-> "never"]
    /\ faulted = {}
    /\ crossed = {}

\* The demo's fields, compilers and client are built: from here on, every path
\* goes through the cleanup.
Start(p) ==
    /\ stage[p] = "idle"
    /\ stage' = [stage EXCEPT ![p] = "preparing"]
    /\ UNCHANGED <<policy, wire, verdict, late, expired, historyVars>>

\* Run p continues in stage s.
GoTo(p, s) ==
    /\ stage' = [stage EXCEPT ![p] = s]
    /\ wire' = [wire EXCEPT ![p] = "none"]

\* Where an error takes run p: the setting is put back after the expensive
\* cases whatever they returned, and everything else goes to the cleanup.
OnError(s) == IF s = "expensive" THEN "restrict" ELSE "cleanup"

\* Run p meets an error in its current stage.
Fail(p) ==
    /\ verdict' = [verdict EXCEPT ![p] = "error"]
    /\ GoTo(p, OnError(stage[p]))

\* Mutant of Prepare: the harness does not forbid expensive queries.
PrepareUnforbidden(p) ==
    /\ stage[p] = "preparing" /\ p \notin expired
    /\ GoTo(p, "canonical")
    /\ UNCHANGED <<policy, verdict, late, expired, historyVars>>

\* The server is waited for and identified and the index is reset.
Prepare(p) ==
    /\ stage[p] = "preparing" /\ p \notin expired
    /\ GoTo(p, "forbid")
    /\ UNCHANGED <<policy, verdict, late, expired, historyVars>>

\* The PUT of a change of the setting is sent.
Put(p) ==
    /\ stage[p] \in DOMAIN Sets /\ wire[p] = "none"
    /\ stage[p] \in Bounded => p \notin expired
    /\ wire' = [wire EXCEPT ![p] = "sent"]
    /\ UNCHANGED <<policy, stage, verdict, late, expired, historyVars>>

\* The runs during which a change made by run p falls.
Disturbed(p) == {q \in Runs \ {p} : ~Ended(q)}

\* The server sets the policy to v for run p.
Apply(p, v) ==
    /\ policy' = v
    /\ setter' = {p}
    /\ crossed' = crossed \union Disturbed(p)

ExecutePut(p) ==
    /\ wire[p] = "sent"
    /\ Apply(p, Sets[stage[p]])
    /\ wire' = [wire EXCEPT ![p] = "put"]
    /\ UNCHANGED <<stage, verdict, late, expired, cleaned, faulted>>

\* A PUT that was given up is executed all the same.
ExecuteLate(p) ==
    /\ \E v \in late[p] :
          /\ Apply(p, v)
          /\ late' = [late EXCEPT ![p] = @ \ {v}]
    /\ UNCHANGED <<stage, wire, verdict, expired, cleaned, faulted>>

\* The setting is read back and must be what was put.
Get(p) ==
    /\ wire[p] = "put"
    /\ wire' = [wire EXCEPT ![p] = IF policy = Sets[stage[p]] THEN "done" ELSE "error"]
    /\ UNCHANGED <<policy, stage, verdict, late, expired, historyVars>>

\* The PUT or the GET does not reach the server, or is refused.
Lose(p) ==
    /\ wire[p] \in {"sent", "put"}
    /\ wire' = [wire EXCEPT ![p] = "error"]
    /\ faulted' = faulted \union {p}
    /\ UNCHANGED <<policy, stage, verdict, late, expired, setter, cleaned, crossed>>

\* Mutant of Return: RunElasticsearch does not defer the harness's cleanup.
ReturnUncleaned(p) ==
    /\ stage[p] \in Bounded
    /\ \/ /\ wire[p] = "done"
          /\ GoTo(p, CASE stage[p] = "forbid"   -> "canonical"
                       [] stage[p] = "allow"    -> "expensive"
                       [] stage[p] = "restrict" -> "done")
          /\ UNCHANGED verdict
       \/ /\ wire[p] = "error"
          /\ Fail(p)
    /\ UNCHANGED <<policy, late, expired, historyVars>>

\* A change made for the demo itself returns.
Return(p) ==
    /\ stage[p] \in Bounded
    /\ \/ /\ wire[p] = "done"
          /\ GoTo(p, CASE stage[p] = "forbid"   -> "canonical"
                       [] stage[p] = "allow"    -> "expensive"
                       [] stage[p] = "restrict" -> "cleanup")
          /\ UNCHANGED verdict
       \/ /\ wire[p] = "error"
          /\ Fail(p)
    /\ UNCHANGED <<policy, late, expired, historyVars>>

\* The change in the cleanup returns; its error is ignored, and the client is
\* closed.
Cleanup(p) ==
    /\ stage[p] = "cleanup" /\ wire[p] \in {"done", "error"}
    /\ GoTo(p, "done")
    /\ cleaned' = [cleaned EXCEPT ![p] = wire[p]]
    /\ UNCHANGED <<policy, verdict, late, expired, setter, faulted, crossed>>

\* The canonical scenarios pass: none of their queries is expensive.
Canonical(p) ==
    /\ stage[p] = "canonical" /\ p \notin expired
    /\ GoTo(p, "boundary")
    /\ UNCHANGED <<policy, verdict, late, expired, historyVars>>

\* The raw expensive query must be rejected; the strict cases that follow are not
\* expensive.  One that fails for another reason, a lost connection or the
\* deadline, is taken for rejected, whatever the policy is.
Boundary(p) ==
    /\ stage[p] = "boundary"
    /\ \/ /\ p \notin expired /\ policy = "forbidden"
          /\ GoTo(p, "allow")
          /\ UNCHANGED <<verdict, faulted>>
       \/ /\ p \notin expired /\ policy = "allowed"
          /\ Fail(p)
          /\ UNCHANGED faulted
       \/ /\ GoTo(p, "allow")
          /\ faulted' = faulted \union {p}
          /\ UNCHANGED verdict
    /\ UNCHANGED <<policy, late, expired, setter, cleaned, crossed>>

\* The expensive cases run; then the setting is put back.
Expensive(p) ==
    /\ stage[p] = "expensive" /\ p \notin expired
    /\ IF policy = "allowed"
       THEN GoTo(p, "restrict") /\ UNCHANGED verdict
       ELSE Fail(p)
    /\ UNCHANGED <<policy, late, expired, historyVars>>

-----------------------------------------------------------------------------

\* A query fails, or waiting for, identifying or resetting the server does.
Break(p) ==
    /\ stage[p] \in Bounded \ DOMAIN Sets
    /\ Fail(p)
    /\ faulted' = faulted \union {p}
    /\ UNCHANGED <<policy, late, expired, setter, cleaned, crossed>>

\* The deadline of the demo's context passes.
Expire(p) ==
    /\ stage[p] \in Bounded /\ p \notin expired
    /\ expired' = expired \union {p}
    /\ faulted' = faulted \union {p}
    /\ UNCHANGED <<policy, stage, wire, verdict, late, setter, cleaned, crossed>>

\* What is on its way when run p stops waiting for it.
Abandon(p) ==
    late' = [late EXCEPT ![p] = IF wire[p] = "sent" THEN @ \union {Sets[stage[p]]} ELSE @]

\* Mutant of GiveUp: the cleanup's change is made under no deadline.
GiveUpButCleanup(p) ==
    /\ stage[p] \in Bounded /\ p \in expired
    /\ Fail(p)
    /\ Abandon(p)
    /\ UNCHANGED <<policy, expired, historyVars>>

\* The call p is in, or the next one, returns because of its context: the
\* demo's, or the cleanup's own after five seconds.
GiveUp(p) ==
    /\ \/ /\ stage[p] \in Bounded /\ p \in expired
          /\ Fail(p)
          /\ UNCHANGED <<cleaned, faulted>>
       \/ /\ stage[p] = "cleanup"
          /\ GoTo(p, "done")
          /\ cleaned' = [cleaned EXCEPT ![p] = "error"]
          /\ faulted' = faulted \union {p}
          /\ UNCHANGED verdict
    /\ Abandon(p)
    /\ UNCHANGED <<policy, expired, setter, crossed>>

\* The process is killed, and with it its cleanup.
Kill(p) ==
    /\ ~Ended(p)
    /\ GoTo(p, "killed")
    /\ Abandon(p)
    /\ faulted' = faulted \union {p}
    /\ UNCHANGED <<policy, verdict, expired, setter, cleaned, crossed>>

Next ==
    \E p \in Runs :
        \/ Start(p) \/ Prepare(p)
        \/ Put(p) \/ Get(p) \/ Return(p) \/ Cleanup(p)
        \/ Canonical(p) \/ Boundary(p) \/ Expensive(p)
        \/ ExecutePut(p) \/ ExecuteLate(p) \/ Lose(p)
        \/ Break(p) \/ Expire(p) \/ GiveUp(p) \/ Kill(p)

Spec == Init /\ [][Next]_vars

\* The timers fire, and calls return once their context has expired.
Fairness == \A p \in Runs : WF_vars(Expire(p)) /\ WF_vars(GiveUp(p) \/ Cleanup(p))

FairSpec == Spec /\ Fairness

-----------------------------------------------------------------------------

\* Types; only a run that changes the setting has a change under way.
TypeOK ==
    /\ policy \in Policies
    /\ stage \in [Runs -> Stages]
    /\ wire \in [Runs -> {"none", "sent", "put", "done", "error"}]
    /\ verdict \in [Runs -> {"ok", "error"}]
    /\ late \in [Runs -> SUBSET Policies]
    /\ expired \in SUBSET Runs /\ setter \in SUBSET Runs
    /\ cleaned \in [Runs -> {"never", "done", "error"}]
    /\ faulted \in SUBSET Runs /\ crossed \in SUBSET Runs
    /\ \A p \in Runs : wire[p] # "none" => stage[p] \in DOMAIN Sets

\* Expensive queries stay forbidden only while the demo that forbade them is
\* running, or if it met a fault, its deadline or a kill: a demo that merely
\* failed, because of another's changes say, has given the setting back.
GivenBack ==
    policy = "forbidden" =>
        \A p \in setter : ~Ended(p) \/ p \in faulted

\* Whatever policy an earlier demo has left, a demo fails only because of a
\* fault, its deadline, or another demo's change of the setting meanwhile.
OwnFailures ==
    \A p \in Runs : verdict[p] = "error" => p \in faulted \union crossed

\* A demo that succeeds undisturbed leaves expensive queries allowed, and its
\* cleanup has confirmed it, although the harness forbids them again last.
SuccessGivesBack ==
    [][\A p \in Runs :
         stage[p] = "cleanup" /\ stage'[p] = "done" /\ verdict[p] = "ok"
         /\ p \notin faulted' \union crossed
            => policy' = "allowed" /\ cleaned'[p] = "done"]_vars

\* Every demo ends, even one whose cluster never answers again: the cleanup
\* does not rely on the context that has expired.
Terminates == \A p \in Runs : ~Ended(p) ~> Ended(p)

\* "Exit 1: setup, compilation, execution, cleanup, or result validation
\* failed." (cmd/README.md): a demo whose cleanup failed does not report
\* success.
CleanupReported ==
    \A p \in Runs : stage[p] = "done" /\ cleaned[p] = "error" => verdict[p] = "error"

=============================================================================
