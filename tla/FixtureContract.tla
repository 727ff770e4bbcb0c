------------------------- MODULE FixtureContract -------------------------
(***************************************************************************)
(* What resetting a fixture promises, whatever the service behind it.      *)
(*                                                                         *)
(* Several runs of testbedctl (or of a demo or test that resets a service) *)
(* may work on one service at once.  No reset is atomic and none takes a   *)
(* lock, so a run can empty what another has just filled, and a request a  *)
(* run gave up on may still take effect later.  What the resets promise is *)
(* therefore an account, not isolation: a run that clears records owes     *)
(* them until it has written them again, and a record that is missing is   *)
(* owed by somebody, unless it was missing from the start and no reset has *)
(* dealt with it yet.  It follows that once some run has reported success  *)
(* and no run is left in the middle or failed, the fixture is complete.    *)
(*                                                                         *)
(* SqlFixture, MongoFixture, LdapFixture and ElasticsearchFixture implement*)
(* this specification under the refinement mappings they state.            *)
(***************************************************************************)
EXTENDS Naturals

CONSTANTS
    Ids,   \* identifiers of the records the fixture consists of
    Runs   \* the resets that may ever be started

VARIABLES
    present,  \* the fixture records the service holds
    lost,     \* records missing from the start that no run has dealt with
    owed,     \* owed[p]: what p may have cleared and has not written back
    outcome   \* outcome[p]: how far run p has got, as its caller sees it

vars == <<present, lost, owed, outcome>>

Outcomes == {"idle", "active", "ok", "failed"}

TypeOK ==
    /\ present \in SUBSET Ids
    /\ lost \in SUBSET Ids
    /\ owed \in [Runs -> SUBSET Ids]
    /\ outcome \in [Runs -> Outcomes]

\* The service may hold any part of the fixture when the first run starts: an
\* empty service, a complete fixture, or what an interrupted run left behind.
Init ==
    /\ present \in SUBSET Ids
    /\ lost = Ids \ present
    /\ owed = [p \in Runs |-> {}]
    /\ outcome = [p \in Runs |-> "idle"]

Begin(p) ==
    /\ outcome[p] = "idle"
    /\ outcome' = [outcome EXCEPT ![p] = "active"]
    /\ UNCHANGED <<present, lost, owed>>

\* Run p removes S and owes it from now on.  A run that has failed may still do
\* so: the request it gave up on is executed late.  A run that has reported
\* success may not.
Clear(p, S) ==
    /\ outcome[p] \in {"active", "failed"}
    /\ present' = present \ S
    /\ owed' = [owed EXCEPT ![p] = @ \union S]
    /\ lost' = lost \ S
    /\ UNCHANGED outcome

\* Run p writes S, and owes it no longer.
Restore(p, S) ==
    /\ outcome[p] \in {"active", "failed"}
    /\ present' = present \union S
    /\ owed' = [owed EXCEPT ![p] = @ \ S]
    /\ lost' = lost \ S
    /\ UNCHANGED outcome

\* Run p writes S in a request that fails as a whole: it goes on owing S.
Refill(p, S) ==
    /\ outcome[p] \in {"active", "failed"}
    /\ present' = present \union S
    /\ lost' = lost \ S
    /\ UNCHANGED <<owed, outcome>>

\* A run reports success only when it owes nothing and every record has been
\* dealt with.
Succeed(p) ==
    /\ outcome[p] = "active"
    /\ owed[p] = {}
    /\ lost = {}
    /\ outcome' = [outcome EXCEPT ![p] = "ok"]
    /\ UNCHANGED <<present, lost, owed>>

Fail(p) ==
    /\ outcome[p] = "active"
    /\ outcome' = [outcome EXCEPT ![p] = "failed"]
    /\ UNCHANGED <<present, lost, owed>>

Next ==
    \E p \in Runs :
        \/ Begin(p)
        \/ \E S \in SUBSET Ids : Clear(p, S) \/ Restore(p, S) \/ Refill(p, S)
        \/ Succeed(p)
        \/ Fail(p)

Spec == Init /\ [][Next]_vars

-----------------------------------------------------------------------------

\* Every missing record is owed by a run, or was missing before any run dealt
\* with it.
Accounted == Ids \ present \subseteq lost \union UNION {owed[p] : p \in Runs}

\* The runs' reports can be trusted: one that has not started, and one that
\* has succeeded, owes nothing; after a success no record is unaccounted for.
Reports ==
    /\ \A p \in Runs : outcome[p] \in {"idle", "ok"} => owed[p] = {}
    /\ (\E p \in Runs : outcome[p] = "ok") => lost = {}

\* Once some run has succeeded and every other run either has too or never
\* started, the fixture is complete, however the runs were interleaved.
Settled ==
    (/\ \E p \in Runs : outcome[p] = "ok"
     /\ \A p \in Runs : outcome[p] \in {"idle", "ok"}) => present = Ids

=============================================================================
