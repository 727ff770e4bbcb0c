--------------------- MODULE ElasticsearchPolicyProofs ---------------------
(***************************************************************************)
(* Proofs about ElasticsearchPolicy, for any number of demos.              *)
(*                                                                         *)
(* The argument.  The value of the setting is explained by who set it last *)
(* and how far that demo is.  A PUT that is executed late belongs to a     *)
(* demo that met a fault (Abandoned).  A demo without one that is the last *)
(* setter, and has reached the answer to its cleanup's PUT, has set the    *)
(* setting to allowed (LastWord): GivenBack follows.  A demo that nobody   *)
(* crossed finds the setting as it put it itself, so that no GET differs   *)
(* from its PUT and both checks that depend on the setting pass            *)
(* (Uncrossed): OwnFailures and SuccessGivesBack follow.                   *)
(***************************************************************************)
EXTENDS ElasticsearchPolicy, TLAPS

\* Only a demo that met a fault or its deadline has given up a PUT.
Abandoned ==
    /\ expired \subseteq faulted
    /\ \A p \in Runs : late[p] # {} => p \in faulted /\ stage[p] # "idle"

\* Where the demo is that set the policy last.
LastWord ==
    /\ \A p \in setter : stage[p] # "idle"
    /\ \A p \in setter \ faulted :
          /\ stage[p] \in {"done", "killed"} => policy = "allowed"
          /\ stage[p] = "cleanup" /\ wire[p] \in {"put", "done", "error"} => policy = "allowed"

\* A demo that met no fault and no other demo's change finds its own setting.
Uncrossed ==
    \A p \in Runs \ (faulted \union crossed) :
        /\ wire[p] # "error"
        /\ wire[p] \in {"put", "done"} => policy = Sets[stage[p]]
        /\ stage[p] \in {"canonical", "boundary"} => policy = "forbidden"
        /\ stage[p] = "expensive" => policy = "allowed"

IInv == TypeOK /\ Abandoned /\ LastWord /\ Uncrossed /\ OwnFailures

-----------------------------------------------------------------------------

\* What the changes set.
LEMMA SetsFacts ==
    /\ DOMAIN Sets = {"forbid", "allow", "restrict", "cleanup"}
    /\ Sets["forbid"] = "forbidden" /\ Sets["restrict"] = "forbidden"
    /\ Sets["allow"] = "allowed" /\ Sets["cleanup"] = "allowed"
    /\ \A s \in DOMAIN Sets : s \in Stages /\ Sets[s] \in Policies
BY DEF Sets, Policies, Stages

\* The initial states satisfy the invariant: no demo has set anything.
LEMMA InitIInv == Init => IInv
BY DEF Init, IInv, TypeOK, Stages, Policies, Abandoned, LastWord, Uncrossed, OwnFailures

\* Every action keeps the types.
LEMMA NextTypeOK ==
    ASSUME TypeOK, [Next]_vars PROVE TypeOK'
<1> USE SetsFacts DEF TypeOK, historyVars, GoTo
<1>1. ASSUME NEW p \in Runs, Start(p) PROVE TypeOK'
    BY <1>1 DEF Start, Stages
<1>2. ASSUME NEW p \in Runs, Prepare(p) PROVE TypeOK'
    BY <1>2 DEF Prepare, Stages
<1>3. ASSUME NEW p \in Runs, Put(p) PROVE TypeOK'
    BY <1>3 DEF Put
<1>4. ASSUME NEW p \in Runs, Get(p) PROVE TypeOK'
    BY <1>4 DEF Get
<1>5. ASSUME NEW p \in Runs, Return(p) PROVE TypeOK'
    BY <1>5 DEF Return, Fail, OnError, Stages, Bounded
<1>6. ASSUME NEW p \in Runs, Cleanup(p) PROVE TypeOK'
    BY <1>6 DEF Cleanup, Stages
<1>7. ASSUME NEW p \in Runs, Canonical(p) PROVE TypeOK'
    BY <1>7 DEF Canonical, Stages
<1>8. ASSUME NEW p \in Runs, Boundary(p) PROVE TypeOK'
    BY <1>8 DEF Boundary, Fail, OnError, Stages
<1>9. ASSUME NEW p \in Runs, Expensive(p) PROVE TypeOK'
    BY <1>9 DEF Expensive, Fail, OnError, Stages
<1>10. ASSUME NEW p \in Runs, ExecutePut(p) PROVE TypeOK'
    BY <1>10 DEF ExecutePut, Apply, Disturbed
<1>11. ASSUME NEW p \in Runs, ExecuteLate(p) PROVE TypeOK'
    BY <1>11 DEF ExecuteLate, Apply, Disturbed
<1>12. ASSUME NEW p \in Runs, Lose(p) PROVE TypeOK'
    BY <1>12 DEF Lose
<1>13. ASSUME NEW p \in Runs, Break(p) PROVE TypeOK'
    BY <1>13 DEF Break, Fail, OnError, Stages
<1>14. ASSUME NEW p \in Runs, Expire(p) PROVE TypeOK'
    BY <1>14 DEF Expire
<1>15. ASSUME NEW p \in Runs, GiveUp(p) PROVE TypeOK'
    BY <1>15 DEF GiveUp, Fail, OnError, Abandon, Stages
<1>16. ASSUME NEW p \in Runs, Kill(p) PROVE TypeOK'
    BY <1>16 DEF Kill, Abandon, Stages
<1>17. CASE UNCHANGED vars
    BY <1>17 DEF vars
<1> QED
    BY <1>1, <1>2, <1>3, <1>4, <1>5, <1>6, <1>7, <1>8, <1>9, <1>10, <1>11, <1>12, <1>13,
       <1>14, <1>15, <1>16, <1>17 DEF Next

\* A PUT is given up because of a deadline or a kill.
LEMMA NextAbandoned ==
    ASSUME TypeOK, Abandoned, [Next]_vars PROVE Abandoned'
<1> USE DEF TypeOK, Abandoned, historyVars, GoTo
<1>1. ASSUME NEW p \in Runs, Start(p) \/ Prepare(p) \/ Put(p) \/ Get(p) \/ Cleanup(p) \/ Canonical(p)
      PROVE  Abandoned'
    BY <1>1 DEF Start, Prepare, Put, Get, Cleanup, Canonical
<1>2. ASSUME NEW p \in Runs, Return(p) \/ Boundary(p) \/ Expensive(p) \/ Break(p)
      PROVE  Abandoned'
    <2>1. UNCHANGED <<late, expired>> /\ faulted \subseteq faulted'
        BY <1>2 DEF Return, Boundary, Expensive, Break
    <2>2. stage[p] # "idle" /\ \A q \in Runs \ {p} : stage'[q] = stage[q]
        BY <1>2 DEF Return, Boundary, Expensive, Break, Fail, Bounded
    <2>3. stage'[p] # "idle"
        <3>1. CASE Fail(p)
            BY <3>1 DEF Fail, OnError
        <3>2. CASE Return(p) /\ wire[p] = "done"
            <4>1. stage[p] \in {"forbid", "allow", "restrict"}
                BY <3>2, SetsFacts DEF Return, Bounded
            <4> QED BY <3>2, <4>1 DEF Return
        <3>3. CASE (Boundary(p) \/ Expensive(p)) /\ ~Fail(p)
            BY <3>3 DEF Boundary, Expensive
        <3> QED BY <1>2, <3>1, <3>2, <3>3 DEF Return, Break
    <2> QED BY <2>1, <2>2, <2>3
<1>3. ASSUME NEW p \in Runs, ExecutePut(p) \/ ExecuteLate(p) PROVE Abandoned'
    BY <1>3 DEF ExecutePut, ExecuteLate, Apply
<1>4. ASSUME NEW p \in Runs, Lose(p) \/ Expire(p) PROVE Abandoned'
    BY <1>4 DEF Lose, Expire
<1>5. ASSUME NEW p \in Runs, GiveUp(p) PROVE Abandoned'
    BY <1>5 DEF GiveUp, Fail, OnError, Abandon, Bounded
<1>6. ASSUME NEW p \in Runs, Kill(p) PROVE Abandoned'
    BY <1>6 DEF Kill, Abandon
<1>7. CASE UNCHANGED vars
    BY <1>7 DEF vars
<1> QED BY <1>1, <1>2, <1>3, <1>4, <1>5, <1>6, <1>7 DEF Next

\* The last setter has the last word: what it has put is what its cleanup puts, once
\* that is on record.
LEMMA NextLastWord ==
    ASSUME TypeOK, Abandoned, LastWord, Uncrossed, [Next]_vars PROVE LastWord'
<1> USE SetsFacts DEF TypeOK, LastWord, historyVars, GoTo
<1>1. ASSUME NEW p \in Runs, Start(p) \/ Prepare(p) \/ Put(p) \/ Get(p) \/ Cleanup(p) \/ Canonical(p)
      PROVE  LastWord'
    BY <1>1 DEF Start, Prepare, Put, Get, Cleanup, Canonical
<1>2. ASSUME NEW p \in Runs, Return(p) \/ Boundary(p) \/ Expensive(p) \/ Break(p)
      PROVE  LastWord'
    BY <1>2 DEF Return, Boundary, Expensive, Break, Fail, OnError, Bounded
<1>3. ASSUME NEW p \in Runs, ExecutePut(p) PROVE LastWord'
    BY <1>3 DEF ExecutePut, Apply
<1>4. ASSUME NEW p \in Runs, ExecuteLate(p) PROVE LastWord'
    BY <1>4 DEF ExecuteLate, Apply, Abandoned
<1>5. ASSUME NEW p \in Runs, Lose(p) \/ Expire(p) PROVE LastWord'
    BY <1>5 DEF Lose, Expire
<1>6. ASSUME NEW p \in Runs, GiveUp(p) PROVE LastWord'
    BY <1>6 DEF GiveUp, Fail, OnError, Abandon, Bounded
<1>7. ASSUME NEW p \in Runs, Kill(p) PROVE LastWord'
    BY <1>7 DEF Kill
<1>8. CASE UNCHANGED vars
    BY <1>8 DEF vars
<1> QED BY <1>1, <1>2, <1>3, <1>4, <1>5, <1>6, <1>7, <1>8 DEF Next

\* A change of the setting crosses every other demo that is running, and the others'
\* steps do not concern a demo.
LEMMA NextUncrossed ==
    ASSUME TypeOK, Abandoned, Uncrossed, [Next]_vars PROVE Uncrossed'
<1> USE SetsFacts DEF TypeOK, Uncrossed, historyVars, GoTo
<1>1. ASSUME NEW p \in Runs, Start(p) \/ Prepare(p) \/ Put(p) \/ Get(p) \/ Cleanup(p) \/ Canonical(p)
      PROVE  Uncrossed'
    BY <1>1 DEF Start, Prepare, Put, Get, Cleanup, Canonical
<1>2. ASSUME NEW p \in Runs, Return(p) PROVE Uncrossed'
    BY <1>2 DEF Return, Fail, OnError, Bounded
<1>3. ASSUME NEW p \in Runs, Boundary(p) \/ Expensive(p) \/ Break(p) PROVE Uncrossed'
    BY <1>3 DEF Boundary, Expensive, Break, Fail, OnError
<1>4. ASSUME NEW p \in Runs, NEW v \in Policies, Apply(p, v),
             UNCHANGED <<stage, faulted>>,
             \A q \in Runs \ {p} : wire'[q] = wire[q],
             p \in faulted \/ (wire'[p] = "put" /\ v = Sets[stage[p]] /\ stage[p] \in DOMAIN Sets)
      PROVE  Uncrossed'
    <2>1. ASSUME NEW q \in Runs \ {p}, q \notin faulted \union crossed'
          PROVE  Ended(q) /\ wire'[q] = "none"
        BY <1>4, <2>1 DEF Apply, Disturbed, Ended
    <2>2. policy' = v
        BY <1>4 DEF Apply
    <2> QED BY <1>4, <2>1, <2>2 DEF Ended
<1>5. ASSUME NEW p \in Runs, ExecutePut(p) PROVE Uncrossed'
    <2>1. /\ Apply(p, Sets[stage[p]]) /\ UNCHANGED <<stage, faulted>>
          /\ wire'[p] = "put" /\ \A q \in Runs \ {p} : wire'[q] = wire[q]
          /\ stage[p] \in DOMAIN Sets
        BY <1>5 DEF ExecutePut
    <2> QED BY <1>4, <2>1
<1>6. ASSUME NEW p \in Runs, ExecuteLate(p) PROVE Uncrossed'
    <2>1. PICK v \in late[p] : Apply(p, v)
        BY <1>6 DEF ExecuteLate
    <2>2. UNCHANGED <<stage, faulted, wire>> /\ p \in faulted /\ v \in Policies
        BY <1>6, <2>1 DEF ExecuteLate, Abandoned
    <2> QED BY <1>4, <2>1, <2>2
<1>7. ASSUME NEW p \in Runs, Lose(p) \/ Expire(p) PROVE Uncrossed'
    BY <1>7 DEF Lose, Expire
<1>8. ASSUME NEW p \in Runs, GiveUp(p) PROVE Uncrossed'
    BY <1>8 DEF GiveUp, Fail, OnError, Abandoned
<1>9. ASSUME NEW p \in Runs, Kill(p) PROVE Uncrossed'
    BY <1>9 DEF Kill
<1>10. CASE UNCHANGED vars
    BY <1>10 DEF vars
<1> QED BY <1>1, <1>2, <1>3, <1>5, <1>6, <1>7, <1>8, <1>9, <1>10 DEF Next

\* A demo gets an error from a call, its deadline, or a setting that is not its own.
LEMMA NextOwnFailures ==
    ASSUME TypeOK, Abandoned, Uncrossed, OwnFailures, [Next]_vars PROVE OwnFailures'
<1> USE DEF TypeOK, OwnFailures, historyVars
<1>1. ASSUME NEW p \in Runs,
             \/ Start(p) \/ Prepare(p) \/ Put(p) \/ Get(p) \/ Cleanup(p) \/ Canonical(p)
             \/ ExecuteLate(p) \/ ExecutePut(p) \/ Lose(p) \/ Expire(p) \/ Kill(p)
      PROVE  OwnFailures'
    BY <1>1 DEF Start, Prepare, Put, Get, Cleanup, Canonical, ExecuteLate, ExecutePut, Apply,
                Lose, Expire, Kill
<1>2. ASSUME NEW p \in Runs, Return(p) PROVE OwnFailures'
    BY <1>2 DEF Return, Fail, Uncrossed
<1>3. ASSUME NEW p \in Runs, Boundary(p) \/ Expensive(p) PROVE OwnFailures'
    BY <1>3 DEF Boundary, Expensive, Fail, Uncrossed
<1>4. ASSUME NEW p \in Runs, Break(p) PROVE OwnFailures'
    BY <1>4 DEF Break, Fail
<1>5. ASSUME NEW p \in Runs, GiveUp(p) PROVE OwnFailures'
    BY <1>5 DEF GiveUp, Fail, Abandoned
<1>6. CASE UNCHANGED vars
    BY <1>6 DEF vars
<1> QED BY <1>1, <1>2, <1>3, <1>4, <1>5, <1>6 DEF Next

-----------------------------------------------------------------------------

\* The invariant holds in every state.
THEOREM InvariantHolds == Spec => []IInv
<1>1. IInv /\ [Next]_vars => IInv'
    BY NextTypeOK, NextAbandoned, NextLastWord, NextUncrossed, NextOwnFailures DEF IInv
<1> QED BY InitIInv, <1>1, PTL DEF Spec

\* A change of the setting is under way only in a demo that is changing it.
THEOREM TypeCorrect == Spec => []TypeOK
BY InvariantHolds, PTL DEF IInv

\* Expensive queries do not stay forbidden: the cleanup of RunElasticsearch gives
\* the setting back on every path, and nothing but a fault, a deadline or a kill can
\* come between, however many demos change the setting.
THEOREM GivenBackHolds == Spec => []GivenBack
<1>1. IInv => GivenBack
    BY DEF IInv, LastWord, GivenBack, Ended
<1> QED BY InvariantHolds, <1>1, PTL

\* A demo that fails met a fault, its deadline or another demo's change: what an
\* earlier demo left the setting at does not matter to RunElasticsearch.
THEOREM OwnFailuresHolds == Spec => []OwnFailures
BY InvariantHolds, PTL DEF IInv

\* A demo that ends well and undisturbed has expensive queries allowed again and
\* its cleanup's error, which is ignored, is none.
THEOREM SuccessGivesBackHolds == Spec => SuccessGivesBack
<1> DEFINE GivesBack ==
      \A p \in Runs :
         stage[p] = "cleanup" /\ stage'[p] = "done" /\ verdict[p] = "ok"
         /\ p \notin faulted' \union crossed
            => policy' = "allowed" /\ cleaned'[p] = "done"
<1>1. IInv /\ [Next]_vars => [GivesBack]_vars
    <2> SUFFICES ASSUME IInv, Next, NEW p \in Runs,
                        stage[p] = "cleanup", stage'[p] = "done",
                        p \notin faulted' \union crossed
                 PROVE  policy' = "allowed" /\ cleaned'[p] = "done"
        OBVIOUS
    <2> USE DEF GoTo, historyVars, IInv, TypeOK
    <2>1. CASE Cleanup(p)
        <3>1. p \notin faulted \union crossed
            BY <2>1 DEF Cleanup
        <3>2. wire[p] = "done" /\ policy = "allowed"
            BY <2>1, <3>1, SetsFacts DEF Cleanup, Uncrossed
        <3> QED BY <2>1, <3>2 DEF Cleanup
    <2>2. CASE GiveUp(p)
        BY <2>2 DEF GiveUp, Bounded
    <2>3. ASSUME NEW q \in Runs,
                 \/ Start(q) \/ Prepare(q) \/ Return(q) \/ Canonical(q) \/ Boundary(q)
                 \/ Expensive(q) \/ Break(q) \/ Kill(q)
          PROVE  FALSE
        BY <2>3 DEF Start, Prepare, Return, Canonical, Boundary, Expensive, Break, Kill,
               Fail, OnError, Bounded
    <2>4. ASSUME NEW q \in Runs, Cleanup(q) \/ GiveUp(q), q # p
          PROVE  FALSE
        BY <2>4 DEF Cleanup, GiveUp, Fail
    <2>5. ASSUME NEW q \in Runs,
                 \/ Put(q) \/ Get(q) \/ ExecutePut(q) \/ ExecuteLate(q) \/ Lose(q) \/ Expire(q)
          PROVE  FALSE
        BY <2>5 DEF Put, Get, ExecutePut, ExecuteLate, Lose, Expire
    <2> QED BY <2>1, <2>2, <2>3, <2>4, <2>5 DEF Next
<1> QED BY InvariantHolds, <1>1, PTL DEF Spec, SuccessGivesBack

=============================================================================
