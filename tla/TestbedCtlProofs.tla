-------------------------- MODULE TestbedCtlProofs --------------------------
(***************************************************************************)
(* Proofs about TestbedCtl, for any invocations, command lines, services   *)
(* and records.                                                            *)
(*                                                                         *)
(* The argument.  An invocation has a verdict on exactly those of its      *)
(* services that are not still to be visited, and the one being visited is *)
(* the first of these (Progress); so none is left without a verdict when   *)
(* it reports.  The rows it holds are those of its successful visits, one  *)
(* set for each (Reading), which is what makes their comparison complete:  *)
(* FailuresJoined.  A service's records are accounted for as in            *)
(* FixtureContract, and only visits that have failed, or are resetting or  *)
(* about to fail, have requests under way or owe records (Account): an     *)
(* exit status of 0 excludes both for every service, SettledEverywhere.    *)
(* For the refinement a step is looked at twice: what it does to the       *)
(* services (ServeEffect, FixtureKept), and what it does to the outcome of *)
(* one visit (OutcomeStep).  At the end, what the contract gives whoever   *)
(* implements it: its account is an inductive invariant of its own.        *)
(***************************************************************************)
EXTENDS TestbedCtl, FiniteSetTheorems, TLAPS

\* How far p has got with the services it was asked to visit.
Progress(p) ==
    /\ (stage[p] \in Visiting) <=> (selected[p] # {})
    /\ selected[p] \subseteq Chosen(p)
    /\ \A s \in Services :
          /\ (verdict[p][s] = "active") <=> (stage[p] \in Visiting /\ s = Current(p))
          /\ stage[p] # "killed" =>
                ((verdict[p][s] \in {"ok", "failed"}) <=> (s \in Chosen(p) \ selected[p]))
    /\ stage[p] = "idle" => command[p] = "health" /\ backend[p] = ""
    /\ stage[p] \in Visiting \union {"reporting"} => Chosen(p) # {}
    /\ (exit[p] # "none") <=> (stage[p] = "done")

\* Run p's visit of s has succeeded, or has only to close its handle.
Won(p, s) ==
    /\ s \in Services
    /\ \/ verdict[p][s] = "ok"
       \/ stage[p] = "succeeded" /\ s = Current(p)

\* The rows p has read are those of its successful visits.
Reading(p) ==
    \A s \in SqlBackends :
       /\ \A c, d \in Columns :
             (<<s, c>> \in records[p] /\ <<s, d>> \in records[p]) => c = d
       /\ \A c \in Columns :
             (<<s, c>> \in records[p]) => (stage[p] = "killed" \/ Won(p, s))
       /\ (command[p] = "check" /\ Won(p, s)) => \E c \in Columns : <<s, c>> \in records[p]

\* Run p may have requests under way at s, or owe records there.
MayOwe(p, s) ==
    /\ command[p] \in Resets
    /\ \/ verdict[p][s] = "failed"
       \/ stage[p] \in {"resetting", "failing"} /\ s = Current(p)

\* Run p's reset of s has succeeded, whatever its visit comes to.
Dealt(p, s) ==
    /\ command[p] \in Resets
    /\ \/ verdict[p][s] = "ok"
       \/ stage[p] \in {"verifying", "succeeded"} /\ s = Current(p)

\* The account of service s.
Account(s) ==
    /\ Ids \ present[s] \subseteq lost[s] \union UNION {owed[s][p] : p \in Runs}
    /\ \A p \in Runs :
          /\ (<<p, s>> \in changing \/ owed[s][p] # {}) => MayOwe(p, s)
          /\ Dealt(p, s) => lost[s] = {}

IInv ==
    /\ TypeOK
    /\ \A p \in Runs : Progress(p) /\ Reading(p)
    /\ \A s \in Services : Account(s)
    /\ VisitsApart
    /\ FailuresJoined

-----------------------------------------------------------------------------

\* Of some services, there is one that comes first.
LEMMA FirstFacts ==
    ASSUME NEW S \in SUBSET (DOMAIN Order), S # {}
    PROVE  First(S) \in S
<1>1. DOMAIN Order = {"mysql", "postgres", "mongo", "ldap", "elasticsearch"}
    BY DEF Order
<1>2. /\ Order["mysql"] = 1 /\ Order["postgres"] = 2 /\ Order["mongo"] = 3
      /\ Order["ldap"] = 4 /\ Order["elasticsearch"] = 5
    BY DEF Order
<1>3. \E s \in S : \A t \in S : Order[s] <= Order[t]
    <2>1. CASE "mysql" \in S
        BY <1>1, <1>2, <2>1
    <2>2. CASE "mysql" \notin S /\ "postgres" \in S
        BY <1>1, <1>2, <2>2
    <2>3. CASE S \subseteq {"mongo", "ldap", "elasticsearch"} /\ "mongo" \in S
        BY <1>1, <1>2, <2>3
    <2>4. CASE S \subseteq {"ldap", "elasticsearch"} /\ "ldap" \in S
        BY <1>1, <1>2, <2>4
    <2>5. CASE S \subseteq {"elasticsearch"}
        BY <1>1, <1>2, <2>5
    <2> QED BY <1>1, <2>1, <2>2, <2>3, <2>4, <2>5
<1> QED BY <1>3 DEF First

\* A non-empty set of identifiers is read as a non-empty sequence.
LEMMA SetToSeqFacts ==
    /\ SetToSeq(Ids) \in [1 .. Cardinality(Ids) -> Ids]
    /\ 1 \in 1 .. Cardinality(Ids)
<1>1. Cardinality(Ids) \in Nat /\ ExistsBijection(1 .. Cardinality(Ids), Ids)
    BY IdsAssumption, FS_CardinalityType
<1>2. Cardinality(Ids) # 0
    BY IdsAssumption, FS_EmptySet
<1>3. \E f \in [1 .. Cardinality(Ids) -> Ids] : IsInjective(f)
    BY <1>1 DEF ExistsBijection, Bijection, Injection
<1>4. SetToSeq(Ids) \in [1 .. Cardinality(Ids) -> Ids]
    BY <1>3 DEF SetToSeq
<1> QED BY <1>1, <1>2, <1>4

-----------------------------------------------------------------------------

\* The service a visit is of is one of the instance's, and was chosen.
LEMMA CurrentFacts ==
    ASSUME TypeOK, NEW p \in Runs, Progress(p), stage[p] \in Visiting
    PROVE  Current(p) \in selected[p] /\ Current(p) \in Services /\ Current(p) \in Chosen(p)
<1>1. selected[p] \in SUBSET Services /\ selected[p] # {} /\ selected[p] \subseteq Chosen(p)
    BY DEF TypeOK, Progress
<1>2. selected[p] \in SUBSET (DOMAIN Order)
    BY <1>1, ServicesAssumption
<1> QED BY <1>1, <1>2, FirstFacts DEF Current

\* The first service a command line selects is one of the instance's.
LEMMA FirstSelected ==
    ASSUME NEW S \in SUBSET Services, S # {}
    PROVE  First(S) \in S
BY FirstFacts, ServicesAssumption

\* What ending a visit changes: its verdict, and that the next service's is open.
LEMMA DecideEffect ==
    ASSUME TypeOK, NEW p \in Runs, Progress(p), stage[p] \in Visiting,
           NEW v \in {"ok", "failed"}, Decide(p, v)
    PROVE  /\ selected' \in [Runs -> SUBSET Services]
           /\ selected'[p] = selected[p] \ {Current(p)}
           /\ verdict' \in [Runs -> [Services -> Verdicts]]
           /\ verdict'[p][Current(p)] = v
           /\ \A s \in Services \ {Current(p)} :
                 /\ (verdict'[p][s] = "ok") <=> (verdict[p][s] = "ok")
                 /\ (verdict'[p][s] = "failed") <=> (verdict[p][s] = "failed")
           /\ selected'[p] # {} => Current(p)' \in selected'[p]
           /\ \A s \in Services :
                 (verdict'[p][s] = "active") <=> (selected'[p] # {} /\ s = Current(p)')
           /\ \A q \in Runs \ {p} : selected'[q] = selected[q] /\ verdict'[q] = verdict[q]
<1> DEFINE rest == selected[p] \ {Current(p)}
<1>1. selected' = [selected EXCEPT ![p] = rest] /\ rest \subseteq Services
    BY DEF Decide, TypeOK
<1>2. selected' \in [Runs -> SUBSET Services] /\ selected'[p] = rest
    BY <1>1 DEF TypeOK
<1>3. Current(p)' = First(rest)
    BY <1>2 DEF Current
<1>4. rest # {} => First(rest) \in rest
    BY <1>1, FirstSelected
<1>5. ASSUME NEW s \in rest
      PROVE  verdict[p][s] = "idle"
    <2>1. s \in Services /\ verdict[p][s] \in Verdicts
        BY <1>1 DEF TypeOK
    <2>2. verdict[p][s] # "active" /\ stage[p] # "killed"
        BY <2>1 DEF Progress, Visiting
    <2>3. verdict[p][s] \notin {"ok", "failed"}
        BY <2>1, <2>2 DEF Progress
    <2> QED BY <2>1, <2>2, <2>3 DEF Verdicts
<1>6. verdict' = [verdict EXCEPT ![p] =
                     [s \in Services |-> IF s = Current(p) THEN v
                                         ELSE IF rest # {} /\ s = First(rest) THEN "active"
                                         ELSE verdict[p][s]]]
    BY DEF Decide
<1>7. \A s \in Services :
         verdict'[p][s] = IF s = Current(p) THEN v
                          ELSE IF rest # {} /\ s = First(rest) THEN "active"
                          ELSE verdict[p][s]
    BY <1>6 DEF TypeOK
<1>8. verdict' \in [Runs -> [Services -> Verdicts]]
    BY <1>6 DEF TypeOK, Verdicts
<1>9. \A q \in Runs \ {p} : selected'[q] = selected[q] /\ verdict'[q] = verdict[q]
    BY <1>1, <1>6 DEF TypeOK
<1>10. Current(p) \in Services
    BY CurrentFacts
<1>11. \A s \in Services \ {Current(p)} : verdict[p][s] # "active"
    BY DEF Progress
<1> HIDE DEF rest
<1>12. \A s \in Services \ {Current(p)} :
         /\ (verdict'[p][s] = "ok") <=> (verdict[p][s] = "ok")
         /\ (verdict'[p][s] = "failed") <=> (verdict[p][s] = "failed")
    BY <1>4, <1>5, <1>7
<1>13. \A s \in Services : (verdict'[p][s] = "active") <=> (rest # {} /\ s = First(rest))
    BY <1>4, <1>7, <1>10, <1>11 DEF rest
<1> QED BY <1>2, <1>3, <1>4, <1>7, <1>8, <1>9, <1>10, <1>12, <1>13 DEF rest

-----------------------------------------------------------------------------

\* Every step keeps the types of the variables.
LEMMA TypesStep ==
    ASSUME IInv, [Next]_vars
    PROVE  TypeOK'
<1> USE DEF IInv
<1>1. CASE UNCHANGED vars
    BY <1>1 DEF TypeOK, vars, fixtureVars
<1>2. ASSUME NEW p \in Runs, Invoke(p)
      PROVE  TypeOK'
    <2>1. PICK line \in Lines[p] :
             LET chosen == Services \intersect SelectedServices(line.backend) IN
             /\ chosen # {}
             /\ command' = [command EXCEPT ![p] = line.command]
             /\ backend' = [backend EXCEPT ![p] = line.backend]
             /\ selected' = [selected EXCEPT ![p] = chosen]
             /\ verdict' = [verdict EXCEPT ![p][First(chosen)] = "active"]
        BY <1>2 DEF Invoke
    <2>2. /\ line.command \in {"health", "reset", "verify", "check"}
          /\ line.backend \in STRING
        BY LinesAssumption
    <2>3. verdict' \in [Runs -> [Services -> Verdicts]]
        BY <2>1 DEF TypeOK, Verdicts
    <2>4. /\ command' \in [Runs -> {"health", "reset", "verify", "check"}]
          /\ backend' \in [Runs -> Texts] /\ selected' \in [Runs -> SUBSET Services]
        BY <2>1, <2>2 DEF TypeOK, Texts
    <2> QED BY <1>2, <2>3, <2>4 DEF Invoke, GoTo, TypeOK, Stages, Visiting, fixtureVars
<1>3. ASSUME NEW p \in Runs,
             Refuse(p) \/ NotReady(p) \/ TimerFires(p) \/ DeadlineWakes(p) \/ Fail(p)
             \/ Expire(p) \/ Report(p)
      PROVE  TypeOK'
    BY <1>3 DEF TypeOK, Refuse, NotReady, TimerFires, DeadlineWakes, Fail, Moves, Expire,
                Report, GoTo, Stages, Visiting, fixtureVars
<1>4. ASSUME NEW p \in Runs, Open(p)
      PROVE  TypeOK'
    <2>1. Current(p) \in Services
        BY <1>4, CurrentFacts DEF Open, Visiting
    <2> QED BY <1>4, <2>1 DEF TypeOK, Open, GoTo, Stages, Visiting, fixtureVars
<1>5. ASSUME NEW p \in Runs, Ready(p)
      PROVE  TypeOK'
    <2>1. Current(p) \in Services
        BY <1>5, CurrentFacts DEF Ready, Visiting
    <2>2. changing' \subseteq Runs \X Services
        BY <1>5, <2>1 DEF Ready, Visit, TypeOK
    <2>3. stage' \in [Runs -> Stages]
        BY <1>5 DEF Ready, GoTo, TypeOK, Stages, Visiting
    <2> QED BY <1>5, <2>1, <2>2, <2>3 DEF TypeOK, Ready, fixtureVars
<1>6. ASSUME NEW p \in Runs, ResetSucceeds(p)
      PROVE  TypeOK'
    BY <1>6 DEF TypeOK, ResetSucceeds, GoTo, Stages, Visiting, fixtureVars
<1>7. ASSUME NEW p \in Runs, NEW s \in Services, Serve(p, s)
      PROVE  TypeOK'
    <2>1. PICK S \in SUBSET Ids :
             /\ lost' = [lost EXCEPT ![s] = @ \ S]
             /\ \/ present' = [present EXCEPT ![s] = @ \ S]
                \/ present' = [present EXCEPT ![s] = @ \union S]
             /\ \/ owed' = [owed EXCEPT ![s][p] = @ \union S]
                \/ owed' = [owed EXCEPT ![s][p] = @ \ S]
                \/ owed' = owed
        BY <1>7 DEF Serve
    <2>2. present' \in [Services -> SUBSET Ids] /\ lost' \in [Services -> SUBSET Ids]
        <3>1. present \in [Services -> SUBSET Ids] /\ lost \in [Services -> SUBSET Ids]
            BY DEF TypeOK
        <3>2. lost' \in [Services -> SUBSET Ids]
            BY <2>1, <3>1
        <3>3. present' \in [Services -> SUBSET Ids]
            BY <2>1, <3>1
        <3> QED BY <3>2, <3>3
    <2>3. owed' \in [Services -> [Runs -> SUBSET Ids]]
        <3>1. /\ owed[s][p] \union S \in SUBSET Ids /\ owed[s][p] \ S \in SUBSET Ids
              /\ owed[s] \in [Runs -> SUBSET Ids]
            BY DEF TypeOK
        <3>2. ASSUME NEW T \in SUBSET Ids, owed' = [owed EXCEPT ![s][p] = T]
              PROVE  owed' \in [Services -> [Runs -> SUBSET Ids]]
            <4>1. [owed[s] EXCEPT ![p] = T] \in [Runs -> SUBSET Ids]
                BY <3>1
            <4>2. owed' = [owed EXCEPT ![s] = [owed[s] EXCEPT ![p] = T]]
                BY <3>2
            <4> HIDE <3>2
            <4> QED BY <4>1, <4>2 DEF TypeOK
        <3>3. CASE owed' = owed
            BY <3>3 DEF TypeOK
        <3>4. \E T \in SUBSET Ids : owed' = owed \/ owed' = [owed EXCEPT ![s][p] = T]
            BY <2>1, <3>1
        <3> QED BY <3>2, <3>3, <3>4
    <2> QED BY <1>7, <2>2, <2>3 DEF TypeOK, Serve
<1>8. ASSUME NEW p \in Runs, Verify(p)
      PROVE  TypeOK'
    <2>1. records' \in [Runs -> SUBSET (SqlBackends \X Columns)]
        <3>1. CASE UNCHANGED records
            BY <3>1 DEF TypeOK
        <3>2. ASSUME NEW c \in Columns,
                     records' = [records EXCEPT ![p] =
                                    @ \union (({Current(p)} \intersect SqlBackends) \X {c})]
              PROVE  records' \in [Runs -> SUBSET (SqlBackends \X Columns)]
            <4>1. ASSUME NEW t \in ({Current(p)} \intersect SqlBackends) \X {c}
                  PROVE  t \in SqlBackends \X Columns
                OBVIOUS
            <4> DEFINE U == SqlBackends \X Columns
                       T == ({Current(p)} \intersect SqlBackends) \X {c}
            <4>2. T \in SUBSET U
                BY <4>1
            <4>3. records \in [Runs -> SUBSET U] /\ records' = [records EXCEPT ![p] = @ \union T]
                BY <3>2 DEF TypeOK
            <4> HIDE DEF U, T
            <4>4. records' \in [Runs -> SUBSET U]
                BY <4>2, <4>3
            <4> QED BY <4>4 DEF U
        <3> QED BY <1>8, <3>1, <3>2 DEF Verify
    <2> QED BY <1>8, <2>1 DEF TypeOK, Verify, GoTo, Stages, Visiting, fixtureVars
<1>9. ASSUME NEW p \in Runs, OpenFails(p) \/ Leave(p)
      PROVE  TypeOK'
    <2>1. \E v \in {"ok", "failed"} : Conclude(p, v)
        <3>1. Conclude(p, "ok") \/ Conclude(p, "failed")
            BY <1>9 DEF OpenFails, Leave
        <3> QED BY <3>1, Zenon
    <2>2. stage[p] \in Visiting
        BY <1>9 DEF OpenFails, Leave, Visiting
    <2>3. selected' \in [Runs -> SUBSET Services] /\ verdict' \in [Runs -> [Services -> Verdicts]]
        BY <2>1, <2>2, DecideEffect DEF Conclude
    <2>4. stage' \in [Runs -> Stages] /\ expired' \subseteq Runs
        BY <2>1 DEF Conclude, GoTo, TypeOK, Stages, Visiting
    <2>5. records' \in [Runs -> SUBSET (SqlBackends \X Columns)]
        <3> DEFINE U == SqlBackends \X Columns
        <3>1. records \in [Runs -> SUBSET U]
            BY DEF TypeOK
        <3>2. \E T : records' = [records EXCEPT ![p] = @ \ T] \/ records' = records
            BY <1>9 DEF OpenFails, Leave
        <3> HIDE DEF U
        <3>3. records' \in [Runs -> SUBSET U]
            BY <3>1, <3>2
        <3> QED BY <3>3 DEF U
    <2>6. handles' \in [Runs -> SUBSET Services]
        <3>1. handles \in [Runs -> SUBSET Services]
            BY DEF TypeOK
        <3>2. CASE OpenFails(p)
            BY <3>1, <3>2 DEF OpenFails
        <3>3. CASE Leave(p)
            <4>1. handles' = [handles EXCEPT ![p] = @ \ {Current(p)}]
                BY <3>3 DEF Leave
            <4> QED BY <3>1, <4>1
        <3> QED BY <1>9, <3>2, <3>3
    <2>7. UNCHANGED <<present, lost, owed, command, backend, exit, changing>>
        BY <1>9 DEF OpenFails, Leave, fixtureVars
    <2> QED BY <2>3, <2>4, <2>5, <2>6, <2>7 DEF TypeOK
<1>10. ASSUME NEW p \in Runs, Kill(p)
       PROVE  TypeOK'
    BY <1>10 DEF TypeOK, Kill, GoTo, Stages, Visiting, Verdicts, fixtureVars
<1> QED
    BY <1>1, <1>2, <1>3, <1>4, <1>5, <1>6, <1>7, <1>8, <1>9, <1>10 DEF Next

-----------------------------------------------------------------------------

\* What is done by p, or by a service for p.
Step(p) ==
    \/ Invoke(p) \/ Refuse(p) \/ Open(p) \/ OpenFails(p) \/ Ready(p) \/ NotReady(p)
    \/ TimerFires(p) \/ DeadlineWakes(p) \/ Expire(p) \/ (\E s \in Services : Serve(p, s))
    \/ ResetSucceeds(p) \/ Verify(p) \/ Fail(p) \/ Leave(p) \/ Report(p) \/ Kill(p)

\* Nothing of invocation q itself changes, whatever happens to the services.
Same(q) ==
    /\ command'[q] = command[q] /\ backend'[q] = backend[q]
    /\ selected'[q] = selected[q] /\ stage'[q] = stage[q]
    /\ verdict'[q] = verdict[q] /\ handles'[q] = handles[q]
    /\ records'[q] = records[q] /\ exit'[q] = exit[q]
    /\ (q \in expired') <=> (q \in expired)

\* A step within the current visit, which does not end.
Within(p) ==
    /\ command'[p] = command[p] /\ backend'[p] = backend[p]
    /\ selected'[p] = selected[p] /\ verdict'[p] = verdict[p] /\ exit'[p] = exit[p]
    /\ stage[p] \in Visiting /\ stage'[p] \in Visiting

\* Invocations are separate processes: a step of one does not touch another's.
LEMMA Elsewhere ==
    ASSUME IInv, NEW p \in Runs, Step(p), NEW q \in Runs \ {p}
    PROVE  Same(q)
<1> USE DEF IInv, TypeOK
<1>1. CASE Invoke(p)
    BY <1>1 DEF Invoke, GoTo, Same
<1>2. CASE Refuse(p) \/ NotReady(p) \/ TimerFires(p) \/ DeadlineWakes(p) \/ Fail(p)
           \/ Expire(p) \/ Report(p)
    BY <1>2 DEF Refuse, NotReady, TimerFires, DeadlineWakes, Fail, Moves, Expire, Report,
                GoTo, Same
<1>3. CASE Open(p) \/ ResetSucceeds(p) \/ Kill(p)
    BY <1>3 DEF Open, ResetSucceeds, Kill, GoTo, Same
<1>4. CASE Ready(p)
    BY <1>4 DEF Ready, GoTo, Same
<1>5. CASE \E s \in Services : Serve(p, s)
    BY <1>5 DEF Serve, Same
<1>6. CASE Verify(p)
    BY <1>6 DEF Verify, GoTo, Same
<1>7. CASE OpenFails(p) \/ Leave(p)
    <2>1. \E v \in {"ok", "failed"} : Conclude(p, v)
        <3>1. Conclude(p, "ok") \/ Conclude(p, "failed")
            BY <1>7 DEF OpenFails, Leave
        <3> QED BY <3>1, Zenon
    <2>2. stage[p] \in Visiting
        BY <1>7 DEF OpenFails, Leave, Visiting
    <2>3. selected'[q] = selected[q] /\ verdict'[q] = verdict[q]
        BY <2>1, <2>2, DecideEffect DEF Conclude
    <2>4. stage'[q] = stage[q] /\ ((q \in expired') <=> (q \in expired))
        BY <2>1 DEF Conclude, GoTo
    <2>5. /\ records'[q] = records[q] /\ handles'[q] = handles[q]
          /\ UNCHANGED <<command, backend, exit>>
        BY <1>7 DEF OpenFails, Leave
    <2> QED BY <2>3, <2>4, <2>5 DEF Same
<1> QED BY <1>1, <1>2, <1>3, <1>4, <1>5, <1>6, <1>7 DEF Step

\* The steps between the beginning of a visit and its end.
LEMMA WithinSteps ==
    ASSUME IInv, NEW p \in Runs,
           Open(p) \/ Ready(p) \/ NotReady(p) \/ TimerFires(p) \/ DeadlineWakes(p)
           \/ ResetSucceeds(p) \/ Verify(p) \/ Fail(p) \/ Expire(p)
    PROVE  Within(p)
<1> USE DEF IInv, TypeOK, Within, Visiting
<1>1. CASE Open(p) \/ ResetSucceeds(p) \/ Expire(p)
    BY <1>1 DEF Open, ResetSucceeds, Expire, GoTo
<1>2. CASE NotReady(p) \/ TimerFires(p) \/ DeadlineWakes(p) \/ Fail(p)
    BY <1>2 DEF NotReady, TimerFires, DeadlineWakes, Fail, Moves, GoTo
<1>3. CASE Ready(p)
    BY <1>3 DEF Ready, GoTo
<1>4. CASE Verify(p)
    BY <1>4 DEF Verify, GoTo
<1> QED BY <1>1, <1>2, <1>3, <1>4

\* A visit ends in OpenFails and Leave.
LEMMA ConcludeSteps ==
    ASSUME IInv, NEW p \in Runs, OpenFails(p) \/ Leave(p)
    PROVE  /\ \E v \in {"ok", "failed"} : Conclude(p, v) /\ Decide(p, v)
           /\ stage[p] \in Visiting
           /\ stage'[p] = IF selected'[p] = {} THEN "reporting" ELSE "opening"
           /\ UNCHANGED <<present, lost, owed, changing, command, backend, exit>>
           /\ expired' = expired \ {p}
           /\ handles' = [handles EXCEPT ![p] = @ \ {Current(p)}]
<1> USE DEF IInv
<1>1. Conclude(p, "ok") \/ Conclude(p, "failed")
    BY DEF OpenFails, Leave
<1>2. \E v \in {"ok", "failed"} : Conclude(p, v) /\ Decide(p, v)
    BY <1>1, Zenon DEF Conclude
<1>3. stage[p] \in Visiting
    BY DEF OpenFails, Leave, Visiting
<1>4. stage'[p] = IF selected[p] = {Current(p)} THEN "reporting" ELSE "opening"
    BY <1>2 DEF Conclude, GoTo, TypeOK
<1>5. selected'[p] = selected[p] \ {Current(p)} /\ Current(p) \in selected[p]
    BY <1>2, <1>3, DecideEffect, CurrentFacts
<1>6. /\ UNCHANGED <<present, lost, owed, changing, command, backend, exit>>
      /\ expired' = expired \ {p}
    BY <1>1 DEF OpenFails, Leave, Conclude, fixtureVars
<1>7. handles' = [handles EXCEPT ![p] = @ \ {Current(p)}]
    <2>1. CASE Leave(p)
        BY <2>1 DEF Leave
    <2>2. CASE OpenFails(p)
        <3>1. handles' = handles /\ handles[p] = {}
            BY <2>2 DEF OpenFails, VisitsApart
        <3> QED BY <3>1 DEF TypeOK
    <2> QED BY <2>1, <2>2
<1> QED BY <1>2, <1>3, <1>4, <1>5, <1>6, <1>7

-----------------------------------------------------------------------------

\* Every step keeps Progress.
LEMMA ProgressStep ==
    ASSUME IInv, NEW p \in Runs, Step(p), NEW q \in Runs
    PROVE  Progress(q)'
<1>1. CASE q # p
    <2>1. Same(q) /\ Progress(q)
        BY <1>1, Elsewhere DEF IInv
    <2>2. Chosen(q)' = Chosen(q) /\ (Current(q))' = Current(q)
        BY <2>1 DEF Same, Chosen, Current
    <2> QED BY <2>1, <2>2 DEF Progress, Same
<1>2. CASE Open(p) \/ Ready(p) \/ NotReady(p) \/ TimerFires(p) \/ DeadlineWakes(p)
           \/ ResetSucceeds(p) \/ Verify(p) \/ Fail(p) \/ Expire(p)
    <2>1. Within(p) /\ Progress(p)
        BY <1>2, WithinSteps DEF IInv
    <2>2. Chosen(p)' = Chosen(p) /\ (Current(p))' = Current(p)
        BY <2>1 DEF Within, Chosen, Current
    <2>3. Progress(p)'
        BY <2>1, <2>2 DEF Progress, Within, Visiting
    <2> QED BY <2>3, <1>1
<1>3. CASE OpenFails(p) \/ Leave(p)
    <2>1. PICK v \in {"ok", "failed"} : Decide(p, v)
        BY <1>3, ConcludeSteps DEF IInv
    <2>2. /\ stage[p] \in Visiting
          /\ stage'[p] = IF selected'[p] = {} THEN "reporting" ELSE "opening"
          /\ UNCHANGED <<command, backend, exit>>
        BY <1>3, ConcludeSteps DEF IInv
    <2>3. Chosen(p)' = Chosen(p) /\ Progress(p) /\ Current(p) \in Chosen(p)
        BY <2>2, CurrentFacts DEF Chosen, IInv
    <2>4. /\ selected'[p] = selected[p] \ {Current(p)}
          /\ verdict'[p][Current(p)] = v
          /\ \A s \in Services \ {Current(p)} :
                /\ (verdict'[p][s] = "ok") <=> (verdict[p][s] = "ok")
                /\ (verdict'[p][s] = "failed") <=> (verdict[p][s] = "failed")
          /\ \A s \in Services :
                (verdict'[p][s] = "active") <=> (selected'[p] # {} /\ s = Current(p)')
        BY <2>1, <2>2, <2>3, DecideEffect DEF IInv
    <2>5. ASSUME NEW s \in Services
          PROVE  (verdict'[p][s] \in {"ok", "failed"}) <=> (s \in Chosen(p) \ selected'[p])
        BY <2>2, <2>3, <2>4 DEF Progress, Visiting
    <2>6. selected'[p] \subseteq Chosen(p)'
        BY <2>3, <2>4 DEF Progress
    <2>7. (stage'[p] \in Visiting) <=> (selected'[p] # {})
        BY <2>2 DEF Visiting
    <2>8. stage'[p] # "idle" /\ Chosen(p)' # {}
        BY <2>2, <2>3
    <2>9. (exit'[p] # "none") <=> (stage'[p] = "done")
        BY <2>2, <2>3 DEF Progress, Visiting
    <2>10. Progress(p)'
        BY <2>3, <2>4, <2>5, <2>6, <2>7, <2>8, <2>9 DEF Progress
    <2> QED BY <2>10, <1>1
<1>4. CASE Invoke(p)
    <2>1. PICK line \in Lines[p] :
             /\ Services \intersect SelectedServices(line.backend) # {}
             /\ backend' = [backend EXCEPT ![p] = line.backend]
             /\ selected' = [selected EXCEPT ![p] =
                                Services \intersect SelectedServices(line.backend)]
             /\ verdict' = [verdict EXCEPT ![p]
                   [First(Services \intersect SelectedServices(line.backend))] = "active"]
        BY <1>4 DEF Invoke, IInv
    <2> DEFINE chosen == Services \intersect SelectedServices(line.backend)
    <2>2. selected'[p] = chosen /\ Chosen(p)' = chosen /\ (Current(p))' = First(chosen)
        BY <2>1 DEF TypeOK, Chosen, Current, IInv
    <2>3. chosen # {} /\ chosen \subseteq Services /\ First(chosen) \in chosen
        BY <2>1, FirstSelected DEF IInv
    <2>4. stage[p] = "idle" /\ stage'[p] = "opening" /\ exit' = exit /\ Progress(p)
        BY <1>4 DEF Invoke, GoTo, TypeOK, IInv
    <2>5. Chosen(p) = {}
        BY <2>4 DEF Progress, Chosen, SelectedServices
    <2>6. \A s \in Services : verdict[p][s] \notin {"active", "ok", "failed"}
        BY <2>4, <2>5 DEF Progress, Visiting
    <2>7. \A s \in Services :
             verdict'[p][s] = IF s = First(chosen) THEN "active" ELSE verdict[p][s]
        BY <2>1 DEF TypeOK, IInv
    <2> HIDE DEF chosen
    <2>8. \A s \in Services :
             /\ (verdict'[p][s] = "active") <=> (s = First(chosen))
             /\ verdict'[p][s] \notin {"ok", "failed"}
        BY <2>6, <2>7
    <2>9. exit'[p] = "none"
        BY <2>4 DEF Progress
    <2>10. Progress(p)'
        BY <2>2, <2>3, <2>4, <2>8, <2>9 DEF Progress, Visiting
    <2> QED BY <2>10, <1>1
<1>5. CASE Refuse(p)
    <2>1. /\ stage[p] = "idle" /\ stage'[p] = "done" /\ exit'[p] = "1" /\ Progress(p)
          /\ UNCHANGED <<command, backend, selected, verdict>>
        BY <1>5 DEF Refuse, GoTo, TypeOK, IInv
    <2>2. Chosen(p)' = Chosen(p)
        BY <2>1 DEF Chosen, IInv
    <2>3. Progress(p)'
        BY <2>1, <2>2 DEF Progress, Visiting
    <2> QED BY <2>3, <1>1
<1>6. CASE Report(p)
    <2>1. /\ stage[p] = "reporting" /\ stage'[p] = "done" /\ exit'[p] \in {"0", "1"}
          /\ Progress(p) /\ UNCHANGED <<command, backend, selected, verdict>>
        BY <1>6 DEF Report, GoTo, TypeOK, IInv
    <2>2. Chosen(p)' = Chosen(p)
        BY <2>1 DEF Chosen, IInv
    <2>3. Progress(p)'
        BY <2>1, <2>2 DEF Progress, Visiting
    <2> QED BY <2>3, <1>1
<1>7. CASE Kill(p)
    <2>1. /\ stage[p] \in Visiting /\ stage'[p] = "killed" /\ selected'[p] = {}
          /\ Progress(p) /\ UNCHANGED <<command, backend, exit>>
        BY <1>7 DEF Kill, GoTo, TypeOK, IInv
    <2>2. \A s \in Services :
             verdict'[p][s] = IF s = Current(p) THEN "failed" ELSE verdict[p][s]
        BY <1>7 DEF Kill, TypeOK, IInv
    <2>3. \A s \in Services : verdict'[p][s] # "active"
        BY <2>1, <2>2 DEF Progress
    <2>4. Progress(p)'
        BY <2>1, <2>3 DEF Progress, Visiting
    <2> QED BY <2>4, <1>1
<1>8. CASE \E s \in Services : Serve(p, s)
    <2>1. Same(p) /\ Progress(p)
        BY <1>8 DEF Serve, Same, IInv
    <2>2. Chosen(p)' = Chosen(p) /\ (Current(p))' = Current(p)
        BY <2>1 DEF Same, Chosen, Current
    <2>3. Progress(p)'
        BY <2>1, <2>2 DEF Progress, Same
    <2> QED BY <2>3, <1>1
<1> QED BY <1>2, <1>3, <1>4, <1>5, <1>6, <1>7, <1>8 DEF Step

-----------------------------------------------------------------------------

\* Of the rows an invocation has read, only Verify adds, and only Leave removes.
LEMMA RecordsKept ==
    ASSUME IInv, NEW p \in Runs, Step(p), ~Verify(p), ~Leave(p)
    PROVE  records' = records
<1>1. CASE Invoke(p) \/ Refuse(p) \/ Open(p) \/ OpenFails(p) \/ Ready(p) \/ Expire(p)
    BY <1>1 DEF Invoke, Refuse, Open, OpenFails, Ready, Expire
<1>2. CASE NotReady(p) \/ TimerFires(p) \/ DeadlineWakes(p) \/ Fail(p)
    BY <1>2 DEF NotReady, TimerFires, DeadlineWakes, Fail, Moves
<1>3. CASE (\E s \in Services : Serve(p, s)) \/ ResetSucceeds(p) \/ Report(p) \/ Kill(p)
    BY <1>3 DEF Serve, ResetSucceeds, Report, Kill
<1> QED BY <1>1, <1>2, <1>3 DEF Step

\* Where the rows read do not change, it is enough that no visit is lost, and that
\* none of a check is won.
LEMMA ReadingKept ==
    ASSUME NEW q, Reading(q), records'[q] = records[q],
           \A s \in Services : Won(q, s) => stage'[q] = "killed" \/ Won(q, s)',
           stage[q] = "killed" => stage'[q] = "killed",
           command'[q] = "check" =>
               \A s \in Services : Won(q, s)' => command[q] = "check" /\ Won(q, s)
    PROVE  Reading(q)'
<1>1. ASSUME NEW s \in SqlBackends
      PROVE  /\ \A c, d \in Columns :
                   (<<s, c>> \in records'[q] /\ <<s, d>> \in records'[q]) => c = d
             /\ \A c \in Columns :
                   (<<s, c>> \in records'[q]) => (stage'[q] = "killed" \/ Won(q, s)')
             /\ (command'[q] = "check" /\ Won(q, s)')
                    => \E c \in Columns : <<s, c>> \in records'[q]
    <2>1. Won(q, s)' => s \in Services
        BY DEF Won
    <2>2. Won(q, s) => s \in Services
        BY DEF Won
    <2>3. /\ \A c, d \in Columns :
                (<<s, c>> \in records[q] /\ <<s, d>> \in records[q]) => c = d
          /\ \A c \in Columns :
                (<<s, c>> \in records[q]) => (stage[q] = "killed" \/ Won(q, s))
          /\ (command[q] = "check" /\ Won(q, s)) => \E c \in Columns : <<s, c>> \in records[q]
        BY DEF Reading
    <2> QED BY <2>1, <2>2, <2>3
<1> QED BY <1>1 DEF Reading

\* A verification adds the rows of its own service, which had none.
LEMMA VerifyReads ==
    ASSUME IInv, NEW p \in Runs, Verify(p)
    PROVE  Reading(p)'
<1> DEFINE cur == Current(p)
<1>0. TypeOK /\ Progress(p) /\ Reading(p)
    BY DEF IInv
<1>1. /\ stage[p] = "verifying" /\ stage'[p] \in {"succeeded", "failing"}
      /\ UNCHANGED <<command, selected, verdict>>
    BY <1>0 DEF Verify, GoTo, TypeOK
<1>2. cur \in Services /\ verdict[p][cur] = "active" /\ (Current(p))' = cur
    BY <1>0, <1>1, CurrentFacts DEF Progress, Visiting, Current
<1>3. \A s : Won(p, s)' <=> Won(p, s) \/ (s = cur /\ stage'[p] = "succeeded")
    BY <1>1, <1>2 DEF Won
<1>4. ~Won(p, cur)
    BY <1>1, <1>2 DEF Won
<1> HIDE DEF cur
<1>5. CASE stage'[p] = "failing"
    <2>1. records' = records
        BY <1>0, <1>1, <1>5 DEF Verify, GoTo, TypeOK
    <2> QED BY <1>0, <1>1, <1>3, <1>5, <2>1, ReadingKept
<1>6. CASE stage'[p] = "succeeded"
    <2>1. PICK c \in Columns :
             records' = [records EXCEPT ![p] = @ \union (({cur} \intersect SqlBackends) \X {c})]
        BY <1>0, <1>1, <1>6 DEF Verify, GoTo, TypeOK, cur
    <2>2. records'[p] = records[p] \union (({cur} \intersect SqlBackends) \X {c})
        BY <1>0, <2>1 DEF TypeOK
    <2>3. \A s \in SqlBackends : \A d :
             (<<s, d>> \in records'[p]) <=> (<<s, d>> \in records[p] \/ (s = cur /\ d = c))
        BY <2>2
    <2>4. ASSUME NEW s \in SqlBackends
          PROVE  /\ \A b, d \in Columns :
                       (<<s, b>> \in records'[p] /\ <<s, d>> \in records'[p]) => b = d
                 /\ \A d \in Columns :
                       (<<s, d>> \in records'[p]) => (stage'[p] = "killed" \/ Won(p, s)')
                 /\ (command'[p] = "check" /\ Won(p, s)')
                        => \E d \in Columns : <<s, d>> \in records'[p]
        <3>1. /\ \A b, d \in Columns :
                    (<<s, b>> \in records[p] /\ <<s, d>> \in records[p]) => b = d
              /\ \A d \in Columns : (<<s, d>> \in records[p]) => Won(p, s)
              /\ (command[p] = "check" /\ Won(p, s)) => \E d \in Columns : <<s, d>> \in records[p]
            BY <1>0, <1>1 DEF Reading
        <3>2. CASE s = cur
            BY <1>3, <1>4, <1>6, <2>3, <3>1, <3>2
        <3>3. CASE s # cur
            BY <1>1, <1>3, <2>3, <3>1, <3>3
        <3> QED BY <3>2, <3>3
    <2> QED BY <2>4 DEF Reading
<1> QED BY <1>1, <1>5, <1>6

\* The rows of a visit are kept when it ends with success, and dropped if not.
LEMMA ConcludeReads ==
    ASSUME IInv, NEW p \in Runs, OpenFails(p) \/ Leave(p)
    PROVE  Reading(p)'
<1> DEFINE cur == Current(p)
<1>0. TypeOK /\ Progress(p) /\ Reading(p)
    BY DEF IInv
<1>1. PICK v \in {"ok", "failed"} :
         /\ v = "ok" => stage[p] = "succeeded" /\ UNCHANGED records
         /\ v = "failed" => \/ stage[p] = "opening" /\ UNCHANGED records
                            \/ records' = [records EXCEPT ![p] = @ \ ({cur} \X Columns)]
         /\ Decide(p, v)
    BY DEF OpenFails, Leave, Conclude
<1>2. /\ stage[p] \in Visiting /\ command' = command
      /\ stage'[p] \in {"reporting", "opening"}
    BY ConcludeSteps
<1>3. /\ verdict'[p][cur] = v
      /\ \A s \in Services \ {cur} : (verdict'[p][s] = "ok") <=> (verdict[p][s] = "ok")
    BY <1>0, <1>1, <1>2, DecideEffect
<1>4. cur \in Services /\ verdict[p][cur] = "active"
    BY <1>0, <1>2, CurrentFacts DEF Progress
<1>5. /\ \A s \in Services : Won(p, s)' <=> IF s = cur THEN v = "ok" ELSE Won(p, s)
      /\ Won(p, cur) <=> (stage[p] = "succeeded")
    <2>1. \A s : Won(p, s)' <=> s \in Services /\ verdict'[p][s] = "ok"
        BY <1>2 DEF Won
    <2>2. \A s \in Services \ {cur} : Won(p, s) <=> verdict[p][s] = "ok"
        BY DEF Won
    <2> QED BY <1>3, <1>4, <2>1, <2>2 DEF Won
<1> HIDE DEF cur
<1>6. CASE v = "ok" \/ (stage[p] = "opening" /\ v = "failed" /\ UNCHANGED records)
    <2>1. records' = records /\ ((stage[p] = "succeeded") <=> (v = "ok"))
        BY <1>1, <1>6
    <2>2. \A s \in Services : Won(p, s)' <=> Won(p, s)
        BY <1>4, <1>5, <2>1
    <2> QED BY <1>0, <1>2, <2>1, <2>2, ReadingKept DEF Visiting
<1>7. CASE v = "failed" /\ records' = [records EXCEPT ![p] = @ \ ({cur} \X Columns)]
    <2>1. records'[p] = records[p] \ ({cur} \X Columns)
        BY <1>0, <1>7 DEF TypeOK
    <2>2. \A s \in SqlBackends : \A c \in Columns :
             (<<s, c>> \in records'[p]) <=> (<<s, c>> \in records[p] /\ s # cur)
        BY <2>1
    <2>3. ASSUME NEW s \in SqlBackends
          PROVE  /\ \A b, d \in Columns :
                       (<<s, b>> \in records'[p] /\ <<s, d>> \in records'[p]) => b = d
                 /\ \A d \in Columns :
                       (<<s, d>> \in records'[p]) => (stage'[p] = "killed" \/ Won(p, s)')
                 /\ (command'[p] = "check" /\ Won(p, s)')
                        => \E d \in Columns : <<s, d>> \in records'[p]
        <3>1. /\ \A b, d \in Columns :
                    (<<s, b>> \in records[p] /\ <<s, d>> \in records[p]) => b = d
              /\ \A d \in Columns : (<<s, d>> \in records[p]) => Won(p, s)
              /\ (command[p] = "check" /\ Won(p, s)) => \E d \in Columns : <<s, d>> \in records[p]
            BY <1>0, <1>2 DEF Reading, Visiting
        <3>2. /\ Won(p, s) => s \in Services
              /\ Won(p, s)' => s \in Services
            BY DEF Won
        <3>3. CASE s = cur
            BY <1>4, <1>5, <1>7, <2>2, <3>3
        <3>4. CASE s # cur
            BY <1>2, <1>5, <2>2, <3>1, <3>2, <3>4
        <3> QED BY <3>3, <3>4
    <2> QED BY <2>3 DEF Reading
<1> QED BY <1>1, <1>6, <1>7

\* Every step keeps Reading.
LEMMA ReadingStep ==
    ASSUME IInv, NEW p \in Runs, Step(p), NEW q \in Runs
    PROVE  Reading(q)'
<1>0. TypeOK /\ Progress(p) /\ Progress(q) /\ Reading(p) /\ Reading(q)
    BY DEF IInv
<1>1. CASE Same(q)
    <2>1. \A s : Won(q, s)' <=> Won(q, s)
        BY <1>1 DEF Same, Won, Current
    <2> QED BY <1>0, <1>1, <2>1, ReadingKept DEF Same
<1>2. q # p => Same(q)
    BY Elsewhere
<1>3. CASE \E s \in Services : Serve(p, s)
    <2>1. Same(p)
        BY <1>3 DEF Serve, Same
    <2> QED BY <2>1, <1>1, <1>2
<1>4. CASE Open(p) \/ Ready(p) \/ NotReady(p) \/ TimerFires(p) \/ DeadlineWakes(p)
           \/ ResetSucceeds(p) \/ Fail(p) \/ Expire(p)
    <2>1. Within(p)
        BY <1>4, WithinSteps
    <2>2. records'[p] = records[p]
        BY <1>4 DEF Open, Ready, NotReady, TimerFires, DeadlineWakes, ResetSucceeds, Fail,
                    Expire, Moves
    <2>3. /\ stage[p] = "succeeded" => stage'[p] = "succeeded"
          /\ command[p] = "check" /\ stage'[p] = "succeeded" => stage[p] = "succeeded"
        <3>1. CASE Open(p) \/ Expire(p)
            BY <1>0, <3>1 DEF Open, Expire, GoTo, TypeOK
        <3>2. CASE NotReady(p) \/ TimerFires(p) \/ DeadlineWakes(p) \/ Fail(p)
            BY <1>0, <3>2 DEF NotReady, TimerFires, DeadlineWakes, Fail, Moves, GoTo, TypeOK
        <3>3. CASE Ready(p)
            BY <1>0, <3>3 DEF Ready, GoTo, TypeOK
        <3>4. CASE ResetSucceeds(p)
            BY <1>0, <3>4 DEF ResetSucceeds, GoTo, TypeOK
        <3> QED BY <1>4, <3>1, <3>2, <3>3, <3>4
    <2>4. \A s \in Services : /\ Won(p, s) => Won(p, s)'
                              /\ (command[p] = "check" /\ Won(p, s)') => Won(p, s)
        BY <2>1, <2>3 DEF Within, Won, Current
    <2>5. command'[p] = command[p] /\ stage[p] # "killed"
        BY <2>1 DEF Within, Visiting
    <2>6. Reading(p)'
        BY <1>0, <2>2, <2>4, <2>5, ReadingKept
    <2> QED BY <2>6, <1>1, <1>2
<1>5. CASE Invoke(p) \/ Refuse(p) \/ Report(p) \/ Kill(p)
    <2>1. records'[p] = records[p]
        BY <1>5 DEF Invoke, Refuse, Report, Kill
    <2>2. stage[p] # "killed"
        BY <1>5 DEF Invoke, Refuse, Report, Kill, Visiting
    <2>3. CASE Invoke(p)
        <3>1. Chosen(p) = {} /\ stage[p] = "idle" /\ stage'[p] = "opening"
            <4>1. stage[p] = "idle" /\ stage'[p] = "opening"
                BY <1>0, <2>3 DEF Invoke, GoTo, TypeOK
            <4>2. backend[p] = ""
                BY <1>0, <4>1 DEF Progress
            <4>3. Chosen(p) = {}
                BY <4>2 DEF Chosen, SelectedServices
            <4> QED BY <4>1, <4>3
        <3>2. \A s \in Services : ~Won(p, s)
            BY <1>0, <3>1 DEF Progress, Won
        <3>3. \A s \in Services : verdict'[p][s] = "active" \/ verdict'[p][s] = verdict[p][s]
            BY <1>0, <2>3 DEF Invoke, TypeOK
        <3>4. \A s \in Services : ~Won(p, s)'
            BY <3>1, <3>2, <3>3 DEF Won
        <3>5. Reading(p)'
            BY <1>0, <2>1, <2>2, <3>2, <3>4, ReadingKept
        <3> QED BY <3>5, <1>1, <1>2
    <2>4. CASE Refuse(p) \/ Report(p)
        <3>1. /\ UNCHANGED <<command, verdict>>
              /\ stage[p] # "succeeded" /\ stage'[p] # "succeeded"
            BY <1>0, <2>4 DEF Refuse, Report, GoTo, TypeOK
        <3>2. \A s : Won(p, s)' <=> Won(p, s)
            BY <3>1 DEF Won
        <3>3. Reading(p)'
            BY <1>0, <2>1, <2>2, <3>1, <3>2, ReadingKept
        <3> QED BY <3>3, <1>1, <1>2
    <2>5. CASE Kill(p)
        <3>1. /\ command' = command /\ stage'[p] = "killed"
              /\ \A s \in Services : verdict'[p][s] = "failed" \/ verdict'[p][s] = verdict[p][s]
            BY <1>0, <2>5 DEF Kill, GoTo, TypeOK
        <3>2. \A s \in Services : Won(p, s)' => Won(p, s)
            BY <3>1 DEF Won
        <3>3. Reading(p)'
            BY <1>0, <2>1, <2>2, <3>1, <3>2, ReadingKept
        <3> QED BY <3>3, <1>1, <1>2
    <2> QED BY <1>5, <2>3, <2>4, <2>5
<1>6. CASE Verify(p)
    BY <1>6, VerifyReads, <1>1, <1>2, <1>0
<1>7. CASE OpenFails(p) \/ Leave(p)
    BY <1>7, ConcludeReads, <1>1, <1>2, <1>0
<1> QED BY <1>3, <1>4, <1>5, <1>6, <1>7 DEF Step

-----------------------------------------------------------------------------

\* Every step keeps VisitsApart.
LEMMA ApartStep ==
    ASSUME IInv, NEW p \in Runs, Step(p)
    PROVE  VisitsApart'
<1> DEFINE Inside == Visiting \ {"opening"}
<1>0. TypeOK /\ Progress(p) /\ VisitsApart
    BY DEF IInv
<1>1. ASSUME NEW q \in Runs, Same(q)
      PROVE  /\ handles'[q] \subseteq IF stage'[q] \in Inside THEN {Current(q)'} ELSE {}
             /\ q \in expired' => stage'[q] \in Inside
    <2>1. (Current(q))' = Current(q)
        BY <1>1 DEF Same, Current
    <2> QED BY <1>0, <1>1, <2>1 DEF Same, VisitsApart
<1>2. /\ handles'[p] \subseteq IF stage'[p] \in Inside THEN {Current(p)'} ELSE {}
      /\ p \in expired' => stage'[p] \in Inside
    <2>1. CASE Open(p) \/ Ready(p) \/ NotReady(p) \/ TimerFires(p) \/ DeadlineWakes(p)
               \/ ResetSucceeds(p) \/ Verify(p) \/ Fail(p) \/ Expire(p)
        <3>1. (Current(p))' = Current(p)
            BY <2>1, WithinSteps DEF Within, Current
        <3>2. stage'[p] \in Inside
            <4>1. CASE Open(p) \/ Expire(p) \/ ResetSucceeds(p)
                BY <1>0, <4>1 DEF Open, Expire, ResetSucceeds, GoTo, TypeOK, Visiting
            <4>2. CASE NotReady(p) \/ TimerFires(p) \/ DeadlineWakes(p) \/ Fail(p)
                BY <1>0, <4>2 DEF NotReady, TimerFires, DeadlineWakes, Fail, Moves, GoTo, TypeOK,
                                  Visiting
            <4>3. CASE Ready(p)
                BY <1>0, <4>3 DEF Ready, GoTo, TypeOK, Visiting
            <4>4. CASE Verify(p)
                BY <1>0, <4>4 DEF Verify, GoTo, TypeOK, Visiting
            <4> QED BY <2>1, <4>1, <4>2, <4>3, <4>4
        <3>3. handles[p] \subseteq {Current(p)}
            BY <1>0 DEF VisitsApart
        <3>4. handles'[p] \subseteq handles[p] \union {Current(p)}
            <4>1. CASE Open(p)
                BY <1>0, <4>1 DEF Open, TypeOK
            <4>2. CASE Ready(p)
                BY <1>0, <4>2 DEF Ready, TypeOK
            <4>3. CASE NotReady(p) \/ TimerFires(p) \/ DeadlineWakes(p) \/ Fail(p)
                BY <4>3 DEF NotReady, TimerFires, DeadlineWakes, Fail, Moves
            <4>4. CASE ResetSucceeds(p) \/ Verify(p) \/ Expire(p)
                BY <4>4 DEF ResetSucceeds, Verify, Expire
            <4> QED BY <2>1, <4>1, <4>2, <4>3, <4>4
        <3> QED BY <3>1, <3>2, <3>3, <3>4
    <2>2. CASE OpenFails(p) \/ Leave(p)
        <3>1. /\ handles' = [handles EXCEPT ![p] = @ \ {Current(p)}]
              /\ expired' = expired \ {p}
            BY <2>2, ConcludeSteps
        <3>2. handles'[p] = {}
            BY <1>0, <3>1 DEF VisitsApart, TypeOK
        <3> QED BY <3>1, <3>2
    <2>3. CASE Invoke(p) \/ Refuse(p) \/ Report(p)
        <3>1. /\ stage[p] \notin Inside
              /\ UNCHANGED <<handles, expired>>
            BY <2>3 DEF Invoke, Refuse, Report, Visiting
        <3>2. handles[p] = {} /\ p \notin expired
            BY <1>0, <3>1 DEF VisitsApart
        <3> QED BY <3>1, <3>2
    <2>4. CASE Kill(p)
        BY <1>0, <2>4 DEF Kill, TypeOK
    <2>5. CASE \E s \in Services : Serve(p, s)
        <3>1. Same(p)
            BY <2>5 DEF Serve, Same
        <3> QED BY <3>1, <1>1
    <2> QED BY <2>1, <2>2, <2>3, <2>4, <2>5 DEF Step
<1>3. \A q \in Runs \ {p} : Same(q)
    BY Elsewhere
<1> QED BY <1>1, <1>2, <1>3 DEF VisitsApart

-----------------------------------------------------------------------------

\* Comparing the rows of the SQL services compares what their columns hold.
LEMMA SameRows ==
    ASSUME NEW p, NEW c \in Columns, NEW d \in Columns,
           \A b \in Columns : (<<"mysql", b>> \in records[p]) <=> b = c,
           \A b \in Columns : (<<"postgres", b>> \in records[p]) <=> b = d,
           CompareSQLRecords(Rows(p, "mysql"), Rows(p, "postgres"))
    PROVE  c = d
<1> DEFINE ids == SetToSeq(Ids)
           Row(i, b) == [id |-> ids[i], columns |-> b]
           left == [i \in DOMAIN ids |-> Row(i, c)]
           right == [i \in DOMAIN ids |-> Row(i, d)]
<1>1. 1 \in DOMAIN ids
    BY SetToSeqFacts
<1>2. Rows(p, "mysql") = left
    <2>1. {b \in Columns : <<"mysql", b>> \in records[p]} = {c}
        OBVIOUS
    <2>2. (CHOOSE b \in {c} : TRUE) = c
        OBVIOUS
    <2> QED BY <2>1, <2>2 DEF Rows
<1>3. Rows(p, "postgres") = right
    <2>1. {b \in Columns : <<"postgres", b>> \in records[p]} = {d}
        OBVIOUS
    <2>2. (CHOOSE b \in {d} : TRUE) = d
        OBVIOUS
    <2> QED BY <2>1, <2>2 DEF Rows
<1>4. Row(1, c) \in Range(left) /\ Row(1, d) \in Range(right)
    BY <1>1 DEF Range
<1>5. \A r \in Range(right) : r.columns = d
    BY DEF Range
<1>6. Row(1, c).columns = Other(Row(1, c), right).columns
    BY <1>2, <1>3, <1>4 DEF CompareSQLRecords
<1>7. Other(Row(1, c), right) \in Range(right)
    <2>1. Row(1, d).id = Row(1, c).id
        OBVIOUS
    <2> HIDE DEF Row, right
    <2> QED BY <1>4, <2>1 DEF Other
<1> QED BY <1>5, <1>6, <1>7

\* Every step keeps FailuresJoined.
LEMMA JoinedStep ==
    ASSUME IInv, NEW p \in Runs, Step(p), Progress(p)'
    PROVE  FailuresJoined'
<1> DEFINE Joined(q) == stage[q] = "done" =>
               /\ \A s \in Chosen(q) : verdict[q][s] \in {"ok", "failed"}
               /\ exit[q] = "0" =>
                     /\ Chosen(q) # {}
                     /\ \A s \in Chosen(q) : verdict[q][s] = "ok"
                     /\ command[q] = "check" /\ SqlBackends \subseteq Chosen(q)
                        => \E c \in Columns : records[q] = SqlBackends \X {c}
<1>0. TypeOK /\ Progress(p) /\ Reading(p) /\ FailuresJoined
    BY DEF IInv
<1>1. ASSUME NEW q \in Runs, Same(q)
      PROVE  Joined(q)'
    <2>1. Chosen(q)' = Chosen(q)
        BY <1>1 DEF Same, Chosen
    <2>2. Joined(q)
        BY <1>0 DEF FailuresJoined
    <2> QED BY <1>1, <2>1, <2>2 DEF Same
<1>2. CASE Report(p)
    <2>1. /\ UNCHANGED <<command, backend, selected, verdict, records>>
          /\ stage[p] = "reporting"
          /\ exit'[p] = "0" => Succeeded(p)
        BY <1>0, <1>2 DEF Report, TypeOK
    <2>2. Chosen(p)' = Chosen(p)
        BY <2>1 DEF Chosen
    <2>3. /\ Chosen(p) # {}
          /\ \A s \in Chosen(p) : verdict[p][s] \in {"ok", "failed"}
        BY <1>0, <2>1 DEF Progress, Visiting, Chosen
    <2>4. Succeeded(p) => \A s \in Chosen(p) : verdict[p][s] = "ok"
        BY <2>3 DEF Succeeded
    <2>5. ASSUME Succeeded(p), command[p] = "check", SqlBackends \subseteq Chosen(p)
          PROVE  \E c \in Columns : records[p] = SqlBackends \X {c}
        <3>1. \A s \in SqlBackends : Won(p, s)
            BY <2>4, <2>5 DEF Won, Chosen
        <3>2. PICK c \in Columns : \A b \in Columns : (<<"mysql", b>> \in records[p]) <=> b = c
            BY <1>0, <2>5, <3>1 DEF Reading, SqlBackends
        <3>3. PICK d \in Columns : \A b \in Columns : (<<"postgres", b>> \in records[p]) <=> b = d
            BY <1>0, <2>5, <3>1 DEF Reading, SqlBackends
        <3>4. c = d
            BY <2>5, <3>2, <3>3, SameRows DEF Succeeded
        <3>5. records[p] \subseteq SqlBackends \X Columns
            BY <1>0 DEF TypeOK
        <3>6. \A t \in records[p] : \E s \in SqlBackends, b \in Columns : t = <<s, b>>
            BY <3>5
        <3>7. \A t \in records[p] : t \in SqlBackends \X {c}
            BY <3>2, <3>3, <3>4, <3>6 DEF SqlBackends
        <3>8. \A t \in SqlBackends \X {c} : t \in records[p]
            BY <3>2, <3>3, <3>4 DEF SqlBackends
        <3> QED BY <3>7, <3>8
    <2>6. Joined(p)'
        BY <2>1, <2>2, <2>3, <2>4, <2>5
    <2> QED BY <2>6, <1>1, Elsewhere DEF FailuresJoined
<1>3. CASE Refuse(p)
    <2>1. Chosen(p) = {} /\ Chosen(p)' = Chosen(p) /\ exit'[p] = "1"
        BY <1>0, <1>3 DEF Progress, Refuse, Chosen, SelectedServices, TypeOK
    <2>2. Joined(p)'
        BY <2>1
    <2> QED BY <2>2, <1>1, Elsewhere DEF FailuresJoined
<1>4. CASE \E s \in Services : Serve(p, s)
    <2>1. Same(p)
        BY <1>4 DEF Serve, Same
    <2> QED BY <2>1, <1>1, Elsewhere DEF FailuresJoined
<1>5. CASE /\ ~Report(p) /\ ~Refuse(p) /\ ~\E s \in Services : Serve(p, s)
    <2>1. stage'[p] # "done"
        <3>1. CASE Invoke(p) \/ Kill(p)
            BY <1>0, <3>1 DEF Invoke, Kill, GoTo, TypeOK
        <3>2. CASE OpenFails(p) \/ Leave(p)
            BY <3>2, ConcludeSteps
        <3>3. CASE Open(p) \/ Ready(p) \/ NotReady(p) \/ TimerFires(p) \/ DeadlineWakes(p)
                   \/ ResetSucceeds(p) \/ Verify(p) \/ Fail(p) \/ Expire(p)
            BY <3>3, WithinSteps DEF Within, Visiting
        <3> QED BY <1>5, <3>1, <3>2, <3>3 DEF Step
    <2> QED BY <2>1, <1>1, Elsewhere DEF FailuresJoined
<1> QED BY <1>2, <1>3, <1>4, <1>5

-----------------------------------------------------------------------------

\* The steps that concern no service's fixture: nothing is under way after them
\* that was not before.
LEMMA FixtureKept ==
    ASSUME IInv, NEW p \in Runs, Step(p), ~\E s \in Services : Serve(p, s)
    PROVE  /\ UNCHANGED <<present, lost, owed>>
           /\ ~Ready(p) /\ ~ResetSucceeds(p) => changing' = changing
<1>1. CASE OpenFails(p) \/ Leave(p)
    BY <1>1, ConcludeSteps
<1>2. CASE Open(p) \/ Ready(p) \/ NotReady(p) \/ TimerFires(p) \/ DeadlineWakes(p)
           \/ ResetSucceeds(p) \/ Verify(p) \/ Fail(p) \/ Expire(p)
    BY <1>2 DEF Open, Ready, NotReady, TimerFires, DeadlineWakes, ResetSucceeds, Verify, Fail,
                Expire, Moves, fixtureVars
<1>3. CASE Invoke(p) \/ Refuse(p) \/ Report(p) \/ Kill(p)
    BY <1>3 DEF Invoke, Refuse, Report, Kill, fixtureVars
<1> QED BY <1>1, <1>2, <1>3 DEF Step

\* What p may owe, and what it has dealt with, can grow in few steps only.
LEMMA RolesStep ==
    ASSUME IInv, NEW p \in Runs, Step(p), NEW q \in Runs, NEW s \in Services
    PROVE  /\ MayOwe(q, s) => \/ MayOwe(q, s)'
                              \/ q = p /\ s = Current(p) /\ ResetSucceeds(p)
           /\ Dealt(q, s)' => \/ Dealt(q, s)
                              \/ q = p /\ s = Current(p) /\ ResetSucceeds(p)
<1>0. TypeOK /\ Progress(p) /\ Progress(q)
    BY DEF IInv
<1>1. CASE Same(q)
    BY <1>1 DEF Same, MayOwe, Dealt, Current
<1>2. q # p => Same(q)
    BY Elsewhere
<1>3. CASE \E t \in Services : Serve(p, t)
    <2>1. Same(p)
        BY <1>3 DEF Serve, Same
    <2> QED BY <2>1, <1>1, <1>2
<1>4. CASE OpenFails(p) \/ Leave(p)
    <2>1. PICK v \in {"ok", "failed"} : Decide(p, v) /\ (v = "ok" => stage[p] = "succeeded")
                                        /\ (stage[p] = "failing" => v = "failed")
        BY <1>4 DEF OpenFails, Leave, Conclude
    <2>2. /\ stage[p] \in Visiting /\ command' = command
          /\ stage'[p] \in {"reporting", "opening"}
          /\ stage[p] # "resetting"
        BY <1>4, ConcludeSteps DEF OpenFails, Leave
    <2>3. /\ verdict'[p][Current(p)] = v
          /\ \A t \in Services \ {Current(p)} :
                /\ (verdict'[p][t] = "ok") <=> (verdict[p][t] = "ok")
                /\ (verdict'[p][t] = "failed") <=> (verdict[p][t] = "failed")
        BY <1>0, <2>1, <2>2, DecideEffect
    <2>4. verdict[p][Current(p)] = "active"
        BY <1>0, <2>2, CurrentFacts DEF Progress
    <2>5. MayOwe(p, s) => MayOwe(p, s)'
        BY <2>1, <2>2, <2>3, <2>4 DEF MayOwe
    <2>6. Dealt(p, s)' => Dealt(p, s)
        BY <2>1, <2>2, <2>3 DEF Dealt
    <2> QED BY <2>5, <2>6, <1>1, <1>2
<1>5. CASE Open(p) \/ Ready(p) \/ NotReady(p) \/ TimerFires(p) \/ DeadlineWakes(p)
           \/ ResetSucceeds(p) \/ Verify(p) \/ Fail(p) \/ Expire(p)
    <2>1. Within(p)
        BY <1>5, WithinSteps
    <2>2. /\ stage[p] \in {"resetting", "failing"} =>
                stage'[p] \in {"resetting", "failing"} \/ ResetSucceeds(p)
          /\ command[p] \in Resets /\ stage'[p] \in {"verifying", "succeeded"} =>
                stage[p] \in {"verifying", "succeeded"} \/ ResetSucceeds(p)
        <3>1. CASE Open(p) \/ Expire(p)
            BY <1>0, <3>1 DEF Open, Expire, GoTo, TypeOK
        <3>2. CASE NotReady(p) \/ TimerFires(p) \/ DeadlineWakes(p) \/ Fail(p)
            BY <1>0, <3>2 DEF NotReady, TimerFires, DeadlineWakes, Fail, Moves, GoTo, TypeOK
        <3>3. CASE Ready(p)
            BY <1>0, <3>3 DEF Ready, GoTo, TypeOK, Resets
        <3>4. CASE Verify(p)
            BY <1>0, <3>4 DEF Verify, GoTo, TypeOK
        <3> QED BY <1>5, <3>1, <3>2, <3>3, <3>4
    <2>3. CASE q = p
        BY <2>1, <2>2, <2>3 DEF Within, MayOwe, Dealt, Current
    <2> QED BY <2>3, <1>1, <1>2
<1>6. CASE Invoke(p)
    <2>1. /\ stage[p] = "idle" /\ stage'[p] = "opening" /\ command[p] = "health"
          /\ Chosen(p) = {}
        <3>1. stage[p] = "idle" /\ stage'[p] = "opening"
            BY <1>0, <1>6 DEF Invoke, GoTo, TypeOK
        <3>2. command[p] = "health" /\ backend[p] = ""
            BY <1>0, <3>1 DEF Progress
        <3>3. Chosen(p) = {}
            BY <3>2 DEF Chosen, SelectedServices
        <3> QED BY <3>1, <3>2, <3>3
    <2>2. \A t \in Services : verdict[p][t] \notin {"ok", "failed"}
        BY <1>0, <2>1 DEF Progress
    <2>3. \A t \in Services : verdict'[p][t] = "active" \/ verdict'[p][t] = verdict[p][t]
        BY <1>0, <1>6 DEF Invoke, TypeOK
    <2>4. ~MayOwe(p, s) /\ ~Dealt(p, s)'
        BY <2>1, <2>2, <2>3 DEF MayOwe, Dealt
    <2> QED BY <2>4, <1>1, <1>2
<1>7. CASE Refuse(p) \/ Report(p)
    <2>1. /\ UNCHANGED <<command, verdict>>
          /\ stage[p] \in {"idle", "reporting"} /\ stage'[p] = "done"
        BY <1>0, <1>7 DEF Refuse, Report, GoTo, TypeOK
    <2>2. (MayOwe(p, s) => MayOwe(p, s)') /\ (Dealt(p, s)' => Dealt(p, s))
        BY <2>1 DEF MayOwe, Dealt
    <2> QED BY <2>2, <1>1, <1>2
<1>8. CASE Kill(p)
    <2>1. command' = command /\ stage'[p] = "killed"
        BY <1>0, <1>8 DEF Kill, GoTo, TypeOK
    <2>2. \A t \in Services :
             verdict'[p][t] = IF t = Current(p) THEN "failed" ELSE verdict[p][t]
        BY <1>0, <1>8 DEF Kill, TypeOK
    <2>3. (MayOwe(p, s) => MayOwe(p, s)') /\ (Dealt(p, s)' => Dealt(p, s))
        BY <2>1, <2>2 DEF MayOwe, Dealt
    <2> QED BY <2>3, <1>1, <1>2
<1> QED BY <1>3, <1>4, <1>5, <1>6, <1>7, <1>8 DEF Step

-----------------------------------------------------------------------------

\* What a request of p's reset of s changes: only s, and only p's account of it.
LEMMA ServeEffect ==
    ASSUME TypeOK, NEW p \in Runs, NEW s \in Services, Serve(p, s)
    PROVE  /\ \E S \in SUBSET Ids :
                 /\ lost'[s] = lost[s] \ S
                 /\ \/ /\ present'[s] = present[s] \ S
                       /\ owed'[s] = [owed[s] EXCEPT ![p] = @ \union S]
                    \/ /\ present'[s] = present[s] \union S
                       /\ owed'[s] = [owed[s] EXCEPT ![p] = @ \ S]
                    \/ /\ present'[s] = present[s] \union S
                       /\ owed'[s] = owed[s]
           /\ \A t \in Services \ {s} :
                 present'[t] = present[t] /\ lost'[t] = lost[t] /\ owed'[t] = owed[t]
           /\ \A q \in Runs : Same(q)
           /\ changing' = changing /\ <<p, s>> \in changing
<1>1. PICK S \in SUBSET Ids :
         /\ lost' = [lost EXCEPT ![s] = @ \ S]
         /\ \/ /\ present' = [present EXCEPT ![s] = @ \ S]
               /\ owed' = [owed EXCEPT ![s][p] = @ \union S]
            \/ /\ present' = [present EXCEPT ![s] = @ \union S]
               /\ owed' = [owed EXCEPT ![s][p] = @ \ S]
            \/ /\ present' = [present EXCEPT ![s] = @ \union S]
               /\ UNCHANGED owed
    BY DEF Serve
<1>2. /\ lost'[s] = lost[s] \ S
      /\ \/ /\ present'[s] = present[s] \ S
            /\ owed'[s] = [owed[s] EXCEPT ![p] = @ \union S]
         \/ /\ present'[s] = present[s] \union S
            /\ owed'[s] = [owed[s] EXCEPT ![p] = @ \ S]
         \/ /\ present'[s] = present[s] \union S
            /\ owed'[s] = owed[s]
    BY <1>1 DEF TypeOK
<1>3. \A t \in Services \ {s} :
         present'[t] = present[t] /\ lost'[t] = lost[t] /\ owed'[t] = owed[t]
    BY <1>1 DEF TypeOK
<1>4. \A q \in Runs : Same(q)
    BY DEF Serve, Same
<1>5. changing' = changing /\ <<p, s>> \in changing
    BY DEF Serve
<1> QED BY <1>2, <1>3, <1>4, <1>5

\* A record counts as missing only while somebody can be asked for it: every step
\* keeps the account of every service.
LEMMA AccountStep ==
    ASSUME IInv, NEW p \in Runs, Step(p), NEW s \in Services
    PROVE  Account(s)'
<1>0. /\ TypeOK /\ Progress(p) /\ Account(s)
      /\ \A q \in Runs : owed[s][q] \in SUBSET Ids
    BY DEF IInv, TypeOK
<1>1. ASSUME NEW t \in Services, Serve(p, t)
      PROVE  Account(s)'
    <2>1. \A q \in Runs : Same(q)
        BY <1>0, <1>1, ServeEffect
    <2>2. \A q \in Runs : (MayOwe(q, s)' <=> MayOwe(q, s)) /\ (Dealt(q, s)' <=> Dealt(q, s))
        BY <2>1 DEF Same, MayOwe, Dealt, Current
    <2>3. changing' = changing /\ <<p, t>> \in changing
        BY <1>0, <1>1, ServeEffect
    <2>4. CASE s # t
        <3>1. present'[s] = present[s] /\ lost'[s] = lost[s] /\ owed'[s] = owed[s]
            BY <1>0, <1>1, <2>4, ServeEffect
        <3> QED BY <1>0, <2>2, <2>3, <3>1 DEF Account
    <2>5. CASE s = t
        <3>1. PICK S \in SUBSET Ids :
                 /\ lost'[s] = lost[s] \ S
                 /\ \/ /\ present'[s] = present[s] \ S
                       /\ owed'[s] = [owed[s] EXCEPT ![p] = @ \union S]
                    \/ /\ present'[s] = present[s] \union S
                       /\ owed'[s] = [owed[s] EXCEPT ![p] = @ \ S]
                    \/ /\ present'[s] = present[s] \union S
                       /\ owed'[s] = owed[s]
            <4>1. TypeOK /\ Serve(p, s)
                BY <1>0, <1>1, <2>5
            <4> QED BY <4>1, ServeEffect
        <3>2. MayOwe(p, s)
            BY <1>0, <2>3, <2>5 DEF Account
        <3>3. owed[s] \in [Runs -> SUBSET Ids]
            BY <1>0 DEF TypeOK
        <3>4. ASSUME NEW x \in Ids \ present'[s]
              PROVE  x \in lost'[s] \/ \E q \in Runs : x \in owed'[s][q]
            <4>1. x \notin present[s] => x \in lost[s] \/ \E q \in Runs : x \in owed[s][q]
                BY <1>0 DEF Account
            <4>2. CASE x \in S
                BY <3>1, <3>3, <3>4, <4>2
            <4>3. CASE x \notin S
                BY <3>1, <3>3, <3>4, <4>1, <4>3
            <4> QED BY <4>2, <4>3
        <3>5. \A q \in Runs : (<<q, s>> \in changing' \/ owed'[s][q] # {}) => MayOwe(q, s)'
            <4>1. \A q \in Runs \ {p} : owed'[s][q] = owed[s][q]
                BY <3>1, <3>3
            <4> QED BY <1>0, <2>2, <2>3, <3>2, <4>1 DEF Account
        <3>6. \A q \in Runs : Dealt(q, s)' => lost'[s] = {}
            BY <1>0, <2>2, <3>1 DEF Account
        <3> QED BY <3>4, <3>5, <3>6 DEF Account
    <2> QED BY <2>4, <2>5
<1>2. CASE ~\E t \in Services : Serve(p, t)
    <2>1. UNCHANGED <<present, lost, owed>>
        BY <1>2, FixtureKept
    <2>2. ASSUME NEW q \in Runs
          PROVE  /\ (<<q, s>> \in changing' \/ owed'[s][q] # {}) => MayOwe(q, s)'
                 /\ Dealt(q, s)' => lost'[s] = {}
        <3>1. /\ MayOwe(q, s) => \/ MayOwe(q, s)'
                                 \/ q = p /\ s = Current(p) /\ ResetSucceeds(p)
              /\ Dealt(q, s)' => \/ Dealt(q, s)
                                 \/ q = p /\ s = Current(p) /\ ResetSucceeds(p)
            BY RolesStep
        <3>2. /\ (<<q, s>> \in changing \/ owed[s][q] # {}) => MayOwe(q, s)
              /\ Dealt(q, s) => lost[s] = {}
            BY <1>0 DEF Account
        <3>3. CASE ResetSucceeds(p)
            <4>1. /\ lost[Current(p)] = {} /\ owed[Current(p)][p] = {}
                  /\ changing' = changing \ {<<p, Current(p)>>}
                BY <3>3 DEF ResetSucceeds, Visit
            <4> QED BY <2>1, <3>1, <3>2, <4>1
        <3>4. CASE Ready(p)
            <4>1. /\ ~ResetSucceeds(p)
                  /\ \/ changing' = changing
                     \/ /\ changing' = changing \union {<<p, Current(p)>>}
                        /\ command'[p] \in Resets /\ stage'[p] = "resetting"
                BY <1>0, <3>4 DEF Ready, ResetSucceeds, GoTo, Visit, TypeOK
            <4>2. (Current(p))' = Current(p)
                BY <3>4, WithinSteps DEF Within, Current
            <4> QED BY <2>1, <3>1, <3>2, <4>1, <4>2 DEF MayOwe
        <3>5. CASE ~Ready(p) /\ ~ResetSucceeds(p)
            <4>1. changing' = changing
                BY <1>2, <3>5, FixtureKept
            <4> QED BY <2>1, <3>1, <3>2, <3>5, <4>1
        <3> QED BY <3>3, <3>4, <3>5
    <2> QED BY <1>0, <2>1, <2>2 DEF Account
<1> QED BY <1>1, <1>2

-----------------------------------------------------------------------------

\* The invariant holds before any invocation.
LEMMA InitIInv == Init => IInv
<1> SUFFICES ASSUME Init
             PROVE  IInv
    OBVIOUS
<1>1. TypeOK
    <2>1. lost \in [Services -> SUBSET Ids]
        BY DEF Init
    <2>2. \A U : {} \in SUBSET U
        OBVIOUS
    <2>3. records \in [Runs -> SUBSET (SqlBackends \X Columns)] /\ changing \subseteq Runs \X Services
        BY <2>2 DEF Init
    <2>4. /\ present \in [Services -> SUBSET Ids]
          /\ owed \in [Services -> [Runs -> SUBSET Ids]]
          /\ verdict \in [Runs -> [Services -> Verdicts]]
        BY DEF Init, Verdicts
    <2>5. /\ command \in [Runs -> {"health", "reset", "verify", "check"}]
          /\ selected \in [Runs -> SUBSET Services]
          /\ stage \in [Runs -> Stages] /\ handles \in [Runs -> SUBSET Services]
          /\ exit \in [Runs -> {"none", "0", "1"}] /\ expired \subseteq Runs
        BY DEF Init, Stages
    <2>6. backend \in [Runs -> Texts]
        BY DEF Init, Texts
    <2> QED BY <2>1, <2>3, <2>4, <2>5, <2>6 DEF TypeOK
<1>2. ASSUME NEW p \in Runs
      PROVE  Progress(p) /\ Reading(p)
    <2>1. Chosen(p) = {}
        BY DEF Init, Chosen, SelectedServices
    <2>2. Progress(p)
        BY <2>1 DEF Init, Progress, Visiting
    <2>3. records[p] = {} /\ \A s : ~Won(p, s)
        BY DEF Init, Won
    <2> QED BY <2>2, <2>3 DEF Reading
<1>3. ASSUME NEW s \in Services
      PROVE  Account(s)
    BY DEF Init, Account, Dealt, Resets
<1>4. VisitsApart
    BY DEF Init, VisitsApart
<1>5. FailuresJoined
    BY DEF Init, FailuresJoined
<1> QED BY <1>1, <1>2, <1>3, <1>4, <1>5 DEF IInv

\* Every step keeps the invariant.
LEMMA NextIInv == IInv /\ [Next]_vars => IInv'
<1> SUFFICES ASSUME IInv, [Next]_vars
             PROVE  IInv'
    OBVIOUS
<1>1. TypeOK'
    BY TypesStep
<1>2. CASE UNCHANGED vars
    <2>1. /\ \A p \in Runs : Same(p) /\ Chosen(p)' = Chosen(p) /\ (Current(p))' = Current(p)
          /\ UNCHANGED <<present, lost, owed, changing>>
        BY <1>2 DEF vars, fixtureVars, Same, Chosen, Current
    <2>2. \A p \in Runs : Progress(p)' /\ Reading(p)'
        <3>1. ASSUME NEW p \in Runs
              PROVE  Progress(p)' /\ Reading(p)'
            <4>1. Progress(p)'
                <5>1. Progress(p)
                    BY DEF IInv
                <5>2. Same(p) /\ Chosen(p)' = Chosen(p) /\ (Current(p))' = Current(p)
                    BY <2>1
                <5> QED BY <5>1, <5>2 DEF Same, Progress
            <4>2. \A s : Won(p, s)' <=> Won(p, s)
                BY <2>1 DEF Same, Won
            <4>3. Reading(p)'
                BY <2>1, <4>2, ReadingKept DEF Same, IInv
            <4> QED BY <4>1, <4>3
        <3> QED BY <3>1
    <2>3. \A s \in Services : Account(s)'
        BY <2>1 DEF IInv, Same, Account, MayOwe, Dealt
    <2>4. VisitsApart'
        BY <1>2, <2>1 DEF IInv, VisitsApart, vars
    <2>5. FailuresJoined'
        BY <1>2, <2>1 DEF IInv, FailuresJoined, vars
    <2> QED BY <1>1, <2>2, <2>3, <2>4, <2>5 DEF IInv
<1>3. CASE Next
    <2>1. PICK p \in Runs : Step(p)
        BY <1>3 DEF Next, Step
    <2>2. \A q \in Runs : Progress(q)' /\ Reading(q)'
        BY <2>1, ProgressStep, ReadingStep
    <2>3. \A s \in Services : Account(s)'
        BY <2>1, AccountStep
    <2>4. VisitsApart' /\ FailuresJoined'
        BY <2>1, <2>2, ApartStep, JoinedStep
    <2> QED BY <1>1, <2>2, <2>3, <2>4 DEF IInv
<1> QED BY <1>2, <1>3

-----------------------------------------------------------------------------

\* The invariant holds in every reachable state.
THEOREM InvariantHolds == Spec => []IInv
BY InitIInv, NextIInv, PTL DEF Spec

\* Every variable keeps its type.
THEOREM TypeCorrect == Spec => []TypeOK
<1>1. IInv => TypeOK
    BY DEF IInv
<1> QED BY InvariantHolds, <1>1, PTL

\* "timeout per service", for any number of invocations and services: no handle and
\* no expired context outlives its visit (main.go, run).
THEOREM VisitsApartHolds == Spec => []VisitsApart
<1>1. IInv => VisitsApart
    BY DEF IInv
<1> QED BY InvariantHolds, <1>1, PTL

\* Exit status 0 means that every selected service was visited with success and that
\* a check of both SQL services found the same rows (main.go, run and main).
THEOREM FailuresJoinedHolds == Spec => []FailuresJoined
<1>1. IInv => FailuresJoined
    BY DEF IInv
<1> QED BY InvariantHolds, <1>1, PTL

\* After a reset or check that exits with 0, each of its services is whole, unless a
\* reset or check is unfinished there or has failed there, whatever the invocations
\* and however their requests are interleaved.
THEOREM SettledEverywhereHolds == Spec => []SettledEverywhere
<1>1. IInv => SettledEverywhere
    <2> SUFFICES ASSUME IInv, NEW s \in Services,
                        NEW p \in Runs, command[p] \in Resets, s \in Chosen(p), exit[p] = "0",
                        \A q \in Runs : command[q] \in Resets => verdict[q][s] \in {"idle", "ok"}
                 PROVE  present[s] = Ids
        BY DEF SettledEverywhere
    <2>1. TypeOK /\ Progress(p) /\ Account(s) /\ FailuresJoined
        BY DEF IInv
    <2>2. stage[p] = "done"
        BY <2>1 DEF Progress
    <2>3. lost[s] = {}
        <3>1. verdict[p][s] = "ok"
            BY <2>1, <2>2 DEF FailuresJoined
        <3>2. Dealt(p, s)
            BY <3>1 DEF Dealt
        <3> QED BY <2>1, <3>2 DEF Account
    <2>4. ASSUME NEW q \in Runs
          PROVE  owed[s][q] = {}
        <3>1. ~MayOwe(q, s)
            <4>1. SUFFICES ASSUME MayOwe(q, s)
                           PROVE  FALSE
                OBVIOUS
            <4>2. Progress(q) /\ verdict[q][s] # "failed" /\ verdict[q][s] # "active"
                BY <4>1 DEF IInv, MayOwe
            <4> QED BY <4>1, <4>2 DEF MayOwe, Progress, Visiting
        <3> QED BY <2>1, <3>1 DEF Account
    <2>5. Ids \ present[s] = {}
        BY <2>1, <2>3, <2>4 DEF Account
    <2> QED BY <2>1, <2>5 DEF TypeOK
<1> QED BY InvariantHolds, <1>1, PTL

-----------------------------------------------------------------------------

\* The outcome of p's reset of s, as the contract sees it.
Outcome(p, s) == IF command[p] \in Resets THEN verdict[p][s] ELSE "idle"

\* Before any invocation, every service's contract is in an initial state.
LEMMA InitRefines ==
    ASSUME Init, NEW s \in Services
    PROVE  Contract(s)!Init
BY DEF Init, Resets, Contract!Init

\* How far p's reset of s has got changes as the contract allows: it begins, fails,
\* or succeeds, and then nothing is owed and nothing lost.
LEMMA OutcomeStep ==
    ASSUME IInv, NEW p \in Runs, Step(p), ~\E t \in Services : Serve(p, t), NEW s \in Services
    PROVE  \/ Outcome(p, s)' = Outcome(p, s)
           \/ Outcome(p, s) = "idle" /\ Outcome(p, s)' = "active"
           \/ Outcome(p, s) = "active" /\ Outcome(p, s)' = "failed"
           \/ /\ Outcome(p, s) = "active" /\ Outcome(p, s)' = "ok"
              /\ owed[s][p] = {} /\ lost[s] = {}
<1>0. /\ TypeOK /\ Progress(p) /\ Account(s)
      /\ verdict[p][s] \in Verdicts
    BY DEF IInv, TypeOK
<1>1. CASE Open(p) \/ Ready(p) \/ NotReady(p) \/ TimerFires(p) \/ DeadlineWakes(p)
           \/ ResetSucceeds(p) \/ Verify(p) \/ Fail(p) \/ Expire(p)
    BY <1>1, WithinSteps DEF Within, Outcome
<1>2. CASE OpenFails(p) \/ Leave(p)
    <2>1. PICK v \in {"ok", "failed"} : Decide(p, v) /\ (v = "ok" => stage[p] = "succeeded")
        BY <1>2 DEF OpenFails, Leave, Conclude
    <2>2. stage[p] \in Visiting /\ command' = command
        BY <1>2, ConcludeSteps
    <2>3. /\ verdict'[p][Current(p)] = v
          /\ \A t \in Services \ {Current(p)} :
                /\ (verdict'[p][t] = "ok") <=> (verdict[p][t] = "ok")
                /\ (verdict'[p][t] = "failed") <=> (verdict[p][t] = "failed")
          /\ verdict' \in [Runs -> [Services -> Verdicts]]
        BY <1>0, <2>1, <2>2, DecideEffect
    <2>4. (verdict[p][s] = "active") <=> (s = Current(p))
        BY <1>0, <2>2 DEF Progress
    <2>5. CASE command[p] \notin Resets
        BY <2>2, <2>5 DEF Outcome
    <2>6. CASE command[p] \in Resets /\ s # Current(p)
        <3>1. verdict'[p][s] \in Verdicts
            BY <2>3
        <3>2. verdict'[p][s] = verdict[p][s] \/ (verdict[p][s] = "idle" /\ verdict'[p][s] = "active")
            BY <1>0, <2>3, <2>4, <2>6, <3>1 DEF Verdicts
        <3> QED BY <2>2, <2>6, <3>2 DEF Outcome
    <2>7. CASE command[p] \in Resets /\ s = Current(p) /\ v = "failed"
        BY <2>2, <2>3, <2>4, <2>7 DEF Outcome
    <2>8. CASE command[p] \in Resets /\ s = Current(p) /\ v = "ok"
        <3>1. Dealt(p, s) /\ ~MayOwe(p, s)
            BY <2>1, <2>4, <2>8 DEF Dealt, MayOwe
        <3>2. owed[s][p] = {} /\ lost[s] = {}
            BY <1>0, <3>1 DEF Account
        <3> QED BY <2>2, <2>3, <2>4, <2>8, <3>2 DEF Outcome
    <2> QED BY <2>1, <2>5, <2>6, <2>7, <2>8
<1>3. CASE Invoke(p)
    <2>1. command[p] = "health" /\ Chosen(p) = {} /\ stage[p] = "idle"
        BY <1>0, <1>3 DEF Invoke, Progress, Chosen, SelectedServices
    <2>2. verdict[p][s] = "idle"
        BY <1>0, <2>1 DEF Progress, Verdicts, Visiting
    <2>3. verdict'[p][s] = "active" \/ verdict'[p][s] = verdict[p][s]
        BY <1>0, <1>3 DEF Invoke, TypeOK
    <2> QED BY <2>1, <2>2, <2>3 DEF Outcome, Resets
<1>4. CASE Refuse(p) \/ Report(p)
    BY <1>4 DEF Refuse, Report, Outcome
<1>5. CASE Kill(p)
    <2>1. command' = command /\ stage[p] \in Visiting
        BY <1>5 DEF Kill
    <2>2. verdict'[p][s] = IF s = Current(p) THEN "failed" ELSE verdict[p][s]
        BY <1>0, <1>5 DEF Kill, TypeOK
    <2>3. s = Current(p) => verdict[p][s] = "active"
        BY <1>0, <2>1 DEF Progress
    <2> QED BY <2>1, <2>2, <2>3 DEF Outcome
<1> QED BY <1>1, <1>2, <1>3, <1>4, <1>5 DEF Step

\* Every step is, for every service, a step of its contract or none of it.
LEMMA StepRefines ==
    ASSUME IInv, NEW p \in Runs, Step(p), NEW s \in Services
    PROVE  UNCHANGED Contract(s)!vars \/ Contract(s)!Next
<1> DEFINE out == [q \in Runs |-> Outcome(q, s)]
<1>0. TypeOK /\ Account(s) /\ Progress(p)
    BY DEF IInv
<1>1. /\ Contract(s)!vars = <<present[s], lost[s], owed[s], out>>
      /\ (Contract(s)!vars)' = <<present'[s], lost'[s], owed'[s], out'>>
    BY DEF Contract!vars, Outcome
<1>2. \A q \in Runs \ {p} : Outcome(q, s)' = Outcome(q, s)
    BY Elsewhere DEF Same, Outcome
<1>3. ASSUME NEW t \in Services, Serve(p, t)
      PROVE  UNCHANGED Contract(s)!vars \/ Contract(s)!Next
    <2>1. out' = out
        BY <1>0, <1>3, ServeEffect DEF Same, Outcome
    <2>2. CASE s # t
        <3>1. present'[s] = present[s] /\ lost'[s] = lost[s] /\ owed'[s] = owed[s]
            <4>1. TypeOK /\ s \in Services \ {t}
                BY <1>0, <2>2
            <4> QED BY <1>3, <4>1, ServeEffect
        <3> QED BY <1>1, <2>1, <3>1
    <2>3. CASE s = t
        <3>1. PICK S \in SUBSET Ids :
                 /\ lost'[s] = lost[s] \ S
                 /\ \/ /\ present'[s] = present[s] \ S
                       /\ owed'[s] = [owed[s] EXCEPT ![p] = @ \union S]
                    \/ /\ present'[s] = present[s] \union S
                       /\ owed'[s] = [owed[s] EXCEPT ![p] = @ \ S]
                    \/ /\ present'[s] = present[s] \union S
                       /\ owed'[s] = owed[s]
            <4>1. TypeOK /\ Serve(p, s)
                BY <1>0, <1>3, <2>3
            <4> QED BY <4>1, ServeEffect
        <3>2. MayOwe(p, s)
            <4>1. TypeOK /\ Serve(p, s)
                BY <1>0, <1>3, <2>3
            <4>2. changing' = changing /\ <<p, s>> \in changing
                BY <4>1, ServeEffect
            <4> QED BY <1>0, <4>2 DEF Account
        <3>3. out[p] \in {"active", "failed"}
            BY <1>0, <3>2 DEF MayOwe, Outcome, Progress, Visiting
        <3>4. Contract(s)!Clear(p, S) \/ Contract(s)!Restore(p, S) \/ Contract(s)!Refill(p, S)
            BY <2>1, <3>1, <3>3
               DEF Contract!Clear, Contract!Restore, Contract!Refill, Outcome
        <3> QED BY <3>4 DEF Contract!Next
    <2> QED BY <2>2, <2>3
<1>4. CASE ~\E t \in Services : Serve(p, t)
    <2>1. UNCHANGED <<present, lost, owed>>
        BY <1>4, FixtureKept
    <2>2. CASE Outcome(p, s)' = Outcome(p, s)
        <3>1. out' = out
            BY <1>2, <2>2
        <3> QED BY <1>1, <2>1, <3>1
    <2>3. out' = [out EXCEPT ![p] = Outcome(p, s)']
        BY <1>2
    <2>4. CASE Outcome(p, s) = "idle" /\ Outcome(p, s)' = "active"
        <3>1. Contract(s)!Begin(p)
            BY <2>1, <2>3, <2>4 DEF Contract!Begin, Outcome
        <3> QED BY <3>1 DEF Contract!Next
    <2>5. CASE Outcome(p, s) = "active" /\ Outcome(p, s)' = "failed"
        <3>1. Contract(s)!Fail(p)
            BY <2>1, <2>3, <2>5 DEF Contract!Fail, Outcome
        <3> QED BY <3>1 DEF Contract!Next
    <2>6. CASE /\ Outcome(p, s) = "active" /\ Outcome(p, s)' = "ok"
               /\ owed[s][p] = {} /\ lost[s] = {}
        <3>1. Contract(s)!Succeed(p)
            BY <2>1, <2>3, <2>6 DEF Contract!Succeed, Outcome
        <3> QED BY <3>1 DEF Contract!Next
    <2> QED BY <1>4, <2>2, <2>4, <2>5, <2>6, OutcomeStep
<1> QED BY <1>3, <1>4

\* Visiting several services in one invocation implements FixtureContract for each
\* of them: what exit statuses promise of one service is promised of all.
THEOREM RefinesHolds == Spec => Refines
<1>1. Init => \A s \in Services : Contract(s)!Init
    BY InitRefines
<1>2. IInv /\ [Next]_vars =>
          [\A s \in Services : UNCHANGED Contract(s)!vars \/ Contract(s)!Next]_vars
    <2> SUFFICES ASSUME IInv, Next
                 PROVE  \A s \in Services : UNCHANGED Contract(s)!vars \/ Contract(s)!Next
        OBVIOUS
    <2>1. PICK p \in Runs : Step(p)
        BY DEF Next, Step
    <2> QED BY <2>1, StepRefines
<1> QED BY <1>1, <1>2, InvariantHolds, PTL DEF Spec, Refines

-----------------------------------------------------------------------------
(* FixtureContract by itself, for any state it may be about: what is shown *)
(* here, TestbedCtl and the fixture modules inherit, which implement it.   *)

VARIABLES cPresent, cLost, cOwed, cOutcome

Reset == INSTANCE FixtureContract
    WITH present <- cPresent, lost <- cLost, owed <- cOwed, outcome <- cOutcome

\* The types, the account and what outcomes say of it, as one inductive invariant.
ContractInv == Reset!TypeOK /\ Reset!Accounted /\ Reset!Reports

\* The initial states are accounted for: what is missing is in lost.
LEMMA ContractInit == Reset!Init => ContractInv
BY DEF Reset!Init, ContractInv, Reset!TypeOK, Reset!Accounted, Reset!Reports, Reset!Outcomes

\* Every action keeps the account.
LEMMA ContractNext == ContractInv /\ [Reset!Next]_Reset!vars => ContractInv'
<1> SUFFICES ASSUME ContractInv, [Reset!Next]_Reset!vars PROVE ContractInv'
    OBVIOUS
<1> USE DEF ContractInv, Reset!TypeOK, Reset!Outcomes
<1>1. ASSUME NEW p \in Runs, Reset!Begin(p) PROVE ContractInv'
    BY <1>1 DEF Reset!Begin, Reset!Accounted, Reset!Reports
<1>2. ASSUME NEW p \in Runs, NEW S \in SUBSET Ids, Reset!Clear(p, S)
      PROVE  ContractInv'
    <2>1. Reset!TypeOK'
        BY <1>2 DEF Reset!Clear
    <2>2. Reset!Accounted'
        <3> SUFFICES ASSUME NEW r \in Ids, r \notin cPresent', r \notin cLost'
                     PROVE  \E q \in Runs : r \in cOwed'[q]
            BY DEF Reset!Accounted
        <3>1. CASE r \in cOwed[p] \union S
            BY <3>1, <1>2 DEF Reset!Clear
        <3>2. CASE r \notin cOwed[p] \union S
            BY <3>2, <1>2 DEF Reset!Clear, Reset!Accounted
        <3> QED BY <3>1, <3>2
    <2>3. Reset!Reports'
        BY <1>2 DEF Reset!Clear, Reset!Reports
    <2> QED BY <2>1, <2>2, <2>3
<1>3. ASSUME NEW p \in Runs, NEW S \in SUBSET Ids, Reset!Restore(p, S)
      PROVE  ContractInv'
    <2>1. Reset!TypeOK'
        BY <1>3 DEF Reset!Restore
    <2>2. Reset!Accounted'
        BY <1>3 DEF Reset!Restore, Reset!Accounted
    <2>3. Reset!Reports'
        BY <1>3 DEF Reset!Restore, Reset!Reports
    <2> QED BY <2>1, <2>2, <2>3
<1>4. ASSUME NEW p \in Runs, NEW S \in SUBSET Ids, Reset!Refill(p, S)
      PROVE  ContractInv'
    <2>1. Reset!TypeOK'
        BY <1>4 DEF Reset!Refill
    <2>2. Reset!Accounted'
        BY <1>4 DEF Reset!Refill, Reset!Accounted
    <2>3. Reset!Reports'
        BY <1>4 DEF Reset!Refill, Reset!Reports
    <2> QED BY <2>1, <2>2, <2>3
<1>5. ASSUME NEW p \in Runs, Reset!Succeed(p) PROVE ContractInv'
    BY <1>5 DEF Reset!Succeed, Reset!Accounted, Reset!Reports
<1>6. ASSUME NEW p \in Runs, Reset!Fail(p) PROVE ContractInv'
    BY <1>6 DEF Reset!Fail, Reset!Accounted, Reset!Reports
<1>7. CASE UNCHANGED Reset!vars
    BY <1>7 DEF Reset!vars, Reset!Accounted, Reset!Reports
<1> QED
    BY <1>1, <1>2, <1>3, <1>5, <1>6, <1>7, <1>4 DEF Reset!Next

\* Whatever is missing stays owed by a run, or was missing before any run dealt
\* with it: what clearing and rewriting fixtures record by record (ResetSQL,
\* ResetMongo, ResetLDAP, ResetElasticsearch) must keep, for any runs and records.
THEOREM AccountKept == Reset!Spec => []ContractInv
BY ContractInit, ContractNext, PTL DEF Reset!Spec

\* The account gives the promise: with nothing lost and nobody in debt, no
\* record can be missing.
LEMMA ContractInvSettled == ContractInv => Reset!Settled
BY DEF ContractInv, Reset!TypeOK, Reset!Accounted, Reset!Reports, Reset!Settled

\* However the runs interleave, whatever requests are executed late: once one
\* run has succeeded and no run is unfinished or failed, the fixture is whole.
THEOREM ContractSettled == Reset!Spec => []Reset!Settled
BY AccountKept, ContractInvSettled, PTL

=============================================================================
