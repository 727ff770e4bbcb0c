-------------------- MODULE ElasticsearchFixtureProofs --------------------
(***************************************************************************)
(* Proofs about ElasticsearchFixture, for any runs, records and commands.  *)
(*                                                                         *)
(* The argument.  Three things can be wrong with the index, and each is    *)
(* explained by a reset that has not got far enough: records are not there *)
(* because of one between its DELETE and its bulk request; records are not *)
(* found because of one whose bulk request has not been answered; and the  *)
(* index does not have its strict mapping because of one that has still to *)
(* read mapping and settings back, and which cannot succeed while they are *)
(* not right.  That is Account, and it is why Settled holds although a     *)
(* bulk request may create the index by itself.  A reset that nobody       *)
(* disturbed finds the index as its own requests left it, whenever the     *)
(* refreshes fall (Undisturbed).                                           *)
(***************************************************************************)
EXTENDS ElasticsearchFixture, TLAPS

\* How many of its requests run p has had carried out, if it is a reset.
Did(p) == IF IsReset(p) THEN Executed(p) ELSE 0

Touched == \E p \in Runs : Did(p) >= 1

\* Run p's bulk request has not been answered.
Unseen(p) == Did(p) \in 1 .. 2 \/ (Did(p) = 3 /\ next[p] = 3 /\ wire[p] # "done")

\* How a run's phase and its requests go together.
Shape(p) ==
    /\ phase[p] \in {"idle", "waiting"} => next[p] = 1 /\ wire[p] = "none"
    /\ phase[p] = "ok" => next[p] = Len(Plan(command[p])) + 1 /\ wire[p] = "none"
    /\ wire[p] = "none" => p \notin again
    /\ wire[p] # "none" => next[p] <= Len(Plan(command[p]))
    /\ p \in again => Request(p) \in Changes

Shapes == \A p \in Runs : Shape(p)

\* Who is accountable for what is wrong with the index.
Account ==
    Touched => /\ docs # Ids => \E p \in Runs : Owes(p)
               /\ shown # Ids => \E p \in Runs : Unseen(p)
               /\ index # "strict" => \E p \in Runs : Did(p) \in 1 .. 4

\* The index is as the requests that reset p has had carried out leave it.
Own(p) ==
    /\ Did(p) = 1 => index = "absent"
    /\ Did(p) >= 2 => index = "strict"
    /\ Did(p) >= 3 => docs = Ids
    /\ next[p] >= 4 \/ (next[p] = 3 /\ wire[p] = "done") => shown = Ids

\* A reset that met no fault and no other run has found what it left; only a request
\* sent again may have been refused.
Undisturbed ==
    /\ expired \subseteq faulted
    /\ \A p \in Runs :
          IsReset(p) /\ phase[p] \in Active /\ p \notin faulted \union crossed
             => (wire[p] = "error" => p \in again) /\ Own(p)

IInv == TypeOK /\ Shapes /\ Account /\ Undisturbed /\ Replayable

-----------------------------------------------------------------------------

\* The lengths of the plans.
CommandNames == {"health", "reset", "verify", "check"}
Length(c) == IF c = "health" THEN 0 ELSE IF c = "reset" THEN 5
             ELSE IF c = "verify" THEN 3 ELSE 8

LEMMA PlanLengths ==
    \A c \in CommandNames : Len(Plan(c)) = Length(c) /\ (Plan(c) = << >> <=> c = "health")
<1>1. Plan("health") = << >>
    BY DEF Plan
<1>2. Plan("reset") = <<"delete", "create", "bulk", "mapping", "settings">>
    BY DEF Plan, ResetPlan
<1>3. Plan("verify") = <<"mapping", "settings", "search">>
    BY DEF Plan, VerifyPlan
<1>4. Plan("check") = <<"delete", "create", "bulk", "mapping", "settings">>
                      \o <<"mapping", "settings", "search">>
    BY DEF Plan, ResetPlan, VerifyPlan
<1>5. Plan("check") = <<"delete", "create", "bulk", "mapping", "settings",
                        "mapping", "settings", "search">>
    BY <1>4
<1>6. SUFFICES ASSUME NEW c \in CommandNames
               PROVE  Len(Plan(c)) = Length(c) /\ (Plan(c) = << >> <=> c = "health")
    OBVIOUS
<1>7. CASE c = "health"  BY <1>1, <1>7 DEF Length
<1>8. CASE c = "reset"   BY <1>2, <1>8 DEF Length
<1>9. CASE c = "verify"  BY <1>3, <1>9 DEF Length
<1>10. CASE c = "check"  BY <1>5, <1>10 DEF Length
<1> QED BY <1>7, <1>8, <1>9, <1>10 DEF CommandNames

\* The places of the requests in them.
LEMMA PlanRequests ==
    /\ \A c \in Resets, i \in 1 .. 8 : i <= Len(Plan(c)) =>
          /\ Plan(c)[i] = "delete" <=> i = 1
          /\ Plan(c)[i] = "create" <=> i = 2
          /\ Plan(c)[i] = "bulk" <=> i = 3
          /\ Plan(c)[i] = "search" <=> i = 8
    /\ \A i \in 1 .. 3 : Plan("verify")[i] \notin Changes
<1>1. Plan("reset") = <<"delete", "create", "bulk", "mapping", "settings">>
    BY DEF Plan, ResetPlan
<1>2. Plan("check") = <<"delete", "create", "bulk", "mapping", "settings">>
                      \o <<"mapping", "settings", "search">>
    BY DEF Plan, ResetPlan, VerifyPlan
<1>3. Plan("check") = <<"delete", "create", "bulk", "mapping", "settings",
                        "mapping", "settings", "search">>
    BY <1>2
<1>4. ASSUME NEW c \in Resets, NEW i \in 1 .. 8, i <= Len(Plan(c))
      PROVE  /\ Plan(c)[i] = "delete" <=> i = 1
             /\ Plan(c)[i] = "create" <=> i = 2
             /\ Plan(c)[i] = "bulk" <=> i = 3
             /\ Plan(c)[i] = "search" <=> i = 8
    <2>1. CASE c = "reset"
        BY <1>1, <1>4, <2>1
    <2>2. CASE c = "check"
        BY <1>3, <2>2
    <2> QED BY <2>1, <2>2 DEF Resets
<1>5. \A i \in 1 .. 3 : Plan("verify")[i] \notin Changes
    BY DEF Changes, Plan, VerifyPlan
<1> QED BY <1>4, <1>5

\* What the request of a run can be, by its command and its place.
LEMMA RequestFacts ==
    ASSUME NEW p \in Runs, command[p] \in {"health", "reset", "verify", "check"},
           next[p] \in 1 .. Len(Plan(command[p]))
    PROVE  /\ command[p] # "health" /\ next[p] \in 1 .. 8
           /\ command[p] \in Resets =>
                 /\ Request(p) = "delete" <=> next[p] = 1
                 /\ Request(p) = "create" <=> next[p] = 2
                 /\ Request(p) = "bulk" <=> next[p] = 3
                 /\ Request(p) \notin Changes <=> next[p] >= 4
                 /\ Request(p) = "search" <=> next[p] = 8
           /\ command[p] \notin Resets => Request(p) \notin Changes
<1> DEFINE c == command[p]
           i == next[p]
<1>1. c # "health" /\ i \in 1 .. 8 /\ i <= Len(Plan(c))
    <2>1. Len(Plan(c)) = Length(c)
        BY PlanLengths DEF CommandNames
    <2>2. i \in 1 .. Length(c)
        BY <2>1
    <2> QED BY <2>1, <2>2 DEF Length
<1>2. CASE c \in Resets
    <2>1. /\ Plan(c)[i] = "delete" <=> i = 1
          /\ Plan(c)[i] = "create" <=> i = 2
          /\ Plan(c)[i] = "bulk" <=> i = 3
          /\ Plan(c)[i] = "search" <=> i = 8
        BY <1>1, <1>2, PlanRequests
    <2>2. Plan(c)[i] \notin Changes <=> i >= 4
        BY <1>1, <2>1 DEF Changes
    <2> QED BY <1>1, <1>2, <2>1, <2>2 DEF Request
<1>3. CASE c \notin Resets
    <2>1. c = "verify"
        BY <1>1, <1>3 DEF Resets
    <2>2. i \in 1 .. 3
        BY <2>1, PlanLengths DEF CommandNames, Length
    <2> QED BY <1>1, <1>3, <2>1, <2>2, PlanRequests DEF Request
<1> QED BY <1>2, <1>3

\* The length of a run's plan is a number.
LEMMA PlanLength ==
    ASSUME TypeOK, NEW p \in Runs
    PROVE  /\ command[p] \in CommandNames
           /\ Len(Plan(command[p])) = Length(command[p])
           /\ Length(command[p]) \in 0 .. 8
           /\ Length(command[p]) = 0 <=> command[p] = "health"
           /\ Plan(command[p]) = << >> <=> command[p] = "health"
           /\ command[p] \in Resets => Length(command[p]) \in {5, 8}
<1>1. command[p] \in CommandNames
    BY DEF TypeOK, CommandNames
<1>2. /\ Len(Plan(command[p])) = Length(command[p])
      /\ Plan(command[p]) = << >> <=> command[p] = "health"
    BY <1>1, PlanLengths
<1>3. /\ Length(command[p]) \in 0 .. 8
      /\ Length(command[p]) = 0 <=> command[p] = "health"
      /\ command[p] \in Resets => Length(command[p]) \in {5, 8}
    BY <1>1 DEF CommandNames, Length, Resets
<1> QED BY <1>1, <1>2, <1>3

\* The initial states satisfy the invariant: no request has been carried out.
LEMMA InitIInv == Init => IInv
<1> SUFFICES ASSUME Init PROVE IInv
    OBVIOUS
<1>1. \A p \in Runs : /\ command[p] = "health" /\ next[p] = 1 /\ wire[p] = "none"
                      /\ phase[p] = "idle" /\ p \notin again
    BY DEF Init
<1>2. \A p \in Runs : next[p] \in 1 .. Len(Plan(command[p])) + 1
    <2> SUFFICES ASSUME NEW p \in Runs PROVE next[p] \in 1 .. Len(Plan(command[p])) + 1
        OBVIOUS
    <2>1. command[p] \in CommandNames /\ Length(command[p]) = 0
        BY <1>1 DEF CommandNames, Length
    <2>2. Len(Plan(command[p])) = 0
        BY <2>1, PlanLengths
    <2> QED BY <1>1, <2>2
<1>3. TypeOK
    BY <1>1, <1>2 DEF Init, TypeOK, Phases, Wire
<1>4. Shapes
    BY <1>1 DEF Shapes, Shape
<1>5. \A p \in Runs : Did(p) = 0 /\ ~IsReset(p)
    BY <1>1 DEF Did, IsReset
<1>6. Account
    BY <1>5 DEF Account, Touched
<1>7. Undisturbed /\ Replayable
    BY <1>5 DEF Init, Undisturbed, Replayable
<1> QED BY <1>3, <1>4, <1>6, <1>7 DEF IInv

-----------------------------------------------------------------------------

\* Every action keeps the types.
LEMMA NextTypeOK ==
    ASSUME TypeOK, Shapes, [Next]_vars PROVE TypeOK'
<1> USE DEF TypeOK, Phases, Wire, serverVars, historyVars
<1>1. ASSUME NEW p \in Runs, Start(p) PROVE TypeOK'
    <2>1. PICK c \in Commands : command' = [command EXCEPT ![p] = c]
        BY <1>1 DEF Start
    <2>2. c \in CommandNames
        BY CommandsAssumption DEF CommandNames
    <2>3. 1 \in 1 .. Len(Plan(c)) + 1
        BY <2>2, PlanLengths DEF Length
    <2>4. next[p] = 1 /\ wire[p] = "none"
        BY <1>1 DEF Start, Shapes, Shape
    <2>5. \A q \in Runs : next'[q] \in 1 .. Len(Plan(command'[q])) + 1
        BY <1>1, <2>1, <2>3, <2>4 DEF Start
    <2> QED BY <1>1, <2>1, <2>2, <2>4, <2>5 DEF Start, CommandNames, Request
<1>2. ASSUME NEW p \in Runs, Ready(p) PROVE TypeOK'
    <2>1. Plan(command[p]) # << >> => 1 <= Len(Plan(command[p]))
        BY PlanLength DEF Length
    <2>2. next[p] = 1
        BY <1>2 DEF Ready, Shapes, Shape
    <2>3. CASE Dispatch(p)
        <3>1. phase' \in [Runs -> Phases]
            BY <2>3 DEF Dispatch
        <3>2. ASSUME NEW q \in Runs, phase'[q] = "working"
              PROVE  next'[q] <= Len(Plan(command'[q]))
            BY <1>2, <2>1, <2>2, <2>3, <3>2 DEF Ready, Dispatch
        <3>3. UNCHANGED <<index, docs, shown, command, next, wire, again, expired, faulted, crossed>>
            BY <1>2, <2>3 DEF Ready, Dispatch
        <3>4. \A q \in Runs : wire'[q] = "written" => Request(q)' = "bulk"
            BY <3>3 DEF Request
        <3>5. \A q \in Runs : next'[q] \in 1 .. Len(Plan(command'[q])) + 1
            BY <3>3
        <3> QED BY <3>1, <3>2, <3>3, <3>4, <3>5
    <2>4. CASE Unsupported(p)
        BY <1>2, <2>2, <2>4 DEF Ready, Unsupported, Request
    <2> QED BY <1>2, <2>3, <2>4 DEF Ready
<1>3. ASSUME NEW p \in Runs, Send(p) PROVE TypeOK'
    BY <1>3 DEF Send, Request
<1>4. ASSUME NEW p \in Runs, Answer(p) PROVE TypeOK'
    <2>1. CASE wire[p] = "error"
        BY <1>4, <2>1 DEF Answer, Request
    <2>2. CASE wire[p] = "done"
        <3> DEFINE n == Len(Plan(command[p]))
        <3>1. n \in Nat /\ next[p] \in 1 .. n
            BY <1>4, PlanLength DEF Answer
        <3>2. /\ UNCHANGED <<serverVars, command, expired, historyVars>>
              /\ wire' = [wire EXCEPT ![p] = "none"]
              /\ next' = [next EXCEPT ![p] = @ + 1]
              /\ phase' = [phase EXCEPT ![p] = IF next[p] = n THEN "ok" ELSE @]
              /\ again' = again \ {p} /\ phase[p] = "working"
            BY <1>4, <2>2 DEF Answer
        <3> HIDE DEF n
        <3>3. /\ next[p] + 1 \in 1 .. n + 1 /\ (next[p] # n => next[p] + 1 <= n)
            BY <3>1
        <3>4. \A q \in Runs :
                  /\ next'[q] \in 1 .. Len(Plan(command'[q])) + 1
                  /\ phase'[q] = "working" => next'[q] <= Len(Plan(command'[q]))
                  /\ wire'[q] = "written" => Request(q)' = "bulk"
            BY <3>2, <3>3 DEF n, Request
        <3> QED BY <3>2, <3>4
    <2> QED BY <1>4, <2>1, <2>2 DEF Answer
<1>5. ASSUME NEW p \in Runs, ExecuteDelete(p) PROVE TypeOK'
    BY <1>5 DEF ExecuteDelete, Between, Request
<1>6. ASSUME NEW p \in Runs, ExecuteCreate(p) PROVE TypeOK'
    BY <1>6 DEF ExecuteCreate, Between, Request
<1>7. ASSUME NEW p \in Runs, ExecuteBulk(p) PROVE TypeOK'
    BY <1>7 DEF ExecuteBulk, Between, Request
<1>8. ASSUME NEW p \in Runs, RejectBulk(p) PROVE TypeOK'
    BY <1>8 DEF RejectBulk, Between, Request
<1>9. ASSUME NEW p \in Runs, ExecuteRead(p) PROVE TypeOK'
    BY <1>9 DEF ExecuteRead, Request
<1>10. ASSUME NEW p \in Runs, Lose(p) PROVE TypeOK'
    BY <1>10 DEF Lose, Request
<1>11. ASSUME NEW p \in Runs, Resend(p) PROVE TypeOK'
    BY <1>11 DEF Resend, Request
<1>12. ASSUME NEW p \in Runs, Expire(p) PROVE TypeOK'
    BY <1>12 DEF Expire, Request
<1>13. ASSUME NEW p \in Runs, GiveUp(p) PROVE TypeOK'
    BY <1>13 DEF GiveUp, Request
<1>14. ASSUME NEW p \in Runs, Break(p) PROVE TypeOK'
    BY <1>14 DEF Break, Request
<1>15. ASSUME Refresh PROVE TypeOK'
    BY <1>15 DEF Refresh, Request
<1>16. CASE UNCHANGED vars
    BY <1>16 DEF vars, Request
<1> QED
    BY <1>1, <1>2, <1>3, <1>4, <1>5, <1>6, <1>7, <1>8, <1>9, <1>10, <1>11, <1>12, <1>13,
       <1>14, <1>15, <1>16 DEF Next

\* Every action keeps a run's phase in step with its requests.
LEMMA NextShapes ==
    ASSUME TypeOK, Shapes, [Next]_vars PROVE Shapes'
<1> USE DEF Shapes, Shape, TypeOK, Phases, Wire, Request, Changes, historyVars
<1>1. ASSUME NEW p \in Runs, Start(p) PROVE Shapes'
    BY <1>1 DEF Start
<1>2. ASSUME NEW p \in Runs, Ready(p) PROVE Shapes'
    <2>1. Plan(command[p]) = << >> => Len(Plan(command[p])) = 0
        BY PlanLength
    <2>2. next[p] = 1 /\ wire[p] = "none"
        BY <1>2 DEF Ready
    <2> QED BY <1>2, <2>1, <2>2 DEF Ready, Dispatch, Unsupported
<1>3. ASSUME NEW p \in Runs, Send(p) PROVE Shapes'
    BY <1>3 DEF Send
<1>4. ASSUME NEW p \in Runs, Answer(p) PROVE Shapes'
    <2>1. CASE wire[p] = "error"
        BY <1>4, <2>1 DEF Answer
    <2>2. CASE wire[p] = "done"
        <3> DEFINE n == Len(Plan(command[p]))
        <3>1. n \in Nat /\ next[p] \in 1 .. n
            BY <1>4, PlanLength DEF Answer
        <3>2. /\ command' = command
              /\ wire' = [wire EXCEPT ![p] = "none"]
              /\ next' = [next EXCEPT ![p] = @ + 1]
              /\ phase' = [phase EXCEPT ![p] = IF next[p] = n THEN "ok" ELSE @]
              /\ again' = again \ {p} /\ phase[p] = "working"
            BY <1>4, <2>2 DEF Answer
        <3> HIDE DEF n
        <3>3. /\ wire'[p] = "none" /\ next'[p] = next[p] + 1 /\ p \notin again'
              /\ phase'[p] = IF next[p] = n THEN "ok" ELSE "working"
            BY <3>2
        <3>4. Len(Plan(command'[p])) = n
            BY <3>2 DEF n
        <3>5. Shape(p)'
            BY <3>1, <3>3, <3>4
        <3>6. \A q \in Runs : q # p => Shape(q)'
            BY <3>2
        <3> QED BY <3>5, <3>6
    <2> QED BY <1>4, <2>1, <2>2 DEF Answer
<1>5. ASSUME NEW p \in Runs, ExecuteDelete(p) PROVE Shapes'
    BY <1>5 DEF ExecuteDelete
<1>6. ASSUME NEW p \in Runs, ExecuteCreate(p) PROVE Shapes'
    BY <1>6 DEF ExecuteCreate
<1>7. ASSUME NEW p \in Runs, ExecuteBulk(p) PROVE Shapes'
    BY <1>7 DEF ExecuteBulk
<1>8. ASSUME NEW p \in Runs, RejectBulk(p) PROVE Shapes'
    BY <1>8 DEF RejectBulk
<1>9. ASSUME NEW p \in Runs, ExecuteRead(p) PROVE Shapes'
    BY <1>9 DEF ExecuteRead
<1>10. ASSUME NEW p \in Runs, Lose(p) PROVE Shapes'
    BY <1>10 DEF Lose
<1>11. ASSUME NEW p \in Runs, Resend(p) PROVE Shapes'
    BY <1>11 DEF Resend
<1>12. ASSUME NEW p \in Runs, Expire(p) PROVE Shapes'
    BY <1>12 DEF Expire
<1>13. ASSUME NEW p \in Runs, GiveUp(p) PROVE Shapes'
    BY <1>13 DEF GiveUp
<1>14. ASSUME NEW p \in Runs, Break(p) PROVE Shapes'
    BY <1>14 DEF Break
<1>15. ASSUME Refresh PROVE Shapes'
    BY <1>15 DEF Refresh
<1>16. CASE UNCHANGED vars
    BY <1>16 DEF vars
<1> QED
    BY <1>1, <1>2, <1>3, <1>4, <1>5, <1>6, <1>7, <1>8, <1>9, <1>10, <1>11, <1>12, <1>13,
       <1>14, <1>15, <1>16 DEF Next

-----------------------------------------------------------------------------

\* Owing is having carried out the DELETE but not the bulk request.
LEMMA OwesDid ==
    ASSUME NEW p \in Runs PROVE Owes(p) <=> Did(p) \in 1 .. 2
BY DEF Owes, Did

\* A run with a request under way: where it is, and how far it has got.
LEMMA UnderWay ==
    ASSUME TypeOK, Shapes, NEW p \in Runs, wire[p] # "none"
    PROVE  /\ phase[p] \in {"working", "failed"} /\ next[p] \in 1 .. 8
           /\ IsReset(p) <=> command[p] \in Resets
           /\ IsReset(p) => /\ Request(p) = "delete" <=> next[p] = 1
                            /\ Request(p) = "create" <=> next[p] = 2
                            /\ Request(p) = "bulk" <=> next[p] = 3
                            /\ Request(p) \notin Changes <=> next[p] >= 4
                            /\ Request(p) = "search" <=> next[p] = 8
           /\ Request(p) \in Changes => IsReset(p)
<1>1. phase[p] \in {"working", "failed"}
    BY DEF TypeOK, Shapes, Shape, Phases
<1>2. IsReset(p) <=> command[p] \in Resets
    BY <1>1 DEF IsReset
<1>3. next[p] \in 1 .. Len(Plan(command[p]))
    <2>1. Len(Plan(command[p])) \in Nat
        BY PlanLength
    <2>2. next[p] <= Len(Plan(command[p])) /\ next[p] \in 1 .. Len(Plan(command[p])) + 1
        BY DEF TypeOK, Shapes, Shape
    <2> QED BY <2>1, <2>2
<1>4. command[p] \in {"health", "reset", "verify", "check"}
    BY DEF TypeOK
<1> QED BY <1>1, <1>2, <1>3, <1>4, RequestFacts

-----------------------------------------------------------------------------

\* The actions of a run and its environment that the server has no part in.
Other(p) ==
    \/ Start(p) \/ Ready(p) \/ Send(p) \/ Answer(p) \/ Lose(p) \/ Resend(p)
    \/ Expire(p) \/ GiveUp(p) \/ Break(p)

\* What they leave alone.
Quiet ==
    /\ UNCHANGED serverVars /\ crossed' = crossed
    /\ \A q \in Runs : Did(q)' = Did(q) /\ (Unseen(q) => Unseen(q)')

\* A run's place in its plan is all that counts.
LEMMA OthersKeep ==
    ASSUME NEW q \in Runs, command'[q] = command[q], phase'[q] = phase[q],
           next'[q] = next[q], wire'[q] = wire[q], q \in again' <=> q \in again
    PROVE  /\ Did(q)' = Did(q) /\ Unseen(q)' = Unseen(q) /\ IsReset(q)' = IsReset(q)
           /\ Own(q) /\ UNCHANGED serverVars => Own(q)'
BY DEF Did, Unseen, IsReset, Executed, Own, serverVars

\* Sending a request, sending it again and losing it, and its answer, do not change
\* what has been carried out.
LEMMA OtherQuiet ==
    ASSUME TypeOK, Shapes, NEW p \in Runs, Other(p)
    PROVE  /\ Quiet
           /\ \A q \in Runs : q # p => /\ command'[q] = command[q] /\ phase'[q] = phase[q]
                                       /\ next'[q] = next[q] /\ wire'[q] = wire[q]
                                       /\ q \in again' <=> q \in again
<1>1. UNCHANGED serverVars /\ crossed' = crossed
    BY DEF Other, Start, Ready, Dispatch, Unsupported, Send, Answer, Lose, Resend, Expire,
           GiveUp, Break, historyVars
<1>2. \A q \in Runs : q # p => /\ command'[q] = command[q] /\ phase'[q] = phase[q]
                               /\ next'[q] = next[q] /\ wire'[q] = wire[q]
                               /\ q \in again' <=> q \in again
    BY DEF Other, Start, Ready, Dispatch, Unsupported, Send, Answer, Lose, Resend, Expire,
           GiveUp, Break, TypeOK
<1>3. \A q \in Runs : q # p => Did(q)' = Did(q) /\ (Unseen(q) => Unseen(q)')
    BY <1>2, OthersKeep
<1>4. next[p] \in Nat
    BY DEF TypeOK
<1>5. Did(p)' = Did(p) /\ (Unseen(p) => Unseen(p)')
    <2>1. CASE Start(p)
        <3>1. /\ next'[p] = 1 /\ wire'[p] = "none" /\ p \notin again' /\ ~IsReset(p)
            BY <2>1 DEF Start, Shapes, Shape, IsReset
        <3> QED BY <3>1 DEF Did, Unseen, Executed
    <2>2. CASE Ready(p) \/ Expire(p) \/ GiveUp(p) \/ Break(p)
        <3>1. UNCHANGED <<command, next, wire, again>> /\ (IsReset(p)' <=> IsReset(p))
            BY <2>2 DEF Ready, Dispatch, Unsupported, Expire, GiveUp, Break, IsReset, Active,
                        TypeOK
        <3> QED BY <3>1 DEF Did, Unseen, Executed
    <2>3. CASE Send(p)
        <3>1. /\ UNCHANGED <<command, phase, next, again>> /\ wire[p] = "none"
              /\ wire'[p] = "sent" /\ p \notin again
            BY <2>3 DEF Send, TypeOK, Shapes, Shape
        <3> QED BY <3>1 DEF Did, Unseen, Executed, IsReset
    <2>4. CASE Lose(p)
        <3>1. /\ UNCHANGED <<command, phase, next, again>> /\ wire[p] = "sent"
              /\ wire'[p] = "error"
            BY <2>4 DEF Lose, TypeOK
        <3> QED BY <3>1 DEF Did, Unseen, Executed, IsReset
    <2>5. CASE Resend(p)
        <3>1. /\ UNCHANGED <<command, phase, next>> /\ wire[p] \in {"written", "done"}
              /\ wire'[p] = "sent" /\ p \in again'
            BY <2>5 DEF Resend, TypeOK
        <3> QED BY <3>1 DEF Did, Unseen, Executed, IsReset
    <2>6. CASE Answer(p) /\ wire[p] = "error"
        <3>1. /\ UNCHANGED <<command, next, wire, again>>
              /\ phase[p] = "working" /\ phase'[p] = "failed"
            BY <2>6 DEF Answer, TypeOK
        <3> QED BY <3>1 DEF Did, Unseen, Executed, IsReset
    <2>7. CASE Answer(p) /\ wire[p] = "done"
        <3>1. /\ command' = command /\ phase[p] = "working" /\ phase'[p] # "idle"
              /\ next'[p] = next[p] + 1 /\ wire'[p] = "none" /\ p \notin again'
            BY <2>7 DEF Answer, TypeOK
        <3>2. Did(p)' = Did(p)
            BY <1>4, <2>7, <3>1 DEF Did, Executed, IsReset
        <3>3. Unseen(p) => Did(p) \in 1 .. 2
            BY <2>7 DEF Unseen
        <3> QED BY <3>2, <3>3 DEF Unseen
    <2> QED BY <2>1, <2>2, <2>3, <2>4, <2>5, <2>6, <2>7 DEF Other, Answer
<1> QED BY <1>1, <1>2, <1>3, <1>5 DEF Quiet

-----------------------------------------------------------------------------

\* A carried out DELETE leaves no index and takes its run back to the beginning.
LEMMA DeleteEffect ==
    ASSUME TypeOK, Shapes, NEW p \in Runs, ExecuteDelete(p)
    PROVE  /\ IsReset(p) /\ next[p] = 1 /\ Did(p)' = 1 /\ wire'[p] = "done"
           /\ index' = "absent" /\ docs' = {} /\ shown' = {}
           /\ \A q \in Runs \ {p} : /\ Did(q)' = Did(q)
                                    /\ wire'[q] = wire[q] \/ wire[q] = "written"
<1>1. IsReset(p) /\ next[p] = 1
    <2>1. wire[p] # "none" /\ Request(p) = "delete" /\ Request(p) \in Changes
        BY DEF ExecuteDelete, Changes
    <2> QED BY <2>1, UnderWay
<1>2. /\ UNCHANGED <<command, phase, next, again>> /\ wire'[p] = "done"
      /\ \A q \in Runs \ {p} : wire'[q] = IF wire[q] = "written" THEN "done" ELSE wire[q]
    BY DEF ExecuteDelete
<1>3. \A q \in Runs \ {p} : Did(q)' = Did(q)
    BY <1>2 DEF Did, IsReset, Executed
<1>4. Did(p)' = 1
    BY <1>1, <1>2 DEF Did, IsReset, Executed
<1> QED BY <1>1, <1>2, <1>3, <1>4 DEF ExecuteDelete

\* A create makes the strict index, or is refused because there is an index.
LEMMA CreateEffect ==
    ASSUME TypeOK, Shapes, NEW p \in Runs, ExecuteCreate(p)
    PROVE  /\ IsReset(p) /\ next[p] = 2 /\ next' = next /\ Did(p) \in 1 .. 2
           /\ Did(p) = 2 <=> p \in again
           /\ docs' = docs /\ shown' = shown
           /\ \/ index = "absent" /\ index' = "strict" /\ Did(p)' = 2 /\ wire'[p] = "done"
              \/ index # "absent" /\ index' = index /\ Did(p)' = Did(p) /\ wire'[p] = "error"
           /\ \A q \in Runs \ {p} : Did(q)' = Did(q) /\ wire'[q] = wire[q]
<1>1. IsReset(p) /\ next[p] = 2
    <2>1. wire[p] # "none" /\ Request(p) = "create" /\ Request(p) \in Changes
        BY DEF ExecuteCreate, Changes
    <2> QED BY <2>1, UnderWay
<1>2. /\ UNCHANGED <<command, phase, next, again>> /\ wire[p] = "sent"
      /\ wire'[p] = (IF index = "absent" THEN "done" ELSE "error")
      /\ \A q \in Runs \ {p} : wire'[q] = wire[q]
    BY DEF ExecuteCreate, TypeOK
<1>3. \A q \in Runs \ {p} : Did(q)' = Did(q)
    BY <1>2 DEF Did, IsReset, Executed
<1>4. /\ Did(p) = (IF p \in again THEN 2 ELSE 1)
      /\ index = "absent" => Did(p)' = 2
      /\ index # "absent" => Did(p)' = Did(p)
    BY <1>1, <1>2 DEF Did, IsReset, Executed
<1> QED BY <1>1, <1>2, <1>3, <1>4 DEF ExecuteCreate

\* A bulk request that is applied leaves every record, and waits for the refresh.
LEMMA BulkEffect ==
    ASSUME TypeOK, Shapes, NEW p \in Runs, ExecuteBulk(p)
    PROVE  /\ IsReset(p) /\ next[p] = 3 /\ next' = next /\ Did(p) \in 2 .. 3 /\ Did(p)' = 3
           /\ docs' = Ids /\ shown' = shown /\ wire'[p] = "written"
           /\ index' = IF index = "absent" THEN "dynamic" ELSE index
           /\ \A q \in Runs \ {p} : Did(q)' = Did(q) /\ wire'[q] = wire[q]
<1>1. IsReset(p) /\ next[p] = 3
    <2>1. wire[p] # "none" /\ Request(p) = "bulk" /\ Request(p) \in Changes
        BY DEF ExecuteBulk, Changes
    <2> QED BY <2>1, UnderWay
<1>2. /\ UNCHANGED <<command, phase, next, again>> /\ wire[p] = "sent"
      /\ wire'[p] = "written"
      /\ \A q \in Runs \ {p} : wire'[q] = wire[q]
    BY DEF ExecuteBulk, TypeOK
<1>3. \A q \in Runs \ {p} : Did(q)' = Did(q)
    BY <1>2 DEF Did, IsReset, Executed
<1>4. Did(p) \in 2 .. 3 /\ Did(p)' = 3
    BY <1>1, <1>2 DEF Did, IsReset, Executed
<1> QED BY <1>1, <1>2, <1>3, <1>4 DEF ExecuteBulk

\* One that is partly refused adds records and has not been carried out.
LEMMA RejectEffect ==
    ASSUME TypeOK, Shapes, NEW p \in Runs, RejectBulk(p)
    PROVE  /\ IsReset(p) /\ next[p] = 3 /\ next' = next /\ Did(p) \in 2 .. 3
           /\ \E S \in SUBSET Ids : docs' = docs \union S
           /\ shown' = shown /\ wire'[p] = "error"
           /\ index' = IF index = "absent" THEN "dynamic" ELSE index
           /\ Did(p)' = Did(p)
           /\ \A q \in Runs \ {p} : Did(q)' = Did(q) /\ wire'[q] = wire[q]
<1>1. IsReset(p) /\ next[p] = 3
    <2>1. wire[p] # "none" /\ Request(p) = "bulk" /\ Request(p) \in Changes
        BY DEF RejectBulk, Changes
    <2> QED BY <2>1, UnderWay
<1>2. /\ UNCHANGED <<command, phase, next, again>> /\ wire[p] = "sent"
      /\ wire'[p] = "error"
      /\ \A q \in Runs \ {p} : wire'[q] = wire[q]
    BY DEF RejectBulk, TypeOK
<1>3. \A q \in Runs \ {p} : Did(q)' = Did(q)
    BY <1>2 DEF Did, IsReset, Executed
<1>4. Did(p) \in 2 .. 3 /\ Did(p)' = Did(p)
    BY <1>1, <1>2 DEF Did, IsReset, Executed
<1> QED BY <1>1, <1>2, <1>3, <1>4 DEF RejectBulk

\* A read is accepted, and counts as carried out, or refused; the contract check is
\* accepted only if the mapping is the strict one.
LEMMA ReadEffect ==
    ASSUME TypeOK, Shapes, NEW p \in Runs, ExecuteRead(p)
    PROVE  /\ UNCHANGED serverVars /\ next' = next /\ p \notin again
           /\ Did(p) \in Nat
           /\ IsReset(p) => next[p] >= 4 /\ Did(p) >= 3
           /\ ~IsReset(p) => Did(p) = 0
           /\ \/ Did(p)' = Did(p)
              \/ Did(p)' = Did(p) + 1 /\ Did(p) >= 3 /\ (Did(p) <= 4 => index = "strict")
           /\ wire'[p] = "done" \/ (wire'[p] = "error" /\ ~(index = "strict" /\ shown = Ids))
           /\ \A q \in Runs \ {p} : Did(q)' = Did(q) /\ wire'[q] = wire[q]
<1>1. /\ wire[p] = "sent" /\ Request(p) \notin Changes
      /\ wire'[p] = IF (IF Request(p) = "search" THEN Matches ELSE ContractHolds)
                    THEN "done" ELSE "error"
      /\ \A q \in Runs \ {p} : wire'[q] = wire[q]
      /\ UNCHANGED <<serverVars, command, phase, next, again>>
    BY DEF ExecuteRead, TypeOK
<1>2. p \notin again
    BY <1>1 DEF Shapes, Shape
<1>3. /\ next[p] \in 1 .. 8
      /\ IsReset(p) => next[p] >= 4 /\ (Request(p) = "search" <=> next[p] = 8)
    BY <1>1, UnderWay
<1>4. \A q \in Runs \ {p} : Did(q)' = Did(q)
    BY <1>1 DEF Did, IsReset, Executed
<1>5. /\ IsReset(p)' <=> IsReset(p)
      /\ Did(p) = IF IsReset(p) THEN next[p] - 1 ELSE 0
      /\ Did(p)' = IF IsReset(p) THEN (IF wire'[p] = "done" THEN next[p] ELSE next[p] - 1) ELSE 0
    BY <1>1, <1>2 DEF Did, IsReset, Executed
<1>6. \/ Did(p)' = Did(p)
      \/ Did(p)' = Did(p) + 1 /\ Did(p) >= 3 /\ (Did(p) <= 4 => index = "strict")
    BY <1>1, <1>3, <1>5 DEF ContractHolds
<1>7. wire'[p] = "done" \/ (wire'[p] = "error" /\ ~(index = "strict" /\ shown = Ids))
    BY <1>1 DEF Matches, ContractHolds
<1>8. /\ Did(p) \in Nat
      /\ IsReset(p) => next[p] >= 4 /\ Did(p) >= 3
      /\ ~IsReset(p) => Did(p) = 0
    BY <1>3, <1>5
<1> QED BY <1>1, <1>2, <1>4, <1>6, <1>7, <1>8

\* A refresh answers the waiting bulk requests.
LEMMA RefreshEffect ==
    ASSUME TypeOK, Shapes, Refresh
    PROVE  /\ index' = index /\ docs' = docs /\ shown' = docs /\ next' = next
           /\ \A q \in Runs : /\ Did(q)' = Did(q)
                              /\ wire'[q] = wire[q] \/ (wire[q] = "written" /\ wire'[q] = "done")
<1>1. /\ UNCHANGED <<index, docs, command, phase, next, again>> /\ shown' = docs
      /\ \A q \in Runs : wire'[q] = IF wire[q] = "written" THEN "done" ELSE wire[q]
    BY DEF Refresh
<1>2. \A q \in Runs : Did(q)' = Did(q)
    BY <1>1 DEF Did, IsReset, Executed
<1> QED BY <1>1, <1>2

-----------------------------------------------------------------------------

\* Every action keeps the account.
LEMMA NextAccount ==
    ASSUME TypeOK, TypeOK', Shapes, Account, [Next]_vars PROVE Account'
<1> USE DEF Account, Touched
<1>0. \A p \in Runs : (Owes(p) <=> Did(p) \in 1 .. 2) /\ (Owes(p)' <=> Did(p)' \in 1 .. 2)
    BY OwesDid DEF Owes, Did, IsReset, Executed
<1> USE <1>0
<1>1. ASSUME NEW p \in Runs, Other(p) PROVE Account'
    <2>1. Quiet
        BY <1>1, OtherQuiet
    <2> QED BY <2>1 DEF Quiet, serverVars
<1>2. ASSUME NEW p \in Runs, ExecuteDelete(p) PROVE Account'
    <2>1. Did(p)' = 1
        BY <1>2, DeleteEffect
    <2> QED BY <2>1 DEF Unseen
<1>3. ASSUME NEW p \in Runs, ExecuteCreate(p) PROVE Account'
    <2>1. Did(p)' \in 1 .. 2
        BY <1>3, CreateEffect
    <2> QED BY <2>1 DEF Unseen
<1>4. ASSUME NEW p \in Runs, ExecuteBulk(p) PROVE Account'
    <2>1. docs' = Ids /\ Did(p)' = 3 /\ next'[p] = 3 /\ wire'[p] # "done"
        BY <1>4, BulkEffect
    <2> QED BY <2>1 DEF Unseen
<1>5. ASSUME NEW p \in Runs, RejectBulk(p) PROVE Account'
    <2>1. /\ Did(p) \in 2 .. 3 /\ next'[p] = 3 /\ wire'[p] # "done"
          /\ \E S \in SUBSET Ids : docs' = docs \union S
          /\ \A q \in Runs : Did(q)' = Did(q)
        BY <1>5, RejectEffect
    <2>2. docs' # Ids => docs # Ids
        BY <2>1 DEF TypeOK
    <2>3. Unseen(p)' /\ Did(p)' \in 1 .. 4 /\ Touched
        BY <2>1 DEF Unseen
    <2> QED BY <2>1, <2>2, <2>3
<1>6. ASSUME NEW p \in Runs, ExecuteRead(p) PROVE Account'
    <2>1. /\ UNCHANGED serverVars
          /\ \/ Did(p)' = Did(p)
             \/ Did(p)' = Did(p) + 1 /\ Did(p) >= 3 /\ (Did(p) <= 4 => index = "strict")
          /\ next' = next
          /\ \A q \in Runs \ {p} : Did(q)' = Did(q) /\ wire'[q] = wire[q]
        BY <1>6, ReadEffect
    <2>2. /\ Did(p) \in Nat
          /\ IsReset(p) => next[p] >= 4 /\ Did(p) >= 3
          /\ ~IsReset(p) => Did(p) = 0
        BY <1>6, ReadEffect
    <2>3. ~Unseen(p)
        <3>1. Did(p) \notin 1 .. 2 /\ (Did(p) = 3 => next[p] # 3)
            <4>1. CASE IsReset(p)
                BY <2>2, <4>1
            <4>2. CASE ~IsReset(p)
                BY <2>2, <4>2
            <4> QED BY <4>1, <4>2
        <3> QED BY <3>1 DEF Unseen
    <2>4. Touched' => Touched
        <3>1. ASSUME NEW q \in Runs, Did(q)' >= 1
              PROVE  Did(q) >= 1
            <4>1. CASE q = p
                BY <2>1, <2>2, <3>1, <4>1
            <4>2. CASE q # p
                BY <2>1, <3>1, <4>2
            <4> QED BY <4>1, <4>2
        <3> QED BY <3>1 DEF Touched
    <2>5. \A q \in Runs : (Owes(q) => Owes(q)') /\ (Unseen(q) => Unseen(q)')
        BY <2>1, <2>2, <2>3 DEF Unseen
    <2>6. index # "strict" /\ (\E q \in Runs : Did(q) \in 1 .. 4)
             => \E q \in Runs : Did(q)' \in 1 .. 4
        BY <2>1, <2>2
    <2> QED BY <2>1, <2>4, <2>5, <2>6 DEF serverVars
<1>7. ASSUME Refresh PROVE Account'
    <2>1. /\ index' = index /\ docs' = docs /\ shown' = docs
          /\ \A q \in Runs : Did(q)' = Did(q)
        BY <1>7, RefreshEffect
    <2> QED BY <2>1 DEF Unseen
<1>8. CASE UNCHANGED vars
    BY <1>8 DEF vars, Did, IsReset, Executed, Unseen
<1> QED BY <1>1, <1>2, <1>3, <1>4, <1>5, <1>6, <1>7, <1>8 DEF Next, Other

-----------------------------------------------------------------------------

\* A run no request of which has been carried out has left nothing to be found.
LEMMA UnbegunOwn ==
    ASSUME NEW q \in Runs, Did(q) = 0, next[q] = 1
    PROVE  Own(q)
BY DEF Own

\* What a run does between the server's steps leaves an undisturbed run undisturbed.
LEMMA OtherUndisturbed ==
    ASSUME TypeOK, Shapes, Undisturbed, NEW p \in Runs, Other(p)
    PROVE  Undisturbed'
<1>1. Quiet /\ UNCHANGED serverVars
    BY OtherQuiet DEF Quiet
<1>2. faulted \subseteq faulted' /\ expired' \subseteq faulted'
    BY DEF Other, Start, Ready, Dispatch, Unsupported, Send, Answer, Lose, Resend, Expire,
           GiveUp, Break, historyVars, Undisturbed
<1>3. ASSUME NEW q \in Runs \ {p}, IsReset(q)', phase'[q] \in Active,
             q \notin faulted' \union crossed'
      PROVE  (wire'[q] = "error" => q \in again') /\ Own(q)'
    <2>1. /\ command'[q] = command[q] /\ phase'[q] = phase[q] /\ next'[q] = next[q]
          /\ wire'[q] = wire[q] /\ (q \in again' <=> q \in again)
        BY OtherQuiet
    <2>2. IsReset(q) /\ phase[q] \in Active /\ q \notin faulted \union crossed
        BY <1>1, <1>2, <1>3, <2>1, OthersKeep DEF Quiet
    <2>3. (wire[q] = "error" => q \in again) /\ Own(q)
        BY <2>2 DEF Undisturbed
    <2> QED BY <1>1, <2>1, <2>3, OthersKeep
<1>4. ASSUME IsReset(p)', phase'[p] \in Active, p \notin faulted' \union crossed'
      PROVE  (wire'[p] = "error" => p \in again') /\ Own(p)'
    <2>1. CASE Start(p)
        <3>1. next'[p] = 1 /\ wire'[p] = "none" /\ Did(p) = 0
            BY <2>1 DEF Start, Shapes, Shape, Did, IsReset
        <3> QED BY <1>1, <3>1 DEF Own, Quiet
    <2>2. CASE ~Start(p)
        <3>1. IsReset(p) /\ phase[p] \in Active
            BY <2>2, <1>4 DEF Other, Ready, Send, Answer, Lose, Resend, Expire, GiveUp,
                   Break, IsReset, Active, TypeOK, Phases
        <3>2. p \notin faulted \union crossed
            BY <1>1, <1>2, <1>4 DEF Quiet
        <3>3. (wire[p] = "error" => p \in again) /\ Own(p)
            BY <3>1, <3>2 DEF Undisturbed
        <3>4. /\ wire'[p] = "error" => wire[p] = "error" /\ again' = again
              /\ \/ next'[p] = next[p] /\ (wire'[p] = "done" => wire[p] = "done")
                 \/ wire[p] = "done" /\ wire'[p] = "none" /\ next'[p] = next[p] + 1
            BY <2>2, <1>4 DEF Other, Ready, Send, Answer, Lose, Resend, Expire, GiveUp,
                   Break, TypeOK, Active
        <3>5. Own(p)'
            BY <1>1, <3>3, <3>4 DEF Own, Quiet, serverVars, TypeOK
        <3> QED BY <3>3, <3>4, <3>5
    <2> QED BY <2>1, <2>2
<1> QED BY <1>2, <1>3, <1>4 DEF Undisturbed

\* A request that changes the index crosses every other run that has begun.
LEMMA ChangeUndisturbed ==
    ASSUME TypeOK, Shapes, Undisturbed, NEW p \in Runs,
           UNCHANGED <<command, phase, next, again, expired>>,
           faulted \subseteq faulted', crossed' = crossed \union Between(p),
           \A q \in Runs \ {p} : /\ Did(q)' = Did(q)
                                 /\ wire'[q] = wire[q] \/ wire[q] = "written",
           IsReset(p) /\ phase[p] \in Active /\ p \notin faulted' \union crossed'
              => (wire'[p] = "error" => p \in again') /\ Own(p)'
    PROVE  Undisturbed'
<1>1. expired' \subseteq faulted'
    BY DEF Undisturbed
<1>2. \A q \in Runs : IsReset(q)' <=> IsReset(q)
    BY DEF IsReset
<1>3. ASSUME NEW q \in Runs \ {p}, IsReset(q), phase[q] \in Active,
             q \notin faulted' \union crossed'
      PROVE  (wire'[q] = "error" => q \in again') /\ Own(q)'
    <2>1. ~Begun(q) /\ q \notin faulted \union crossed
        BY <1>3 DEF Between
    <2>2. next[q] = 1 /\ q \notin again /\ wire[q] \notin {"written", "done"}
        BY <2>1 DEF Begun, TypeOK
    <2>3. Did(q) = 0
        BY <2>2 DEF Did, Executed
    <2>4. Did(q)' = 0 /\ next'[q] = 1 /\ wire'[q] = wire[q]
        BY <2>2, <2>3
    <2>5. Own(q)'
        BY <2>4 DEF Own
    <2>6. wire[q] = "error" => q \in again
        BY <1>3, <2>1 DEF Undisturbed
    <2> QED BY <2>4, <2>5, <2>6
<1> QED BY <1>1, <1>2, <1>3 DEF Undisturbed

\* So every action keeps what is said of a run that nobody disturbed.
LEMMA NextUndisturbed ==
    ASSUME TypeOK, Shapes, Undisturbed, [Next]_vars PROVE Undisturbed'
<1>1. ASSUME NEW p \in Runs, Other(p) PROVE Undisturbed'
    BY <1>1, OtherUndisturbed
<1>2. ASSUME NEW p \in Runs, ExecuteDelete(p) PROVE Undisturbed'
    <2>1. /\ UNCHANGED <<command, phase, next, again, expired, faulted>>
          /\ crossed' = crossed \union Between(p)
        BY <1>2 DEF ExecuteDelete
    <2>2. /\ next'[p] = 1 /\ Did(p)' = 1 /\ wire'[p] = "done" /\ index' = "absent"
          /\ \A q \in Runs \ {p} : Did(q)' = Did(q) /\ (wire'[q] = wire[q] \/ wire[q] = "written")
        BY <1>2, <2>1, DeleteEffect
    <2>3. Own(p)'
        BY <2>2 DEF Own
    <2> QED BY <2>1, <2>2, <2>3, ChangeUndisturbed
<1>3. ASSUME NEW p \in Runs, ExecuteCreate(p) PROVE Undisturbed'
    <2>1. /\ UNCHANGED <<command, phase, next, again, expired, faulted>>
          /\ crossed' = crossed \union Between(p)
        BY <1>3 DEF ExecuteCreate
    <2>2. /\ next[p] = 2 /\ next' = next /\ Did(p) \in 1 .. 2 /\ (Did(p) = 2 <=> p \in again)
          /\ docs' = docs /\ shown' = shown
          /\ \/ index = "absent" /\ index' = "strict" /\ Did(p)' = 2 /\ wire'[p] = "done"
             \/ index # "absent" /\ index' = index /\ Did(p)' = Did(p) /\ wire'[p] = "error"
          /\ \A q \in Runs \ {p} : Did(q)' = Did(q) /\ wire'[q] = wire[q]
        BY <1>3, CreateEffect
    <2>3. Own(p) => (wire'[p] = "error" => p \in again') /\ Own(p)'
        BY <2>1, <2>2 DEF Own
    <2>4. IsReset(p) /\ phase[p] \in Active /\ p \notin faulted' \union crossed' => Own(p)
        BY <2>1 DEF Undisturbed
    <2> QED BY <2>1, <2>2, <2>3, <2>4, ChangeUndisturbed
<1>4. ASSUME NEW p \in Runs, ExecuteBulk(p) PROVE Undisturbed'
    <2>1. /\ UNCHANGED <<command, phase, next, again, expired, faulted>>
          /\ crossed' = crossed \union Between(p)
        BY <1>4 DEF ExecuteBulk
    <2>2. /\ next'[p] = 3 /\ Did(p) \in 2 .. 3 /\ Did(p)' = 3
          /\ docs' = Ids /\ wire'[p] = "written"
          /\ index' = IF index = "absent" THEN "dynamic" ELSE index
          /\ \A q \in Runs \ {p} : Did(q)' = Did(q) /\ wire'[q] = wire[q]
        BY <1>4, BulkEffect
    <2>3. Own(p) => Own(p)'
        BY <2>2 DEF Own
    <2>4. IsReset(p) /\ phase[p] \in Active /\ p \notin faulted' \union crossed' => Own(p)
        BY <2>1 DEF Undisturbed
    <2> QED BY <2>1, <2>2, <2>3, <2>4, ChangeUndisturbed
<1>5. ASSUME NEW p \in Runs, RejectBulk(p) PROVE Undisturbed'
    <2>1. /\ UNCHANGED <<command, phase, next, again, expired>>
          /\ faulted' = faulted \union {p}
          /\ crossed' = crossed \union Between(p)
        BY <1>5 DEF RejectBulk
    <2>2. \A q \in Runs \ {p} : Did(q)' = Did(q) /\ wire'[q] = wire[q]
        BY <1>5, RejectEffect
    <2> QED BY <2>1, <2>2, ChangeUndisturbed
<1>6. ASSUME NEW p \in Runs, ExecuteRead(p) PROVE Undisturbed'
    <2>1. UNCHANGED <<serverVars, command, phase, next, again, expired, faulted, crossed>>
        BY <1>6 DEF ExecuteRead, historyVars
    <2>2. \A q \in Runs : IsReset(q)' <=> IsReset(q)
        BY <2>1 DEF IsReset
    <2>3. ASSUME NEW q \in Runs \ {p}, Own(q) PROVE Own(q)' /\ wire'[q] = wire[q]
        BY <1>6, <2>1, <2>3, ReadEffect, OthersKeep
    <2>4. ASSUME IsReset(p), Own(p) PROVE Own(p)' /\ wire'[p] # "error"
        <3>1. /\ next[p] >= 4 /\ Did(p) >= 3
              /\ \/ Did(p)' = Did(p)
                 \/ Did(p)' = Did(p) + 1
              /\ wire'[p] = "done" \/ (wire'[p] = "error" /\ ~(index = "strict" /\ shown = Ids))
            BY <1>6, <2>4, ReadEffect
        <3>2. next[p] \in Nat /\ Did(p) \in Nat
            BY <2>4, <3>1 DEF TypeOK, Did, Executed
        <3>3. index = "strict" /\ docs = Ids /\ shown = Ids
            BY <2>4, <3>1, <3>2 DEF Own
        <3>4. Did(p)' >= 3
            BY <3>1, <3>2
        <3>5. Own(p)'
            BY <2>1, <3>1, <3>2, <3>3, <3>4 DEF Own, serverVars
        <3> QED BY <3>1, <3>3, <3>5
    <2> QED BY <2>1, <2>2, <2>3, <2>4 DEF Undisturbed
<1>7. ASSUME Refresh PROVE Undisturbed'
    <2>1. UNCHANGED <<command, phase, next, again, expired, faulted, crossed>>
        BY <1>7 DEF Refresh, historyVars
    <2>2. \A q \in Runs : IsReset(q)' <=> IsReset(q)
        BY <2>1 DEF IsReset
    <2>3. /\ index' = index /\ docs' = docs /\ shown' = docs
          /\ \A q \in Runs : /\ Did(q)' = Did(q)
                             /\ wire'[q] = wire[q] \/ (wire[q] = "written" /\ wire'[q] = "done")
        BY <1>7, RefreshEffect
    <2>4. ASSUME NEW q \in Runs, IsReset(q), Own(q) PROVE Own(q)'
        <3>1. next[q] \in Nat
            BY DEF TypeOK
        <3>2. next[q] >= 4 \/ (next[q] = 3 /\ wire'[q] = "done") => Did(q) >= 3
            BY <2>3, <2>4, <3>1 DEF Did, Executed
        <3> QED BY <2>1, <2>3, <2>4, <3>2 DEF Own
    <2> QED BY <2>1, <2>2, <2>3, <2>4 DEF Undisturbed
<1>8. CASE UNCHANGED vars
    BY <1>8 DEF vars, Undisturbed, Own, Did, IsReset, Executed
<1> QED BY <1>1, <1>2, <1>3, <1>4, <1>5, <1>6, <1>7, <1>8 DEF Next, Other

\* A reset or check fails by its deadline, by a fault, or by an error, and an
\* undisturbed run meets an error only when a request was sent again.
LEMMA NextReplayable ==
    ASSUME TypeOK, Shapes, Undisturbed, Replayable, [Next]_vars PROVE Replayable'
<1>1. faulted \subseteq faulted' /\ crossed \subseteq crossed'
    BY DEF Next, vars, historyVars, Start, Ready, Dispatch, Unsupported, Send, Answer,
           ExecuteDelete, ExecuteCreate, ExecuteBulk, RejectBulk, ExecuteRead, Refresh,
           Lose, Resend, Expire, GiveUp, Break
<1>2. ASSUME NEW p \in Runs, phase[p] = "failed"
      PROVE  command'[p] = command[p] /\ (p \in again => p \in again')
    BY <1>2 DEF Next, vars, historyVars, Start, Ready, Dispatch, Unsupported, Send, Answer,
           ExecuteDelete, ExecuteCreate, ExecuteBulk, RejectBulk, ExecuteRead, Refresh,
           Lose, Resend, Expire, GiveUp, Break, TypeOK
<1>3. SUFFICES ASSUME NEW p \in Runs, phase'[p] = "failed", command'[p] \in Resets,
                      phase[p] # "failed"
               PROVE  p \in faulted' \union again' \union crossed'
    BY <1>1, <1>2 DEF Replayable, IsReset
<1>4. CASE Answer(p)
    <2>1. /\ wire[p] = "error" /\ again' = again /\ command' = command /\ phase[p] = "working"
        BY <1>3, <1>4 DEF Answer, TypeOK
    <2>2. IsReset(p) /\ phase[p] \in Active
        BY <1>3, <2>1 DEF IsReset, Active
    <2> QED BY <1>1, <2>1, <2>2 DEF Undisturbed
<1>5. CASE GiveUp(p)
    BY <1>1, <1>5 DEF GiveUp, Undisturbed
<1>6. CASE Ready(p)
    BY <1>3, <1>6 DEF Ready, Dispatch, Unsupported, TypeOK
<1>7. CASE Break(p)
    BY <1>7 DEF Break
<1>8. ASSUME NEW q \in Runs, q # p,
             Start(q) \/ Ready(q) \/ Answer(q) \/ GiveUp(q) \/ Break(q)
      PROVE  FALSE
    BY <1>3, <1>8 DEF Start, Ready, Dispatch, Unsupported, Answer, GiveUp, Break, TypeOK
<1>9. ~Start(p)
    BY <1>3 DEF Start, TypeOK
<1>10. ASSUME NEW q \in Runs,
              \/ Send(q) \/ ExecuteDelete(q) \/ ExecuteCreate(q) \/ ExecuteBulk(q)
              \/ RejectBulk(q) \/ ExecuteRead(q) \/ Lose(q) \/ Resend(q) \/ Expire(q)
       PROVE  FALSE
    BY <1>3, <1>10 DEF Send, ExecuteDelete, ExecuteCreate, ExecuteBulk, RejectBulk,
           ExecuteRead, Lose, Resend, Expire
<1>11. ~Refresh /\ ~UNCHANGED vars
    BY <1>3 DEF Refresh, vars
<1> QED BY <1>4, <1>5, <1>6, <1>7, <1>8, <1>9, <1>10, <1>11 DEF Next

-----------------------------------------------------------------------------

\* The invariant holds in every state.
THEOREM InvariantHolds == Spec => []IInv
<1>1. IInv /\ [Next]_vars => IInv'
    BY NextTypeOK, NextShapes, NextAccount, NextUndisturbed, NextReplayable DEF IInv
<1> QED BY InitIInv, <1>1, PTL DEF Spec

\* The variables keep their types; a search never finds what is not indexed, and a
\* request that waits for the refresh is a bulk request of ResetElasticsearch.
THEOREM TypeCorrect == Spec => []TypeOK
BY InvariantHolds, PTL DEF IInv

\* Once some ResetElasticsearch has begun, records are missing only while a run has
\* deleted the index and its bulk request has not been accepted as a whole.
THEOREM AccountedHolds == Spec => []Accounted
<1>1. IInv => Accounted
    <2> SUFFICES ASSUME IInv, NEW p \in Runs, IsReset(p), Executed(p) >= 1,
                        \A q \in Runs : ~Owes(q)
                 PROVE  docs = Ids
        BY DEF Accounted
    <2>1. Did(p) >= 1
        BY DEF Did
    <2> QED BY <2>1 DEF IInv, Account, Touched
<1> QED BY InvariantHolds, <1>1, PTL

\* Without a fault, another run or a request sent again, no answer stops a reset:
\* the refresh its bulk request waits for comes before verifyElasticsearchFixture.
THEOREM ReplayableHolds == Spec => []Replayable
BY InvariantHolds, PTL DEF IInv

\* When some reset or check has succeeded and none is unfinished or failed, the
\* index has its strict mapping, although bulk requests may create it, and every
\* record can be found.
THEOREM SettledHolds == Spec => []Settled
<1>1. IInv => Settled
    <2>1. SUFFICES ASSUME IInv, NEW p \in Runs, IsReset(p), phase[p] = "ok",
                          \A q \in Runs : IsReset(q) => phase[q] = "ok"
                   PROVE  Whole
        BY DEF Settled
    <2>2. ASSUME NEW q \in Runs, IsReset(q)
          PROVE  Did(q) >= 1 /\ Did(q) \notin 1 .. 4 /\ ~Unseen(q)
        <3>1. command[q] \in Resets /\ phase[q] = "ok"
            BY <2>1, <2>2 DEF IsReset
        <3>2. next[q] = Len(Plan(command[q])) + 1 /\ wire[q] = "none" /\ q \notin again
            BY <2>1, <3>1 DEF IInv, Shapes, Shape
        <3>3. Len(Plan(command[q])) \in {5, 8}
            BY <2>1, <3>1, PlanLength DEF IInv
        <3>4. Did(q) \in {5, 8}
            BY <2>2, <3>2, <3>3 DEF Did, Executed
        <3> QED BY <3>4 DEF Unseen
    <2>3. ASSUME NEW q \in Runs, ~IsReset(q)
          PROVE  Did(q) \notin 1 .. 4 /\ ~Unseen(q)
        BY <2>3 DEF Did, Unseen
    <2>4. Touched
        BY <2>1, <2>2 DEF Touched
    <2>5. \A q \in Runs : ~Unseen(q) /\ Did(q) \notin 1 .. 4
        BY <2>2, <2>3
    <2>6. ASSUME NEW q \in Runs PROVE ~Owes(q)
        <3>1. Owes(q) => Did(q) = 1 \/ Did(q) = 2
            BY OwesDid
        <3>2. Did(q) # 1 /\ Did(q) # 2
            BY <2>5
        <3> QED BY <3>1, <3>2
    <2> QED BY <2>1, <2>4, <2>5, <2>6 DEF IInv, Account, Whole
<1> QED BY InvariantHolds, <1>1, PTL

-----------------------------------------------------------------------------

\* The mapping in terms of what the runs have had carried out, before and after a
\* step.
LEMMA MappingFacts ==
    /\ lostBar = IF Touched THEN {} ELSE Ids \ docs
    /\ owedBar = [p \in Runs |-> IF Did(p) \in 1 .. 2 THEN Ids ELSE {}]
    /\ lostBar' = IF Touched' THEN {} ELSE Ids \ docs'
    /\ owedBar' = [p \in Runs |-> IF Did(p)' \in 1 .. 2 THEN Ids ELSE {}]
<1>1. /\ (\E p \in Runs : IsReset(p) /\ Executed(p) >= 1) <=> Touched
      /\ (\E p \in Runs : IsReset(p) /\ Executed(p) >= 1)' <=> Touched'
    BY DEF Touched, Did
<1>2. \A p \in Runs : /\ Owes(p) <=> Did(p) \in 1 .. 2
                      /\ Owes(p)' <=> Did(p)' \in 1 .. 2
    BY DEF Owes, Did
<1> QED BY <1>1, <1>2 DEF lostBar, owedBar

\* Nothing is owed before the first run begins.
LEMMA InitRefines == Init => Contract!Init
<1> SUFFICES ASSUME Init PROVE Contract!Init
    OBVIOUS
<1>1. \A p \in Runs : ~IsReset(p)
    BY DEF Init, IsReset
<1>2. lostBar = Ids \ docs /\ owedBar = [p \in Runs |-> {}]
    BY <1>1 DEF lostBar, owedBar, Owes
<1>3. docs \in SUBSET Ids
    BY InitIInv DEF IInv, TypeOK
<1> QED BY <1>1, <1>2, <1>3 DEF Contract!Init, outcomeBar

\* A step that leaves the index's documents alone and carries out nothing is a step
\* of the contract: the run begins, ends, or makes progress the contract does not see.
LEMMA OtherRefines ==
    ASSUME IInv, IInv', NEW p \in Runs, Other(p)
    PROVE  Contract!Next \/ UNCHANGED Contract!vars
<1>1. UNCHANGED <<docs, lostBar, owedBar>>
    <2>1. docs' = docs /\ \A q \in Runs : Did(q)' = Did(q)
        BY OtherQuiet DEF IInv, Quiet, serverVars
    <2>2. lostBar' = lostBar
        BY <2>1 DEF lostBar, Did
    <2>3. owedBar' = owedBar
        BY <2>1 DEF owedBar, Owes, Did
    <2> QED BY <2>1, <2>2, <2>3
<1>2. \A q \in Runs : q # p => phase'[q] = phase[q] /\ command'[q] = command[q]
    BY OtherQuiet DEF IInv
<1>3. \A q \in Runs : q # p => outcomeBar'[q] = outcomeBar[q]
    BY <1>2 DEF outcomeBar, IsReset
<1>4. outcomeBar' = [outcomeBar EXCEPT ![p] = outcomeBar'[p]]
    BY <1>3 DEF outcomeBar
<1>5. CASE outcomeBar'[p] = outcomeBar[p]
    <2>1. outcomeBar' = outcomeBar
        BY <1>4, <1>5 DEF outcomeBar
    <2> QED BY <2>1, <1>1 DEF Contract!vars
<1>6. CASE outcomeBar[p] = "idle" /\ outcomeBar'[p] = "active"
    <2>1. Contract!Begin(p)
        BY <1>1, <1>4, <1>6 DEF Contract!Begin
    <2> QED BY <2>1 DEF Contract!Next
<1>7. CASE outcomeBar[p] = "active" /\ outcomeBar'[p] = "failed"
    <2>1. Contract!Fail(p)
        BY <1>1, <1>4, <1>7 DEF Contract!Fail
    <2> QED BY <2>1 DEF Contract!Next
<1>8. CASE outcomeBar[p] = "active" /\ outcomeBar'[p] = "ok"
    <2>1. IsReset(p)' /\ phase'[p] = "ok" /\ command'[p] \in Resets
        BY <1>8 DEF outcomeBar, IsReset
    <2>2. next'[p] = Len(Plan(command[p]))' + 1 /\ wire'[p] = "none" /\ p \notin again'
        BY <2>1 DEF IInv, Shapes, Shape
    <2>3. Len(Plan(command[p]))' \in {5, 8}
        BY <2>1, PlanLengths DEF CommandNames, Length, Resets
    <2>4. Did(p)' \in {5, 8}
        BY <2>1, <2>2, <2>3 DEF Did, Executed
    <2>5. Did(p) \in {5, 8}
        BY <2>4, OtherQuiet DEF IInv, Quiet
    <2>6. Touched /\ Did(p) \notin 1 .. 2
        BY <2>5 DEF Touched
    <2>7. owedBar[p] = {} /\ lostBar = {}
        BY <2>6, MappingFacts
    <2>8. Contract!Succeed(p)
        BY <1>1, <1>4, <1>8, <2>7 DEF Contract!Succeed
    <2> QED BY <2>8 DEF Contract!Next
<1>9. \/ outcomeBar'[p] = outcomeBar[p]
      \/ outcomeBar[p] = "idle" /\ outcomeBar'[p] = "active"
      \/ outcomeBar[p] = "active" /\ outcomeBar'[p] \in {"ok", "failed"}
    <2>1. CASE Start(p)
        BY <2>1 DEF outcomeBar, IsReset, Active, IInv, TypeOK, Start
    <2>2. CASE Ready(p)
        BY <2>2 DEF outcomeBar, IsReset, Active, IInv, TypeOK, Ready, Dispatch, Unsupported
    <2>3. CASE Answer(p)
        BY <2>3 DEF outcomeBar, IsReset, Active, IInv, TypeOK, Answer
    <2>4. CASE Send(p) \/ Lose(p) \/ Resend(p) \/ Expire(p)
        BY <2>4 DEF outcomeBar, IsReset, Active, Send, Lose, Resend, Expire
    <2>5. CASE GiveUp(p) \/ Break(p)
        BY <2>5 DEF outcomeBar, IsReset, Active, IInv, TypeOK, GiveUp, Break
    <2> QED BY <2>1, <2>2, <2>3, <2>4, <2>5 DEF Other
<1> QED BY <1>5, <1>6, <1>7, <1>8, <1>9

\* What a run with a request at the server may be in the contract: its process may
\* be gone when the request is executed.
LEMMA SentOutcome ==
    ASSUME TypeOK, Shapes, NEW p \in Runs, IsReset(p), wire[p] = "sent"
    PROVE  outcomeBar[p] \in {"active", "failed"}
BY UnderWay DEF outcomeBar, Active

\* The requests that only the server has a part in do not change how far a run is.
LEMMA OutcomesKept ==
    ASSUME UNCHANGED <<command, phase>> PROVE UNCHANGED outcomeBar
BY DEF outcomeBar, IsReset

\* The DELETE is the contract's Clear of every record.
LEMMA DeleteRefines ==
    ASSUME IInv, NEW p \in Runs, ExecuteDelete(p)
    PROVE  Contract!Next
<1>1. UNCHANGED outcomeBar /\ outcomeBar[p] \in {"active", "failed"}
    BY DeleteEffect, SentOutcome, OutcomesKept DEF ExecuteDelete, IInv
<1>2. /\ Did(p)' = 1 /\ docs' = {} /\ docs' = docs \ Ids
      /\ \A q \in Runs \ {p} : Did(q)' = Did(q)
    <2>1. /\ Did(p)' = 1 /\ docs' = {}
          /\ \A q \in Runs \ {p} : Did(q)' = Did(q)
        BY DeleteEffect DEF IInv
    <2>2. docs \ Ids = {}
        BY DEF IInv, TypeOK
    <2> QED BY <2>1, <2>2
<1>3. lostBar' = {}
    <2>1. Touched'
        BY <1>2 DEF Touched
    <2> QED BY <2>1, MappingFacts
<1>4. owedBar' = [owedBar EXCEPT ![p] = @ \union Ids]
    BY <1>2, MappingFacts
<1>5. lostBar \ Ids = {}
    BY DEF lostBar
<1>6. Contract!Clear(p, Ids)
    BY <1>1, <1>2, <1>3, <1>4, <1>5 DEF Contract!Clear
<1> QED BY <1>6 DEF Contract!Next

\* The bulk request is the contract's Restore of every record.
LEMMA BulkRefines ==
    ASSUME IInv, NEW p \in Runs, ExecuteBulk(p)
    PROVE  Contract!Next
<1>1. UNCHANGED outcomeBar /\ outcomeBar[p] \in {"active", "failed"}
    BY BulkEffect, SentOutcome, OutcomesKept DEF ExecuteBulk, IInv
<1>2. /\ Did(p)' = 3 /\ docs' = docs \union Ids
      /\ \A q \in Runs \ {p} : Did(q)' = Did(q)
    BY BulkEffect DEF IInv, TypeOK
<1>3. lostBar' = {}
    <2>1. Touched'
        BY <1>2 DEF Touched
    <2> QED BY <2>1, MappingFacts
<1>4. owedBar' = [owedBar EXCEPT ![p] = @ \ Ids]
    BY <1>2, MappingFacts
<1>5. lostBar \ Ids = {}
    BY DEF lostBar
<1>6. Contract!Restore(p, Ids)
    BY <1>1, <1>2, <1>3, <1>4, <1>5 DEF Contract!Restore
<1> QED BY <1>6 DEF Contract!Next

\* One that is partly refused is the contract's Refill.
LEMMA RejectRefines ==
    ASSUME IInv, NEW p \in Runs, RejectBulk(p)
    PROVE  Contract!Next
<1>1. UNCHANGED outcomeBar /\ outcomeBar[p] \in {"active", "failed"}
    BY RejectEffect, SentOutcome, OutcomesKept DEF RejectBulk, IInv
<1>2. PICK S \in SUBSET Ids : docs' = docs \union S
    BY RejectEffect DEF IInv
<1>3. Did(p) >= 1 /\ \A q \in Runs : Did(q)' = Did(q)
    BY RejectEffect DEF IInv
<1>4. lostBar = {} /\ lostBar' = {}
    <2>1. Touched /\ Touched'
        BY <1>3 DEF Touched
    <2> QED BY <2>1, MappingFacts
<1>5. owedBar' = owedBar
    BY <1>3 DEF owedBar, Owes, Did
<1>6. Contract!Refill(p, S)
    BY <1>1, <1>2, <1>4, <1>5 DEF Contract!Refill
<1> QED BY <1>6 DEF Contract!Next

\* The contract sees neither the create, nor the reads, nor a refresh.
LEMMA UnseenRefines ==
    ASSUME IInv, Refresh \/ \E p \in Runs : ExecuteCreate(p) \/ ExecuteRead(p)
    PROVE  UNCHANGED Contract!vars
<1>1. UNCHANGED <<docs, outcomeBar>>
    BY OutcomesKept DEF ExecuteCreate, ExecuteRead, Refresh, serverVars
<1>2. /\ Touched' <=> Touched
      /\ \A q \in Runs : Did(q)' \in 1 .. 2 <=> Did(q) \in 1 .. 2
    <2>1. CASE Refresh
        BY <2>1, RefreshEffect DEF IInv, Touched
    <2>2. ASSUME NEW p \in Runs, ExecuteCreate(p) PROVE <1>2
        <3>1. /\ Did(p) \in 1 .. 2 /\ Did(p)' \in 1 .. 2
              /\ \A q \in Runs \ {p} : Did(q)' = Did(q)
            BY <2>2, CreateEffect DEF IInv
        <3> QED BY <3>1 DEF Touched
    <2>3. ASSUME NEW p \in Runs, ExecuteRead(p) PROVE <1>2
        <3>1. /\ IsReset(p) => Did(p) >= 3
              /\ ~IsReset(p) => Did(p) = 0
              /\ Did(p)' = Did(p) \/ (Did(p)' = Did(p) + 1 /\ Did(p) >= 3)
              /\ \A q \in Runs \ {p} : Did(q)' = Did(q)
            BY <2>3, ReadEffect DEF IInv
        <3>2. Did(p) \in Nat
            BY <3>1 DEF Did, Executed, IInv, TypeOK
        <3> QED BY <3>1, <3>2 DEF Touched
    <2> QED BY <2>1, <2>2, <2>3
<1>3. lostBar' = lostBar
    BY <1>1, <1>2, MappingFacts
<1>4. owedBar' = owedBar
    BY <1>2, MappingFacts
<1> QED BY <1>1, <1>3, <1>4 DEF Contract!vars

\* ResetElasticsearch, with bulk requests that are partly refused and requests sent
\* again, implements FixtureContract, for any runs and records.
THEOREM RefinesHolds == Spec => Refines
<1>1. IInv /\ IInv' /\ [Next]_vars => [Contract!Next]_(Contract!vars)
    <2> SUFFICES ASSUME IInv, IInv', [Next]_vars
                 PROVE  Contract!Next \/ UNCHANGED Contract!vars
        OBVIOUS
    <2>1. CASE UNCHANGED vars
        BY <2>1 DEF vars, Contract!vars, lostBar, owedBar, outcomeBar, Owes, Executed, IsReset
    <2>2. CASE Next
        BY <2>2, OtherRefines, DeleteRefines, BulkRefines, RejectRefines, UnseenRefines
           DEF Next, Other
    <2> QED BY <2>1, <2>2
<1> QED BY InitRefines, InvariantHolds, <1>1, PTL DEF Spec, Refines, Contract!Spec

=============================================================================
