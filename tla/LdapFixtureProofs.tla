------------------------- MODULE LdapFixtureProofs -------------------------
(***************************************************************************)
(* Proofs about LdapFixture, for any runs, entries and commands.           *)
(*                                                                         *)
(* The argument.  What a run has done to the directory is in two sets:     *)
(* Cleared(p), the entries it has found missing or deleted, and            *)
(* Written(p), those it has added.  They only grow: a listing clears what  *)
(* is not there, an executed Del or Add moves one entry, and every other   *)
(* action leaves both alone, whatever it does to the bookkeeping they are  *)
(* read from.  Accounted follows.  A run that nobody disturbed finds       *)
(* exactly what it has added among what it has cleared, and finds          *)
(* everything that is left of its listing (Own), so no Del meets a missing *)
(* entry and no Add an existing one: Replayable.                           *)
(***************************************************************************)
EXTENDS LdapFixture, TLAPS

Deleting == {"deleteRecords", "deleteProbes"}

\* How a run's phase and command go with the stage of ResetLDAP it is at.
Shape(p) ==
    /\ phase[p] \in {"idle", "waiting"} => stage[p] = "listRecords"
    /\ command[p] \notin Resets => stage[p] = "listRecords"
    /\ phase[p] \in {"verifying", "searching", "ok"} /\ command[p] \in Resets => stage[p] = "end"
    /\ phase[p] = "resetting" => command[p] \in Resets /\ stage[p] # "end"
    /\ stage[p] \in {"listRecords", "listProbes"} => wire[p] = "none"
    /\ stage[p] = "end" => todo[p] = {}

Shapes == \A p \in Runs : Shape(p)

\* Of the entries run p has cleared, the directory holds those it has added; what
\* it has listed and not yet deleted is still there.
Own(p) ==
    /\ \A e \in Cleared(p) : e \in held <=> e \in Written(p)
    /\ stage[p] \in Deleting => Left(p) \subseteq held

\* A run that met no fault and no other run has found what it left.
Undisturbed ==
    /\ expired \subseteq faulted
    /\ \A p \in Runs :
          phase[p] \in Active /\ p \notin faulted \union crossed
             => wire[p] # "error" /\ Own(p)

IInv == TypeOK /\ Shapes /\ Accounted /\ Undisturbed /\ Replayable

-----------------------------------------------------------------------------

\* What a run has cleared and written, stage by stage.
LEMMA StageFacts ==
    ASSUME TypeOK, Shapes, NEW p \in Runs
    PROVE  /\ stage[p] = "listRecords" => Cleared(p) = {} /\ Written(p) = {}
           /\ stage[p] = "deleteRecords" =>
                 Cleared(p) = Records \ Left(p) /\ Written(p) = {}
           /\ stage[p] = "listProbes" => Cleared(p) = Records /\ Written(p) = {}
           /\ stage[p] = "deleteProbes" =>
                 Cleared(p) = Records \union (Probes \ Left(p)) /\ Written(p) = {}
           /\ stage[p] = "add" => Cleared(p) = Entries /\ Written(p) = Entries \ Left(p)
           /\ stage[p] = "end" => Cleared(p) = Entries /\ Written(p) = Entries
<1>1. stage[p] = "end" => Left(p) = {}
    BY DEF Shapes, Shape, Left
<1> QED BY <1>1 DEF Cleared, Written, Entries

\* The initial states satisfy the invariant: no run has begun.
LEMMA InitIInv == Init => IInv
<1> SUFFICES ASSUME Init PROVE IInv
    OBVIOUS
<1>1. TypeOK
    BY DEF Init, TypeOK, Phases, Stages, Entries
<1>2. Shapes
    BY DEF Init, Shapes, Shape
<1>3. \A p \in Runs : Cleared(p) = {} /\ phase[p] = "idle"
    BY <1>1, <1>2, StageFacts DEF Init
<1> QED BY <1>1, <1>2, <1>3 DEF Init, IInv, Accounted, Undisturbed, Replayable, IsReset, Active

-----------------------------------------------------------------------------

\* Every action keeps the types.
LEMMA NextTypeOK ==
    ASSUME TypeOK, Shapes, [Next]_vars PROVE TypeOK'
<1> USE DEF TypeOK, Phases, Active, Stages, historyVars
<1>1. ASSUME NEW p \in Runs, Start(p) PROVE TypeOK'
    BY <1>1, CommandsAssumption DEF Start
<1>2. ASSUME NEW p \in Runs, Ready(p) PROVE TypeOK'
    BY <1>2 DEF Ready, Dispatch, Unsupported, Resets
<1>3. ASSUME NEW p \in Runs, List(p) PROVE TypeOK'
    BY <1>3 DEF List, Entries, Shapes, Shape
<1>4. ASSUME NEW p \in Runs, Send(p) PROVE TypeOK'
    BY <1>4 DEF Send
<1>5. ASSUME NEW p \in Runs, Answer(p) PROVE TypeOK'
    BY <1>5 DEF Answer
<1>6. ASSUME NEW p \in Runs, NextLoop(p) PROVE TypeOK'
    BY <1>6 DEF NextLoop, Entries
<1>7. ASSUME NEW p \in Runs, ExecuteDel(p) PROVE TypeOK'
    BY <1>7 DEF ExecuteDel, Between
<1>8. ASSUME NEW p \in Runs, ExecuteAdd(p) PROVE TypeOK'
    BY <1>8 DEF ExecuteAdd, Between, Entries
<1>9. ASSUME NEW p \in Runs, Lose(p) PROVE TypeOK'
    BY <1>9 DEF Lose
<1>10. ASSUME NEW p \in Runs, Query(p) \/ Verify(p) PROVE TypeOK'
    BY <1>10 DEF Query, Verify
<1>11. ASSUME NEW p \in Runs, Expire(p) PROVE TypeOK'
    BY <1>11 DEF Expire
<1>12. ASSUME NEW p \in Runs, GiveUp(p) PROVE TypeOK'
    BY <1>12 DEF GiveUp
<1>13. ASSUME NEW p \in Runs, Break(p) PROVE TypeOK'
    BY <1>13 DEF Break
<1>14. CASE UNCHANGED vars
    BY <1>14 DEF vars
<1> QED
    BY <1>1, <1>2, <1>3, <1>4, <1>5, <1>6, <1>7, <1>8, <1>9, <1>10, <1>11, <1>12, <1>13,
       <1>14 DEF Next

\* Every action keeps a run's phase in step with its stage.
LEMMA NextShapes ==
    ASSUME TypeOK, Shapes, [Next]_vars PROVE Shapes'
<1> USE DEF Shapes, Shape, TypeOK, Phases, Stages, Resets, Active, historyVars
<1>1. ASSUME NEW p \in Runs, Start(p) PROVE Shapes'
    BY <1>1 DEF Start
<1>2. ASSUME NEW p \in Runs, Ready(p) PROVE Shapes'
    BY <1>2 DEF Ready, Dispatch, Unsupported
<1>3. ASSUME NEW p \in Runs, List(p) PROVE Shapes'
    BY <1>3 DEF List
<1>4. ASSUME NEW p \in Runs, Send(p) PROVE Shapes'
    BY <1>4 DEF Send
<1>5. ASSUME NEW p \in Runs, Answer(p) PROVE Shapes'
    BY <1>5 DEF Answer
<1>6. ASSUME NEW p \in Runs, NextLoop(p) PROVE Shapes'
    BY <1>6 DEF NextLoop
<1>7. ASSUME NEW p \in Runs, ExecuteDel(p) PROVE Shapes'
    BY <1>7 DEF ExecuteDel
<1>8. ASSUME NEW p \in Runs, ExecuteAdd(p) PROVE Shapes'
    BY <1>8 DEF ExecuteAdd
<1>9. ASSUME NEW p \in Runs, Lose(p) PROVE Shapes'
    BY <1>9 DEF Lose
<1>10. ASSUME NEW p \in Runs, Query(p) \/ Verify(p) PROVE Shapes'
    BY <1>10 DEF Query, Verify
<1>11. ASSUME NEW p \in Runs, Expire(p) PROVE Shapes'
    BY <1>11 DEF Expire
<1>12. ASSUME NEW p \in Runs, GiveUp(p) PROVE Shapes'
    BY <1>12 DEF GiveUp
<1>13. ASSUME NEW p \in Runs, Break(p) PROVE Shapes'
    BY <1>13 DEF Break
<1>14. CASE UNCHANGED vars
    BY <1>14 DEF vars
<1> QED
    BY <1>1, <1>2, <1>3, <1>4, <1>5, <1>6, <1>7, <1>8, <1>9, <1>10, <1>11, <1>12, <1>13,
       <1>14 DEF Next

-----------------------------------------------------------------------------

\* What the actions other than List, ExecuteDel and ExecuteAdd leave alone.
Quiet ==
    /\ held' = held /\ crossed' = crossed
    /\ \A q \in Runs : Cleared(q)' = Cleared(q) /\ Written(q)' = Written(q)

\* The actions of a run and its environment, without those that settle entries.
Other(p) ==
    \/ Start(p) \/ Ready(p) \/ Send(p) \/ Answer(p) \/ NextLoop(p) \/ Lose(p)
    \/ Query(p) \/ Verify(p) \/ Expire(p) \/ GiveUp(p) \/ Break(p)

\* Only the run an action is about can change what it has cleared or written.
LEMMA OthersKeep ==
    ASSUME NEW q \in Runs, stage'[q] = stage[q], todo'[q] = todo[q],
           entry'[q] = entry[q], wire'[q] = wire[q]
    PROVE  Cleared(q)' = Cleared(q) /\ Written(q)' = Written(q) /\ Left(q)' = Left(q)
BY DEF Cleared, Written, Left

\* Sending a request, its answer, and the way from one loop to the next do not
\* change what a run has cleared or written.
LEMMA OtherQuiet ==
    ASSUME TypeOK, Shapes, NEW p \in Runs, Other(p)
    PROVE  /\ Quiet
           /\ stage[p] \in Deleting => \/ stage'[p] = stage[p] /\ Left(p)' = Left(p)
                                       \/ stage'[p] \notin Deleting
           /\ stage[p] \notin Deleting => stage'[p] \notin Deleting
<1>1. held' = held /\ crossed' = crossed
    BY DEF Other, Start, Ready, Dispatch, Unsupported, Send, Answer, NextLoop, Lose,
           Query, Verify, Expire, GiveUp, Break, historyVars
<1>2. \A q \in Runs : q # p => /\ stage'[q] = stage[q] /\ todo'[q] = todo[q]
                               /\ entry'[q] = entry[q] /\ wire'[q] = wire[q]
    BY DEF TypeOK, Other, Start, Ready, Send, Answer, NextLoop, Lose, Query, Verify, Expire,
           GiveUp, Break
<1>3. \A q \in Runs : q # p => Cleared(q)' = Cleared(q) /\ Written(q)' = Written(q)
    BY <1>2, OthersKeep
<1>4. CASE \/ Start(p) \/ Ready(p) \/ Query(p) \/ Verify(p) \/ Expire(p) \/ GiveUp(p) \/ Break(p)
    <2>1. UNCHANGED <<stage, todo, entry, wire>>
        BY <1>4 DEF Start, Ready, Query, Verify, Expire, GiveUp, Break
    <2> QED BY <1>1, <1>3, <2>1, OthersKeep DEF Quiet
<1>5. CASE Send(p) \/ Lose(p)
    <2>1. /\ stage' = stage /\ todo' = todo
          /\ wire[p] # "done" /\ wire'[p] # "done"
        BY <1>5 DEF Send, Lose, TypeOK
    <2>2. Left(p)' = Left(p)
        BY <2>1 DEF Left
    <2>3. Cleared(p)' = Cleared(p) /\ Written(p)' = Written(p)
        BY <2>1, <2>2 DEF Cleared, Written
    <2> QED BY <1>1, <1>3, <2>1, <2>2, <2>3 DEF Quiet
<1>6. CASE Answer(p)
    <2>1. CASE wire[p] = "error"
        <3>1. UNCHANGED <<stage, todo, entry, wire>>
            BY <1>6, <2>1 DEF Answer
        <3> QED BY <1>1, <1>3, <3>1, OthersKeep DEF Quiet
    <2>2. CASE wire[p] = "done"
        <3>1. stage' = stage /\ wire'[p] = "none" /\ todo'[p] = todo[p] \ {entry[p]}
            BY <1>6, <2>2 DEF Answer, TypeOK
        <3>2. Left(p)' = Left(p)
            BY <2>2, <3>1 DEF Left
        <3>3. Cleared(p)' = Cleared(p) /\ Written(p)' = Written(p)
            BY <3>1, <3>2 DEF Cleared, Written
        <3> QED BY <1>1, <1>3, <3>1, <3>2, <3>3 DEF Quiet
    <2> QED BY <1>6, <2>1, <2>2 DEF Answer
<1>7. CASE NextLoop(p)
    <2>1. wire[p] = "none" /\ wire' = wire /\ todo[p] = {} /\ Left(p) = {}
        BY <1>7 DEF NextLoop, TypeOK, Left
    <2>2. Left(p)' = todo'[p]
        BY <2>1 DEF Left
    <2>3. CASE stage[p] = "deleteRecords"
        <3>1. stage'[p] = "listProbes"
            BY <1>7, <2>3 DEF NextLoop, TypeOK
        <3>2. Cleared(p)' = Cleared(p) /\ Written(p)' = Written(p)
            BY <2>1, <2>3, <3>1 DEF Cleared, Written
        <3> QED BY <1>1, <1>3, <2>1, <3>1, <3>2 DEF Quiet, Deleting
    <2>4. CASE stage[p] = "deleteProbes"
        <3>1. stage'[p] = "add" /\ todo'[p] = Entries
            BY <1>7, <2>4 DEF NextLoop, TypeOK
        <3>2. Cleared(p)' = Cleared(p) /\ Written(p)' = Written(p)
            BY <2>1, <2>2, <2>4, <3>1 DEF Cleared, Written, Entries
        <3> QED BY <1>1, <1>3, <2>1, <3>1, <3>2 DEF Quiet, Deleting
    <2>5. CASE stage[p] = "add"
        <3>1. stage'[p] = "end" /\ todo' = todo
            BY <1>7, <2>5 DEF NextLoop, TypeOK
        <3>2. Cleared(p)' = Cleared(p) /\ Written(p)' = Written(p)
            BY <2>1, <2>2, <2>5, <3>1 DEF Cleared, Written
        <3> QED BY <1>1, <1>3, <2>5, <3>1, <3>2 DEF Quiet, Deleting
    <2> QED BY <1>7, <2>3, <2>4, <2>5 DEF NextLoop
<1> QED BY <1>4, <1>5, <1>6, <1>7 DEF Other

\* A listing clears, for its run, the entries of its unit that are not there.
LEMMA ListEffect ==
    ASSUME TypeOK, Shapes, NEW p \in Runs, List(p)
    PROVE  \E S \in SUBSET (Entries \ held) :
              /\ Cleared(p)' = Cleared(p) \union S
              /\ Written(p) = {} /\ Written(p)' = {}
              /\ \A q \in Runs : q # p =>
                    Cleared(q)' = Cleared(q) /\ Written(q)' = Written(q)
              /\ held' = held /\ Left(p)' \subseteq held
<1>1. /\ held' = held /\ entry' = entry /\ wire' = wire /\ wire[p] = "none"
      /\ \A q \in Runs : q # p => stage'[q] = stage[q] /\ todo'[q] = todo[q]
    BY DEF List, TypeOK, Shapes, Shape
<1>2. \A q \in Runs : q # p => Cleared(q)' = Cleared(q) /\ Written(q)' = Written(q)
    BY <1>1, OthersKeep
<1>3. CASE stage[p] = "listRecords"
    <2>1. stage'[p] = "deleteRecords" /\ Left(p)' = held \intersect Records
        BY <1>1, <1>3 DEF List, TypeOK, Left
    <2>2. Cleared(p) = {} /\ Cleared(p)' = Records \ held /\ Written(p) = {} /\ Written(p)' = {}
        BY <1>3, <2>1 DEF Cleared, Written
    <2> QED BY <1>1, <1>2, <2>1, <2>2 DEF Entries
<1>4. CASE stage[p] = "listProbes"
    <2>1. stage'[p] = "deleteProbes" /\ Left(p)' = held \intersect Probes
        BY <1>1, <1>4 DEF List, TypeOK, Left
    <2>2. /\ Cleared(p) = Records /\ Cleared(p)' = Records \union (Probes \ held)
          /\ Written(p) = {} /\ Written(p)' = {}
        BY <1>4, <2>1 DEF Cleared, Written
    <2> QED BY <1>1, <1>2, <2>1, <2>2 DEF Entries
<1> QED BY <1>3, <1>4 DEF List

\* An executed Del clears the entry it is about, or it is a miss and changes nothing.
LEMMA DelEffect ==
    ASSUME TypeOK, NEW p \in Runs, ExecuteDel(p)
    PROVE  /\ entry[p] \in Entries
           /\ \A q \in Runs : Written(q)' = Written(q)
           /\ \A q \in Runs : q # p => Cleared(q)' = Cleared(q)
           /\ entry[p] \in Left(p) /\ entry[p] \notin Written(p)
           /\ \/ /\ entry[p] \in held /\ held' = held \ {entry[p]} /\ wire'[p] = "done"
                 /\ Cleared(p)' = Cleared(p) \union {entry[p]}
                 /\ Left(p)' = Left(p) \ {entry[p]}
              \/ /\ entry[p] \notin held /\ held' = held /\ wire'[p] = "error"
                 /\ Cleared(p)' = Cleared(p)
<1>1. /\ stage' = stage /\ todo' = todo /\ entry' = entry /\ stage[p] \in Deleting
      /\ \A q \in Runs : q # p => wire'[q] = wire[q]
      /\ entry[p] \in Entries /\ entry[p] \in todo[p] /\ Left(p) = todo[p]
      /\ stage[p] = "deleteRecords" => entry[p] \in Records
      /\ stage[p] = "deleteProbes" => entry[p] \in Probes
    BY DEF ExecuteDel, TypeOK, Deleting, Left
<1>2. \A q \in Runs : q # p => Cleared(q)' = Cleared(q) /\ Written(q)' = Written(q)
    BY <1>1, OthersKeep
<1>3. Written(p) = {} /\ Written(p)' = {}
    BY <1>1 DEF Written, Deleting
<1>4. CASE entry[p] \in held
    <2>1. held' = held \ {entry[p]} /\ wire'[p] = "done"
        BY <1>4 DEF ExecuteDel, TypeOK
    <2>2. Left(p)' = Left(p) \ {entry[p]}
        BY <1>1, <2>1 DEF Left
    <2>3. Cleared(p)' = Cleared(p) \union {entry[p]}
        BY <1>1, <2>2, EntriesAssumption DEF Cleared, Deleting
    <2> QED BY <1>1, <1>2, <1>3, <1>4, <2>1, <2>2, <2>3
<1>5. CASE entry[p] \notin held
    <2>1. held' = held /\ wire'[p] = "error"
        BY <1>5 DEF ExecuteDel, TypeOK
    <2>2. Left(p)' = Left(p)
        BY <1>1, <2>1 DEF Left
    <2>3. Cleared(p)' = Cleared(p)
        BY <1>1, <2>2 DEF Cleared
    <2> QED BY <1>1, <1>2, <1>3, <1>5, <2>1, <2>3
<1> QED BY <1>4, <1>5

\* An executed Add writes the entry it is about, which its run has cleared, or it
\* meets an existing one and changes nothing.
LEMMA AddEffect ==
    ASSUME TypeOK, NEW p \in Runs, ExecuteAdd(p)
    PROVE  /\ entry[p] \in Entries /\ stage'[p] = "add"
           /\ \A q \in Runs : Cleared(q)' = Cleared(q)
           /\ \A q \in Runs : q # p => Written(q)' = Written(q)
           /\ entry[p] \in Cleared(p) /\ entry[p] \notin Written(p)
           /\ \/ /\ entry[p] \notin held /\ held' = held \union {entry[p]}
                 /\ wire'[p] = "done"
                 /\ Written(p)' = Written(p) \union {entry[p]}
              \/ /\ entry[p] \in held /\ held' = held /\ wire'[p] = "error"
                 /\ Written(p)' = Written(p)
<1>1. /\ stage' = stage /\ todo' = todo /\ entry' = entry /\ stage[p] = "add"
      /\ \A q \in Runs : q # p => wire'[q] = wire[q]
      /\ entry[p] \in Entries /\ entry[p] \in todo[p] /\ Left(p) = todo[p]
    BY DEF ExecuteAdd, TypeOK, Left
<1>2. \A q \in Runs : q # p => Cleared(q)' = Cleared(q) /\ Written(q)' = Written(q)
    BY <1>1, OthersKeep
<1>3. Cleared(p) = Entries /\ Cleared(p)' = Entries
    BY <1>1 DEF Cleared, Entries
<1>4. Written(p) = Entries \ Left(p) /\ Written(p)' = Entries \ Left(p)'
    BY <1>1 DEF Written
<1>5. CASE entry[p] \notin held
    <2>1. held' = held \union {entry[p]} /\ wire'[p] = "done"
        BY <1>5 DEF ExecuteAdd, TypeOK
    <2>2. Left(p)' = Left(p) \ {entry[p]}
        BY <1>1, <2>1 DEF Left
    <2>3. Written(p)' = Written(p) \union {entry[p]}
        BY <1>1, <1>4, <2>2
    <2> QED BY <1>1, <1>2, <1>3, <1>4, <1>5, <2>1, <2>3
<1>6. CASE entry[p] \in held
    <2>1. held' = held /\ wire'[p] = "error"
        BY <1>6 DEF ExecuteAdd, TypeOK
    <2>2. Left(p)' = Left(p)
        BY <1>1, <2>1 DEF Left
    <2> QED BY <1>1, <1>2, <1>3, <1>4, <1>6, <2>1, <2>2
<1> QED BY <1>5, <1>6

-----------------------------------------------------------------------------

\* Every action keeps the account.
LEMMA NextAccounted ==
    ASSUME TypeOK, Shapes, Accounted, [Next]_vars PROVE Accounted'
<1>1. ASSUME NEW p \in Runs, Other(p) PROVE Accounted'
    BY <1>1, OtherQuiet DEF Quiet, Accounted, Owed
<1>2. ASSUME NEW p \in Runs, List(p) PROVE Accounted'
    <2>1. PICK S \in SUBSET (Entries \ held) :
              /\ Cleared(p)' = Cleared(p) \union S
              /\ Written(p) = {} /\ Written(p)' = {}
              /\ \A q \in Runs : q # p =>
                    Cleared(q)' = Cleared(q) /\ Written(q)' = Written(q)
              /\ held' = held
        BY <1>2, ListEffect
    <2> QED BY <2>1 DEF Accounted, Owed
<1>3. ASSUME NEW p \in Runs, ExecuteDel(p) PROVE Accounted'
    BY <1>3, DelEffect DEF Accounted, Owed
<1>4. ASSUME NEW p \in Runs, ExecuteAdd(p) PROVE Accounted'
    BY <1>4, AddEffect DEF Accounted, Owed
<1>5. CASE UNCHANGED vars
    BY <1>5 DEF vars, Accounted, Owed, Cleared, Written, Left
<1> QED BY <1>1, <1>2, <1>3, <1>4, <1>5 DEF Next, Other

\* A run that has not begun has cleared nothing and has nothing left to delete.
LEMMA UnbegunOwn ==
    ASSUME TypeOK, Shapes, NEW p \in Runs, stage[p] = "listRecords"
    PROVE  Own(p) /\ Cleared(p) = {} /\ stage[p] \notin Deleting
BY StageFacts DEF Own, Deleting

\* What a run does to itself, other than listing and executing, leaves an
\* undisturbed run undisturbed.
LEMMA OtherUndisturbed ==
    ASSUME TypeOK, Shapes, Undisturbed, NEW p \in Runs, Other(p)
    PROVE  Undisturbed'
<1>1. Quiet
    BY OtherQuiet
<1>2. /\ faulted \subseteq faulted' /\ expired' \subseteq faulted'
      /\ \A q \in Runs \ {p} : phase'[q] = phase[q] /\ wire'[q] = wire[q]
    BY DEF Other, Start, Ready, Dispatch, Unsupported, Send, Answer, NextLoop, Lose, Query, Verify,
           Expire, GiveUp, Break, historyVars, TypeOK, Undisturbed
<1>3. \A q \in Runs \ {p} : /\ stage'[q] = stage[q] /\ todo'[q] = todo[q]
                            /\ entry'[q] = entry[q] /\ wire'[q] = wire[q]
    BY DEF TypeOK, Other, Start, Ready, Send, Answer, NextLoop, Lose, Query, Verify, Expire,
           GiveUp, Break
<1>4. \A q \in Runs \ {p} : Own(q) => Own(q)'
    BY <1>1, <1>3, OthersKeep DEF Own, Quiet, Deleting
<1>5. Own(p) => Own(p)'
    BY <1>1, OtherQuiet DEF Own, Quiet, Deleting
<1>6. ASSUME phase'[p] \in Active, p \notin faulted' \union crossed'
      PROVE  wire'[p] # "error" /\ Own(p)'
    <2>1. CASE Start(p)
        <3>1. stage[p] = "listRecords" /\ wire[p] = "none" /\ wire' = wire
            BY <2>1 DEF Start, Shapes, Shape
        <3> QED BY <3>1, UnbegunOwn, <1>5
    <2>2. CASE ~Start(p)
        <3>1. phase[p] \in Active
            BY <2>2, <1>6 DEF Other, Ready, Send, Answer, NextLoop, Lose, Query, Verify, Expire,
                              GiveUp, Break, Active, TypeOK, Phases
        <3>2. wire[p] # "error" /\ Own(p)
            BY <3>1, <1>1, <1>2, <1>6 DEF Undisturbed, Quiet
        <3>3. wire'[p] # "error"
            BY <2>2, <3>2, <1>6 DEF Other, Ready, Send, Answer, NextLoop, Lose, Query, Verify,
                                    Expire, GiveUp, Break, TypeOK
        <3> QED BY <3>2, <3>3, <1>5
    <2> QED BY <2>1, <2>2
<1> QED BY <1>1, <1>2, <1>4, <1>6 DEF Undisturbed, Quiet

\* A listing does too: it leaves exactly what it found.
LEMMA ListUndisturbed ==
    ASSUME TypeOK, Shapes, Undisturbed, NEW p \in Runs, List(p)
    PROVE  Undisturbed'
<1>1. /\ UNCHANGED <<phase, wire, expired, faulted, crossed>>
      /\ \A q \in Runs \ {p} : stage'[q] = stage[q] /\ todo'[q] = todo[q] /\ entry'[q] = entry[q]
    BY DEF List, TypeOK, historyVars
<1>2. PICK S \in SUBSET (Entries \ held) :
          /\ Cleared(p)' = Cleared(p) \union S
          /\ Written(p) = {} /\ Written(p)' = {}
          /\ \A q \in Runs : q # p => Cleared(q)' = Cleared(q) /\ Written(q)' = Written(q)
          /\ held' = held /\ Left(p)' \subseteq held
    BY ListEffect
<1>3. \A q \in Runs \ {p} : Own(q) => Own(q)'
    BY <1>1, <1>2, OthersKeep DEF Own, Deleting
<1>4. Own(p) => Own(p)'
    BY <1>2 DEF Own
<1> QED BY <1>1, <1>3, <1>4 DEF Undisturbed

\* An executed request crosses every other run that has begun, and is what the
\* undisturbed run it belongs to expects.
LEMMA ExecuteUndisturbed ==
    ASSUME TypeOK, Shapes, Undisturbed, NEW p \in Runs, ExecuteDel(p) \/ ExecuteAdd(p)
    PROVE  Undisturbed'
<1>1. /\ UNCHANGED <<phase, stage, todo, entry, expired, faulted>>
      /\ crossed' = crossed \union Between(p)
      /\ \A q \in Runs \ {p} : wire'[q] = wire[q]
    BY DEF ExecuteDel, ExecuteAdd, TypeOK
<1>2. ASSUME NEW q \in Runs \ {p}, phase[q] \in Active, q \notin faulted' \union crossed'
      PROVE  wire'[q] # "error" /\ Own(q)'
    <2>1. stage[q] = "listRecords" /\ wire[q] # "error"
        BY <1>1, <1>2 DEF Between, Begun, Undisturbed
    <2>2. Cleared(q)' = {} /\ stage'[q] \notin Deleting
        BY <1>1, <2>1, UnbegunOwn, OthersKeep DEF Deleting
    <2> QED BY <1>1, <2>1, <2>2 DEF Own, Deleting
<1>3. ASSUME phase[p] \in Active, p \notin faulted' \union crossed'
      PROVE  wire'[p] # "error" /\ Own(p)'
    <2>1. Own(p)
        BY <1>1, <1>3 DEF Undisturbed
    <2>2. CASE ExecuteDel(p)
        <3>1. stage[p] \in Deleting
            BY <2>2 DEF ExecuteDel, Deleting
        <3>2. entry[p] \in held
            BY <2>1, <2>2, <3>1, DelEffect DEF Own
        <3> QED BY <2>1, <2>2, <3>1, <3>2, DelEffect DEF Own
    <2>3. CASE ExecuteAdd(p)
        <3>1. entry[p] \notin held
            BY <2>1, <2>3, AddEffect DEF Own
        <3>2. stage'[p] \notin Deleting
            BY <2>3, AddEffect DEF Deleting
        <3> QED BY <2>1, <2>3, <3>1, <3>2, AddEffect DEF Own, Deleting
    <2> QED BY <2>2, <2>3
<1> QED BY <1>1, <1>2, <1>3 DEF Undisturbed

\* So every action keeps what is said of a run that nobody disturbed.
LEMMA NextUndisturbed ==
    ASSUME TypeOK, Shapes, Undisturbed, [Next]_vars PROVE Undisturbed'
<1>1. CASE UNCHANGED vars
    BY <1>1 DEF vars, Undisturbed, Own, Cleared, Written, Left
<1> QED BY <1>1, OtherUndisturbed, ListUndisturbed, ExecuteUndisturbed DEF Next, Other

\* A reset or check fails by its deadline, by a fault, or by an error; an error
\* and a missing record are what an undisturbed run does not meet.
LEMMA NextReplayable ==
    ASSUME TypeOK, Shapes, Undisturbed, Replayable, [Next]_vars PROVE Replayable'
<1>1. faulted \subseteq faulted' /\ crossed \subseteq crossed'
    BY DEF Next, vars, historyVars, Start, Ready, Dispatch, Unsupported, List, Send, Answer,
           NextLoop, ExecuteDel, ExecuteAdd, Lose, Query, Verify, Expire, GiveUp, Break
<1>2. SUFFICES ASSUME NEW p \in Runs, phase'[p] = "failed", command'[p] \in Resets,
                      phase[p] # "failed"
               PROVE  p \in faulted' \union crossed'
    <2>1. \A p \in Runs : phase[p] = "failed" => command'[p] = command[p]
        BY DEF Next, vars, historyVars, Start, Ready, List, Send, Answer, NextLoop,
               ExecuteDel, ExecuteAdd, Lose, Query, Verify, Expire, GiveUp, Break, TypeOK
    <2> QED BY <1>1, <1>2, <2>1 DEF Replayable, IsReset
<1>3. CASE Answer(p)
    BY <1>1, <1>2, <1>3 DEF Answer, Undisturbed, Active
<1>4. CASE Verify(p)
    <2>1. CASE Matches
        BY <1>2, <1>4, <2>1 DEF Verify, TypeOK
    <2>2. CASE ~Matches /\ p \notin faulted \union crossed
        <3>1. stage[p] = "end" /\ Own(p)
            BY <1>2, <1>4, <2>2 DEF Verify, Shapes, Shape, Undisturbed, Active
        <3>2. Entries \subseteq held
            BY <3>1, StageFacts DEF Own
        <3> QED BY <2>2, <3>2 DEF Matches, Entries
    <2> QED BY <1>1, <2>1, <2>2
<1>5. CASE GiveUp(p)
    BY <1>1, <1>5 DEF GiveUp, Undisturbed
<1>6. CASE Ready(p)
    BY <1>2, <1>6 DEF Ready, Dispatch, Unsupported, TypeOK, Resets
<1>7. CASE Break(p)
    BY <1>7 DEF Break
<1>8. ASSUME NEW q \in Runs, q # p,
             Start(q) \/ Ready(q) \/ Answer(q) \/ NextLoop(q) \/ Query(q) \/ Verify(q) \/ GiveUp(q) \/ Break(q)
      PROVE  FALSE
    BY <1>2, <1>8 DEF Start, Ready, Dispatch, Unsupported, Answer, NextLoop, Query, Verify, GiveUp,
           Break, TypeOK
<1>9. ~Start(p) /\ ~NextLoop(p) /\ ~Query(p)
    BY <1>2 DEF Start, NextLoop, Query, TypeOK
<1>10. ASSUME NEW q \in Runs,
             \/ List(q) \/ Send(q) \/ ExecuteDel(q) \/ ExecuteAdd(q) \/ Lose(q) \/ Expire(q)
      PROVE  FALSE
    BY <1>2, <1>10 DEF List, Send, ExecuteDel, ExecuteAdd, Lose, Expire
<1>11. ~UNCHANGED vars
    BY <1>2 DEF vars
<1> QED BY <1>3, <1>4, <1>5, <1>6, <1>7, <1>8, <1>9, <1>10, <1>11 DEF Next

-----------------------------------------------------------------------------

\* The invariant holds in every state.
THEOREM InvariantHolds == Spec => []IInv
<1>1. IInv /\ [Next]_vars => IInv'
    BY NextTypeOK, NextShapes, NextAccounted, NextUndisturbed, NextReplayable DEF IInv
<1> QED BY InitIInv, <1>1, PTL DEF Spec

\* The variables keep their types, and an operation of ResetLDAP (ldap.go) in
\* flight is about an entry its loop has still to get through.
THEOREM TypeCorrect == Spec => []TypeOK
BY InvariantHolds, PTL DEF IInv

\* A missing entry is one whose place no ResetLDAP has cleared or one that a run
\* has cleared and still has to add, however stale its listing has become.
THEOREM AccountedHolds == Spec => []Accounted
BY InvariantHolds, PTL DEF IInv

\* Without a fault and without another run, no Del of ResetLDAP misses and no Add
\* meets an existing entry, whatever an interrupted run has left.
THEOREM ReplayableHolds == Spec => []Replayable
BY InvariantHolds, PTL DEF IInv

\* When some reset or check has succeeded and none is unfinished or failed, every
\* entry is there.
THEOREM SettledHolds == Spec => []Settled
<1>1. IInv => Settled
    <2>1. SUFFICES ASSUME IInv, NEW q \in Runs, IsReset(q), phase[q] = "ok",
                          \A p \in Runs : IsReset(p) => phase[p] = "ok"
                   PROVE  held = Entries
        BY DEF Settled
    <2>2. \A p \in Runs : (Cleared(p) = Entries /\ Written(p) = Entries) \/ Cleared(p) = {}
        <3> SUFFICES ASSUME NEW p \in Runs
                     PROVE  (Cleared(p) = Entries /\ Written(p) = Entries) \/ Cleared(p) = {}
            OBVIOUS
        <3>1. stage[p] \in {"end", "listRecords"}
            BY <2>1 DEF IInv, Shapes, Shape, IsReset
        <3> QED BY <2>1, <3>1, StageFacts DEF IInv
    <2>3. Cleared(q) = Entries
        BY <2>1, StageFacts DEF IInv, Shapes, Shape, IsReset
    <2>4. Entries \subseteq held
        BY <2>1, <2>2, <2>3 DEF IInv, Accounted, Owed
    <2> QED BY <2>1, <2>4 DEF IInv, TypeOK
<1> QED BY InvariantHolds, <1>1, PTL

-----------------------------------------------------------------------------

\* Nothing is owed before the first run begins.
LEMMA InitRefines == Init => Contract!Init
<1> SUFFICES ASSUME Init PROVE Contract!Init
    OBVIOUS
<1>1. TypeOK /\ Shapes
    BY InitIInv DEF IInv
<1>2. \A p \in Runs : Cleared(p) = {} /\ ~IsReset(p)
    BY <1>1, StageFacts DEF Init, IsReset
<1>3. lostBar = Entries \ held /\ \A p \in Runs : Owed(p) = {}
    BY <1>2 DEF lostBar, Owed
<1> QED BY <1>2, <1>3 DEF Init, Contract!Init, owedBar, outcomeBar

\* A quiet step of run p is a step of the contract: the run begins, ends, or
\* makes progress the contract does not see.
LEMMA OtherRefines ==
    ASSUME IInv, IInv', NEW p \in Runs, Other(p)
    PROVE  Contract!Next \/ UNCHANGED Contract!vars
<1>1. UNCHANGED <<held, lostBar, owedBar>>
    BY OtherQuiet DEF IInv, Quiet, lostBar, owedBar, Owed
<1>2. \A q \in Runs : q # p => phase'[q] = phase[q] /\ command'[q] = command[q]
    BY DEF Other, Start, Ready, Dispatch, Unsupported, Send, Answer, NextLoop, Lose, Query, Verify,
           Expire, GiveUp, Break, IInv, TypeOK
<1>3. \A q \in Runs : q # p => outcomeBar'[q] = outcomeBar[q]
    BY <1>2 DEF outcomeBar, IsReset
<1>4. outcomeBar' = [outcomeBar EXCEPT ![p] = outcomeBar'[p]]
    BY <1>3 DEF outcomeBar
<1>5. CASE outcomeBar'[p] = outcomeBar[p]
    <2>1. outcomeBar' = outcomeBar
        BY <1>4, <1>5 DEF outcomeBar
    <2> QED BY <2>1, <1>1 DEF Contract!vars
<1>6. CASE outcomeBar[p] = "idle" /\ outcomeBar'[p] = "active"
    <2>1. Contract!Begin(p)
        BY <1>1, <1>4, <1>6 DEF Contract!Begin
    <2> QED BY <2>1 DEF Contract!Next
<1>7. CASE outcomeBar[p] = "active" /\ outcomeBar'[p] = "failed"
    <2>1. Contract!Fail(p)
        BY <1>1, <1>4, <1>7 DEF Contract!Fail
    <2> QED BY <2>1 DEF Contract!Next
<1>8. CASE outcomeBar[p] = "active" /\ outcomeBar'[p] = "ok"
    <2>1. stage'[p] = "end" /\ todo'[p] = {}
        BY <1>8 DEF outcomeBar, IsReset, IInv, Shapes, Shape, Resets
    <2>2. Left(p)' = {}
        BY <2>1 DEF Left
    <2>3. Cleared(p)' = Entries /\ Written(p)' = Entries
        BY <2>1, <2>2 DEF Cleared, Written, Entries
    <2>4. owedBar'[p] = {} /\ lostBar' = {}
        BY <2>3 DEF owedBar, lostBar, Owed
    <2>5. Contract!Succeed(p)
        BY <1>1, <1>4, <1>8, <2>4 DEF Contract!Succeed
    <2> QED BY <2>5 DEF Contract!Next
<1>9. \/ outcomeBar'[p] = outcomeBar[p]
      \/ outcomeBar[p] = "idle" /\ outcomeBar'[p] = "active"
      \/ outcomeBar[p] = "active" /\ outcomeBar'[p] \in {"ok", "failed"}
    BY DEF outcomeBar, IsReset, Active, Phases, IInv, TypeOK, Other, Start, Ready, Dispatch,
           Unsupported, Send, Answer, NextLoop, Lose, Query, Verify, Expire, GiveUp, Break, Resets,
           historyVars
<1> QED BY <1>5, <1>6, <1>7, <1>8, <1>9

\* What a run that lists, deletes or adds may be in the contract: its process may
\* be gone while the directory executes its last request.
LEMMA WorkingOutcome ==
    ASSUME TypeOK, Shapes, NEW p \in Runs, phase[p] = "resetting" \/ wire[p] = "sent"
    PROVE  outcomeBar[p] \in {"active", "failed"}
<1>1. phase[p] \in {"resetting", "failed"} /\ command[p] \in Resets
    BY DEF TypeOK, Shapes, Shape, Phases, Active
<1> QED BY <1>1 DEF outcomeBar, IsReset, Active

\* A listing is the contract's Clear of the entries that were not there.
LEMMA ListRefines ==
    ASSUME IInv, NEW p \in Runs, List(p)
    PROVE  Contract!Next
<1>1. UNCHANGED outcomeBar /\ outcomeBar[p] \in {"active", "failed"}
    BY WorkingOutcome DEF List, outcomeBar, IsReset, IInv
<1>2. PICK S \in SUBSET (Entries \ held) :
          /\ Cleared(p)' = Cleared(p) \union S
          /\ Written(p) = {} /\ Written(p)' = {}
          /\ \A q \in Runs : q # p => Cleared(q)' = Cleared(q) /\ Written(q)' = Written(q)
          /\ held' = held
    BY ListEffect DEF IInv
<1>3. lostBar' = lostBar \ S /\ held' = held \ S
    BY <1>2 DEF lostBar
<1>4. /\ Owed(p)' = Owed(p) \union S
      /\ \A q \in Runs : q # p => Owed(q)' = Owed(q)
    BY <1>2 DEF Owed
<1>5. owedBar' = [owedBar EXCEPT ![p] = @ \union S]
    BY <1>4 DEF owedBar
<1>6. Contract!Clear(p, S)
    BY <1>1, <1>3, <1>5 DEF Contract!Clear
<1> QED BY <1>6 DEF Contract!Next

\* An executed Del is the contract's Clear of one entry, or changes nothing.
LEMMA DelRefines ==
    ASSUME IInv, NEW p \in Runs, ExecuteDel(p)
    PROVE  Contract!Next \/ UNCHANGED Contract!vars
<1> DEFINE e == entry[p]
<1>1. UNCHANGED outcomeBar /\ outcomeBar[p] \in {"active", "failed"}
    BY WorkingOutcome DEF ExecuteDel, outcomeBar, IsReset, IInv
<1>2. CASE held' = held /\ Cleared(p)' = Cleared(p)
    <2>1. UNCHANGED <<lostBar, owedBar>>
        BY <1>2, DelEffect DEF IInv, lostBar, owedBar, Owed
    <2> QED BY <1>1, <1>2, <2>1 DEF Contract!vars
<1>3. CASE held' = held \ {e} /\ Cleared(p)' = Cleared(p) \union {e}
    <2>1. lostBar' = lostBar \ {e}
        BY <1>3, DelEffect DEF IInv, lostBar
    <2>2. /\ Owed(p)' = Owed(p) \union {e}
          /\ \A q \in Runs : q # p => Owed(q)' = Owed(q)
        BY <1>3, DelEffect DEF IInv, Owed
    <2>3. owedBar' = [owedBar EXCEPT ![p] = @ \union {e}]
        BY <2>2 DEF owedBar
    <2>4. Contract!Clear(p, {e})
        BY <1>1, <1>3, <2>1, <2>3 DEF Contract!Clear
    <2>5. e \in Entries
        BY DelEffect DEF IInv
    <2> QED BY <2>4, <2>5 DEF Contract!Next
<1> QED BY <1>2, <1>3, DelEffect DEF IInv

\* An executed Add is the contract's Restore of one entry, or changes nothing.
LEMMA AddRefines ==
    ASSUME IInv, NEW p \in Runs, ExecuteAdd(p)
    PROVE  Contract!Next \/ UNCHANGED Contract!vars
<1> DEFINE e == entry[p]
<1>1. UNCHANGED outcomeBar /\ outcomeBar[p] \in {"active", "failed"}
    BY WorkingOutcome DEF ExecuteAdd, outcomeBar, IsReset, IInv
<1>2. CASE held' = held /\ Written(p)' = Written(p)
    <2>1. UNCHANGED <<lostBar, owedBar>>
        BY <1>2, AddEffect DEF IInv, lostBar, owedBar, Owed
    <2> QED BY <1>1, <1>2, <2>1 DEF Contract!vars
<1>3. CASE held' = held \union {e} /\ Written(p)' = Written(p) \union {e}
    <2>1. lostBar' = lostBar \ {e}
        BY <1>3, AddEffect DEF IInv, lostBar
    <2>2. /\ Owed(p)' = Owed(p) \ {e}
          /\ \A q \in Runs : q # p => Owed(q)' = Owed(q)
        BY <1>3, AddEffect DEF IInv, Owed
    <2>3. owedBar' = [owedBar EXCEPT ![p] = @ \ {e}]
        BY <2>2 DEF owedBar
    <2>4. Contract!Restore(p, {e})
        BY <1>1, <1>3, <2>1, <2>3 DEF Contract!Restore
    <2>5. e \in Entries
        BY AddEffect DEF IInv
    <2> QED BY <2>4, <2>5 DEF Contract!Next
<1> QED BY <1>2, <1>3, AddEffect DEF IInv

\* ResetLDAP, request by request and with listings that grow stale, implements
\* FixtureContract: exit statuses can be trusted for any runs and entries.
THEOREM RefinesHolds == Spec => Refines
<1>1. IInv /\ IInv' /\ [Next]_vars => [Contract!Next]_(Contract!vars)
    <2> SUFFICES ASSUME IInv, IInv', [Next]_vars
                 PROVE  Contract!Next \/ UNCHANGED Contract!vars
        OBVIOUS
    <2>1. CASE UNCHANGED vars
        BY <2>1 DEF vars, Contract!vars, lostBar, owedBar, outcomeBar, Owed, Cleared,
                    Written, Left, IsReset
    <2>2. CASE Next
        BY <2>2, OtherRefines, ListRefines, DelRefines, AddRefines DEF Next, Other
    <2> QED BY <2>1, <2>2
<1> QED BY InitRefines, InvariantHolds, <1>1, PTL DEF Spec, Refines, Contract!Spec

=============================================================================
