------------------------ MODULE MongoFixtureProofs ------------------------
(***************************************************************************)
(* Proofs about MongoFixture, for any runs, documents and commands.        *)
(*                                                                         *)
(* The argument.  Everything a run does to the collections is in two       *)
(* predicates: Cleared(p, d), that its DeleteMany has passed document d,   *)
(* and Written(p, d), that its InsertMany has.  Both are stable, only      *)
(* DeleteOne makes the first true and only InsertOne the second, and a     *)
(* document is written by a run only after the same run has cleared it.    *)
(* Accounted follows from that.  A run that nobody disturbed finds exactly *)
(* what it has written among what it has cleared (Undisturbed), so it      *)
(* never meets a duplicate.  And since InsertMany is ordered, what a run   *)
(* has written is a prefix of the documents: of any two runs one is ahead, *)
(* and the document that stops a run was put there by a run ahead of it    *)
(* (Leader).                                                               *)
(***************************************************************************)
EXTENDS MongoFixture, TLAPS

Docs == Records \union Probes

\* How a run's phase and command go with the call of ResetMongo it is at.
Shape(p) ==
    /\ phase[p] \in {"idle", "waiting"} => step[p] = 1 /\ wire[p] = "none"
    /\ command[p] \notin Resets => step[p] = 1 /\ wire[p] = "none"
    /\ phase[p] \in {"verifying", "ok"} /\ command[p] \in Resets => step[p] = Steps + 1
    /\ phase[p] = "resetting" => command[p] \in Resets
    /\ phase[p] = "verifying" => command[p] # "reset"

Shapes == \A p \in Runs : Shape(p)

\* Of the documents run p has cleared, the collections hold those it has written.
Own(p) == \A d \in Docs : Cleared(p, d) => (d \in held <=> Written(p, d))

\* A run that met no fault and no other run has found what it left.
Undisturbed ==
    /\ expired \subseteq faulted
    /\ \A p \in Runs :
          phase[p] \in Active /\ p \notin faulted \union crossed
             => wire[p] # "error" /\ Own(p)

\* A document that a run has cleared and that is there was written by some run.
Supplied ==
    \A d \in held :
        (\E p \in Runs : Cleared(p, d)) => \E u \in Runs : Written(u, d)

\* InsertMany goes through the documents in their order.
Ordered ==
    \A p \in Runs : wire[p] # "none" /\ ~IsDelete(step[p]) =>
        \A d \in Documents(step[p]) \ todo[p], e \in todo[p] : d < e

\* What run p has written, and the runs whose InsertMany met a duplicate.
Wrote(p) == {d \in Docs : Written(p, d)}
Refused == {p \in Runs : wire[p] = "error"}

\* Without faults a reset fails only by a duplicate, and some reset that met none
\* is ahead of all those that did.
Leader ==
    faulted = {} =>
        /\ \A p \in Runs : command[p] = "reset" /\ phase[p] = "failed" => p \in Refused
        /\ Refused # {} =>
              \E q \in Runs \ Refused :
                 IsReset(q) /\ \A p \in Refused : Wrote(p) \subseteq Wrote(q)

IInv ==
    /\ TypeOK /\ Shapes /\ Accounted
    /\ Undisturbed /\ Replayable
    /\ Supplied /\ Ordered /\ Leader

-----------------------------------------------------------------------------

\* The documents of the four calls; the two collections have none in common.
LEMMA DocumentFacts ==
    /\ Steps = 4
    /\ Documents(1) = Records /\ Documents(2) = Records
    /\ Documents(3) = Probes /\ Documents(4) = Probes
    /\ \A k \in 1 .. 4 : Documents(k) \subseteq Docs
    /\ Docs \subseteq Nat /\ Records \intersect Probes = {}
    /\ \A k \in 1 .. 4 : IsDelete(k) <=> k = 1 \/ k = 3
BY DocumentsAssumption DEF Steps, Documents, Docs, IsDelete

\* A run that has not begun has cleared and written nothing.
LEMMA UnbegunClean ==
    ASSUME NEW p \in Runs, step[p] = 1, wire[p] = "none"
    PROVE  \A d : ~Cleared(p, d) /\ ~Written(p, d)
BY DEF Cleared, Written, Reached

\* A run past the last call has cleared and written everything.
LEMMA EndedWhole ==
    ASSUME NEW p \in Runs, step[p] = Steps + 1
    PROVE  \A d \in Docs : Cleared(p, d) /\ Written(p, d)
BY DocumentFacts DEF Cleared, Written, Reached, Docs

\* A run writes a document only after it has cleared it.
LEMMA WrittenCleared ==
    ASSUME TypeOK, NEW p \in Runs, NEW d, Written(p, d)
    PROVE  Cleared(p, d) /\ d \in Docs
BY DocumentFacts DEF TypeOK, Written, Cleared, Reached, Docs

\* A run that has cleared something has begun.
LEMMA ClearedBegun ==
    ASSUME TypeOK, NEW p \in Runs, NEW d, Cleared(p, d)
    PROVE  Begun(p)
BY DocumentFacts DEF TypeOK, Begun, Cleared, Reached

\* The initial states satisfy the invariant: no run has begun.
LEMMA InitIInv == Init => IInv
<1> SUFFICES ASSUME Init PROVE IInv
    OBVIOUS
<1>1. \A p \in Runs : step[p] = 1 /\ wire[p] = "none" /\ phase[p] = "idle"
    BY DEF Init
<1>2. \A p \in Runs : \A d : ~Cleared(p, d) /\ ~Written(p, d)
    BY <1>1, UnbegunClean
<1>3. TypeOK
    BY DocumentFacts DEF Init, TypeOK, Phases, Docs
<1>4. Shapes /\ Replayable /\ Ordered /\ Undisturbed
    BY <1>1 DEF Init, Shapes, Shape, Resets, Replayable, IsReset, Ordered, Undisturbed,
                Active
<1>5. Accounted /\ Supplied
    BY <1>2 DEF Accounted, Supplied
<1>6. Leader
    BY <1>1 DEF Leader, Refused
<1> QED BY <1>3, <1>4, <1>5, <1>6 DEF IInv

-----------------------------------------------------------------------------

\* Every action keeps the types.
LEMMA NextTypeOK ==
    ASSUME TypeOK, Shapes, [Next]_vars PROVE TypeOK'
<1> USE DocumentFacts DEF TypeOK, Phases, historyVars
<1>1. ASSUME NEW p \in Runs, Start(p) PROVE TypeOK'
    BY <1>1, CommandsAssumption DEF Start
<1>2. ASSUME NEW p \in Runs, Ready(p) PROVE TypeOK'
    BY <1>2 DEF Ready, Dispatch, Unsupported, Return, Shapes, Shape, Resets
<1>3. ASSUME NEW p \in Runs, Send(p) PROVE TypeOK'
    BY <1>3 DEF Send, Docs
<1>4. ASSUME NEW p \in Runs, NEW d \in Docs, DeleteOne(p, d) PROVE TypeOK'
    BY <1>4 DEF DeleteOne, Between
<1>5. ASSUME NEW p \in Runs, NEW d \in Docs, InsertOne(p, d) PROVE TypeOK'
    BY <1>5 DEF InsertOne, Between, Docs
<1>6. ASSUME NEW p \in Runs, Lose(p) PROVE TypeOK'
    BY <1>6 DEF Lose
<1>7. ASSUME NEW p \in Runs, Answer(p) PROVE TypeOK'
    BY <1>7 DEF Answer, Return, ReturnError
<1>8. ASSUME NEW p \in Runs, Verify(p) PROVE TypeOK'
    BY <1>8 DEF Verify, Return, ReturnError
<1>9. ASSUME NEW p \in Runs, Expire(p) PROVE TypeOK'
    BY <1>9 DEF Expire
<1>10. ASSUME NEW p \in Runs, GiveUp(p) PROVE TypeOK'
    BY <1>10 DEF GiveUp, ReturnError
<1>11. ASSUME NEW p \in Runs, Break(p) PROVE TypeOK'
    BY <1>11 DEF Break
<1>12. CASE UNCHANGED vars
    BY <1>12 DEF vars
<1> QED
    BY <1>1, <1>2, <1>3, <1>4, <1>5, <1>6, <1>7, <1>8, <1>9, <1>10, <1>11, <1>12
    DEF Next, Docs

\* Every action keeps a run's phase in step with its call.
LEMMA NextShapes ==
    ASSUME TypeOK, Shapes, [Next]_vars PROVE Shapes'
<1> USE DocumentFacts DEF Shapes, Shape, TypeOK, Phases, Resets, Active
<1>1. ASSUME NEW p \in Runs, Start(p) PROVE Shapes'
    BY <1>1 DEF Start
<1>2. ASSUME NEW p \in Runs, Ready(p) PROVE Shapes'
    BY <1>2 DEF Ready, Dispatch, Unsupported, Return
<1>3. ASSUME NEW p \in Runs, Send(p) PROVE Shapes'
    BY <1>3 DEF Send
<1>4. ASSUME NEW p \in Runs, NEW d \in Docs, DeleteOne(p, d) PROVE Shapes'
    BY <1>4 DEF DeleteOne
<1>5. ASSUME NEW p \in Runs, NEW d \in Docs, InsertOne(p, d) PROVE Shapes'
    BY <1>5 DEF InsertOne
<1>6. ASSUME NEW p \in Runs, Lose(p) PROVE Shapes'
    BY <1>6 DEF Lose
<1>7. ASSUME NEW p \in Runs, Answer(p) PROVE Shapes'
    BY <1>7 DEF Answer, Return, ReturnError
<1>8. ASSUME NEW p \in Runs, Verify(p) PROVE Shapes'
    BY <1>8 DEF Verify, Return, ReturnError
<1>9. ASSUME NEW p \in Runs, Expire(p) PROVE Shapes'
    BY <1>9 DEF Expire
<1>10. ASSUME NEW p \in Runs, GiveUp(p) PROVE Shapes'
    BY <1>10 DEF GiveUp, ReturnError
<1>11. ASSUME NEW p \in Runs, Break(p) PROVE Shapes'
    BY <1>11 DEF Break
<1>12. CASE UNCHANGED vars
    BY <1>12 DEF vars
<1> QED
    BY <1>1, <1>2, <1>3, <1>4, <1>5, <1>6, <1>7, <1>8, <1>9, <1>10, <1>11, <1>12
    DEF Next, Docs

-----------------------------------------------------------------------------

\* What the actions other than DeleteOne and InsertOne leave alone.
Quiet ==
    /\ held' = held /\ crossed' = crossed
    /\ \A q \in Runs : \A d : /\ Cleared(q, d)' <=> Cleared(q, d)
                              /\ Written(q, d)' <=> Written(q, d)

\* The actions of a run and its environment, without those that change documents.
Other(p) ==
    \/ Start(p) \/ Ready(p) \/ Send(p) \/ Lose(p) \/ Answer(p)
    \/ Verify(p) \/ Expire(p) \/ GiveUp(p) \/ Break(p)

\* Sending a call and receiving its answer do not change what a run has reached.
LEMMA OtherQuiet ==
    ASSUME TypeOK, NEW p \in Runs, Other(p) PROVE Quiet
<1> USE DocumentFacts DEF Quiet, Cleared, Written, Reached, historyVars
<1>1. CASE Start(p)   BY <1>1 DEF Start
<1>2. CASE Ready(p)   BY <1>2 DEF Ready, Dispatch, Unsupported, Return
<1>3. CASE Send(p)
    <2>1. /\ held' = held /\ crossed' = crossed /\ step' = step
          /\ wire[p] = "none" /\ wire'[p] = "sent" /\ todo'[p] = Documents(step[p])
          /\ \A q \in Runs : q # p => wire'[q] = wire[q] /\ todo'[q] = todo[q]
        BY <1>3 DEF Send, TypeOK
    <2>2. ASSUME NEW q \in Runs, NEW k \in 1 .. 4, NEW d
          PROVE  Reached(q, k, d)' <=> Reached(q, k, d)
        BY <2>1
    <2> QED BY <2>1, <2>2
<1>4. CASE Lose(p)
    BY <1>4 DEF Lose, TypeOK
<1>5. CASE Answer(p)
    <2>1. held' = held /\ crossed' = crossed /\ todo' = todo
        BY <1>5 DEF Answer, Return, ReturnError
    <2>2. CASE wire[p] = "sent"
        <3>1. /\ wire' = [wire EXCEPT ![p] = "none"]
              /\ step' = [step EXCEPT ![p] = @ + 1]
              /\ todo[p] = {}
            BY <1>5, <2>2 DEF Answer
        <3>2. ASSUME NEW q \in Runs, NEW k \in 1 .. 4, NEW d
              PROVE  Reached(q, k, d)' <=> Reached(q, k, d)
            BY <2>1, <2>2, <3>1 DEF TypeOK
        <3> QED BY <2>1, <3>2
    <2>3. CASE wire[p] = "error"
        BY <1>5, <2>1, <2>3 DEF Answer
    <2> QED BY <1>5, <2>2, <2>3 DEF Answer
<1>6. CASE Verify(p)  BY <1>6 DEF Verify, Return, ReturnError
<1>7. CASE Expire(p)  BY <1>7 DEF Expire
<1>8. CASE GiveUp(p)  BY <1>8 DEF GiveUp, ReturnError
<1>9. CASE Break(p)   BY <1>9 DEF Break
<1> QED BY <1>1, <1>2, <1>3, <1>4, <1>5, <1>6, <1>7, <1>8, <1>9 DEF Other

\* A deletion clears one document for its run, which has not written it.
LEMMA DeleteEffect ==
    ASSUME TypeOK, NEW p \in Runs, NEW d \in Docs, DeleteOne(p, d)
    PROVE  /\ held' = held \ {d}
           /\ Cleared(p, d)' /\ ~Written(p, d)'
           /\ \A q \in Runs : \A e : /\ Written(q, e)' <=> Written(q, e)
                                     /\ q # p \/ e # d => (Cleared(q, e)' <=> Cleared(q, e))
<1> USE DocumentFacts DEF Cleared, Written, Reached
<1>1. /\ held' = held \ {d} /\ step' = step /\ wire' = wire
      /\ wire[p] = "sent" /\ step[p] \in {1, 3} /\ d \in Documents(step[p])
      /\ todo'[p] = todo[p] \ {d}
      /\ \A q \in Runs : q # p => todo'[q] = todo[q]
    BY DEF DeleteOne, TypeOK
<1>2. ASSUME NEW q \in Runs, NEW k \in 1 .. 4, NEW e, q # p \/ e # d \/ k \in {2, 4}
      PROVE  Reached(q, k, e)' <=> Reached(q, k, e)
    BY <1>1, <1>2
<1>3. Cleared(p, d)'
    BY <1>1
<1>4. ~Written(p, d)'
    BY <1>1
<1> QED BY <1>1, <1>2, <1>3, <1>4

\* An insertion writes one document its run has cleared, or it is a duplicate and
\* stops the call.
LEMMA InsertEffect ==
    ASSUME TypeOK, NEW p \in Runs, NEW d \in Docs, InsertOne(p, d)
    PROVE  /\ Cleared(p, d) /\ ~Written(p, d)
           /\ \A q \in Runs : \A e : /\ Cleared(q, e)' <=> Cleared(q, e)
                                     /\ q # p \/ e # d => (Written(q, e)' <=> Written(q, e))
           /\ \/ /\ d \in held /\ held' = held /\ ~Written(p, d)'
                 /\ wire' = [wire EXCEPT ![p] = "error"]
              \/ /\ held' = held \union {d} /\ Written(p, d)'
                 /\ wire' = wire
<1> USE DocumentFacts DEF Cleared, Written, Reached
<1>1. /\ step' = step /\ wire[p] = "sent" /\ d \in todo[p]
      /\ step[p] \in {2, 4} /\ d \in Documents(step[p])
    BY DEF InsertOne, TypeOK
<1>2. Cleared(p, d) /\ ~Written(p, d)
    BY <1>1
<1>3. CASE d \in held
    <2>1. held' = held /\ todo' = todo /\ wire' = [wire EXCEPT ![p] = "error"]
        BY <1>3 DEF InsertOne
    <2>2. ASSUME NEW q \in Runs, NEW k \in 1 .. 4, NEW e
          PROVE  Reached(q, k, e)' <=> Reached(q, k, e)
        BY <1>1, <2>1 DEF TypeOK
    <2> QED BY <1>2, <1>3, <2>1, <2>2
<1>4. CASE d \notin held
    <2>1. /\ held' = held \union {d} /\ wire' = wire
          /\ todo'[p] = todo[p] \ {d}
          /\ \A q \in Runs : q # p => todo'[q] = todo[q]
        BY <1>4 DEF InsertOne, TypeOK
    <2>2. ASSUME NEW q \in Runs, NEW k \in 1 .. 4, NEW e, q # p \/ e # d \/ k \in {1, 3}
          PROVE  Reached(q, k, e)' <=> Reached(q, k, e)
        BY <1>1, <2>1, <2>2
    <2>3. Written(p, d)'
        BY <1>1, <2>1
    <2> QED BY <1>2, <2>1, <2>2, <2>3
<1> QED BY <1>3, <1>4

-----------------------------------------------------------------------------

\* Every action keeps the account.
LEMMA NextAccounted ==
    ASSUME TypeOK, Accounted, [Next]_vars PROVE Accounted'
<1>1. ASSUME NEW p \in Runs, Other(p) PROVE Accounted'
    BY <1>1, OtherQuiet DEF Quiet, Accounted, Owed
<1>2. ASSUME NEW p \in Runs, NEW d \in Docs, DeleteOne(p, d) PROVE Accounted'
    BY <1>2, DeleteEffect DEF Accounted, Owed
<1>3. ASSUME NEW p \in Runs, NEW d \in Docs, InsertOne(p, d) PROVE Accounted'
    BY <1>3, InsertEffect DEF Accounted, Owed
<1>4. CASE UNCHANGED vars
    BY <1>4 DEF vars, Accounted, Owed, Cleared, Written, Reached
<1> QED BY <1>1, <1>2, <1>3, <1>4 DEF Next, Other, Docs

\* Every action of a run keeps what is said of a run that nobody disturbed.
LEMMA OtherUndisturbed ==
    ASSUME TypeOK, Shapes, Undisturbed, NEW p \in Runs, Other(p)
    PROVE  Undisturbed'
<1>1. Quiet
    BY OtherQuiet
<1>2. \A q \in Runs : Own(q) => Own(q)'
    BY <1>1 DEF Quiet, Own
<1>3. /\ faulted \subseteq faulted'
      /\ \A q \in Runs \ {p} : phase'[q] = phase[q] /\ wire'[q] = wire[q]
    BY DEF Other, Start, Ready, Dispatch, Unsupported, Send, Lose, Answer, Verify,
           Expire, GiveUp, Break, Return, ReturnError, historyVars, TypeOK
<1>4. expired' \subseteq faulted'
    BY DEF Other, Start, Ready, Dispatch, Unsupported, Send, Lose, Answer, Verify,
           Expire, GiveUp, Break, Return, ReturnError, historyVars, Undisturbed
<1>5. ASSUME phase'[p] \in Active, p \notin faulted' \union crossed'
      PROVE  wire'[p] # "error" /\ Own(p)'
    <2>1. CASE Start(p)
        <3>1. wire[p] = "none" /\ wire' = wire /\ step[p] = 1
            BY <2>1 DEF Start, Shapes, Shape
        <3>2. Own(p)
            BY <3>1, UnbegunClean DEF Own
        <3> QED BY <3>1, <3>2, <1>2
    <2>2. CASE ~Start(p)
        <3>1. phase[p] \in Active
            BY <2>2, <1>5 DEF Other, Ready, Send, Lose, Answer, Verify, Expire, GiveUp,
                              Break, Active, TypeOK, Phases
        <3>2. wire[p] # "error" /\ Own(p)
            BY <3>1, <1>1, <1>3, <1>5 DEF Undisturbed, Quiet
        <3>3. wire'[p] # "error"
            BY <2>2, <3>2, <1>5 DEF Other, Ready, Send, Lose, Answer, Verify, Expire,
                               GiveUp, Break, TypeOK
        <3> QED BY <3>2, <3>3, <1>2
    <2> QED BY <2>1, <2>2
<1> QED BY <1>1, <1>2, <1>3, <1>4, <1>5 DEF Undisturbed, Quiet

\* So do the server's: whoever has begun is crossed, or it is the run's own doing.
LEMMA NextUndisturbed ==
    ASSUME TypeOK, Shapes, Undisturbed, [Next]_vars PROVE Undisturbed'
<1>1. ASSUME NEW p \in Runs, Other(p) PROVE Undisturbed'
    BY <1>1, OtherUndisturbed
<1>2. ASSUME NEW p \in Runs, NEW d \in Docs, NEW q \in Runs \ {p},
             DeleteOne(p, d) \/ InsertOne(p, d),
             phase[q] \in Active, q \notin faulted' \union crossed'
      PROVE  wire'[q] # "error" /\ Own(q)'
    <2>1. crossed' = crossed \union Between(p) /\ faulted' = faulted /\ wire'[q] = wire[q]
        BY <1>2 DEF DeleteOne, InsertOne, TypeOK
    <2>2. ~Begun(q) /\ wire[q] # "error"
        BY <1>2, <2>1 DEF Between, Undisturbed
    <2>3. \A e : ~Cleared(q, e)
        BY <2>2, ClearedBegun
    <2>4. \A e : ~Cleared(q, e)'
        BY <1>2, <2>3, DeleteEffect, InsertEffect
    <2> QED BY <2>1, <2>2, <2>4 DEF Own
<1>3. ASSUME NEW p \in Runs, NEW d \in Docs, DeleteOne(p, d) PROVE Undisturbed'
    <2>1. /\ expired' = expired /\ faulted' = faulted /\ crossed \subseteq crossed'
          /\ phase' = phase /\ wire' = wire
        BY <1>3 DEF DeleteOne
    <2>2. Own(p) => Own(p)'
        BY <1>3, DeleteEffect DEF Own
    <2> QED BY <1>2, <1>3, <2>1, <2>2 DEF Undisturbed
<1>4. ASSUME NEW p \in Runs, NEW d \in Docs, InsertOne(p, d) PROVE Undisturbed'
    <2>1. /\ expired' = expired /\ faulted' = faulted /\ crossed \subseteq crossed'
          /\ phase' = phase
        BY <1>4 DEF InsertOne
    <2>2. ASSUME phase[p] \in Active, p \notin faulted' \union crossed'
          PROVE  wire'[p] # "error" /\ Own(p)'
        <3>1. wire[p] # "error" /\ Own(p)
            BY <2>1, <2>2 DEF Undisturbed
        <3>2. d \notin held
            BY <1>4, <3>1, InsertEffect DEF Own
        <3> QED BY <1>4, <3>1, <3>2, InsertEffect DEF Own
    <2> QED BY <1>2, <1>4, <2>1, <2>2 DEF Undisturbed
<1>5. CASE UNCHANGED vars
    BY <1>5 DEF vars, Undisturbed, Own, Cleared, Written, Reached
<1> QED BY <1>1, <1>3, <1>4, <1>5 DEF Next, Other, Docs

\* A reset or check fails by its deadline, by a fault, or by an error; an error
\* and a missing document are what an undisturbed run does not meet.
LEMMA NextReplayable ==
    ASSUME TypeOK, Shapes, Undisturbed, Replayable, [Next]_vars PROVE Replayable'
<1>1. faulted \subseteq faulted' /\ crossed \subseteq crossed'
    BY DEF Next, vars, historyVars, Start, Ready, Dispatch, Unsupported, Send, DeleteOne,
           InsertOne, Lose, Answer, Verify, Expire, GiveUp, Break, Return, ReturnError
<1>2. SUFFICES ASSUME NEW p \in Runs, phase'[p] = "failed", command'[p] \in Resets,
                      phase[p] # "failed"
               PROVE  p \in faulted' \union crossed'
    <2>1. \A p \in Runs : phase[p] = "failed" => command'[p] = command[p]
        BY DEF Next, vars, historyVars, Start, Ready, Send, DeleteOne, InsertOne, Lose,
               Answer, Verify, Expire, GiveUp, Break, TypeOK
    <2> QED BY <1>1, <1>2, <2>1 DEF Replayable, IsReset
<1>3. CASE Answer(p)
    <2>1. CASE wire[p] = "error"
        BY <1>1, <1>3, <2>1 DEF Answer, Undisturbed, Active
    <2> QED BY <1>2, <1>3, <2>1 DEF Answer, Return, ReturnError, TypeOK, historyVars
<1>4. CASE Verify(p)
    <2>1. CASE Matches
        BY <1>2, <1>4, <2>1 DEF Verify, Return, TypeOK
    <2>2. CASE ~Matches /\ p \notin faulted \union crossed
        <3>1. step[p] = Steps + 1 /\ Own(p)
            BY <1>2, <1>4, <2>2 DEF Verify, Shapes, Shape, Undisturbed, Active
        <3>2. Docs \subseteq held
            BY <3>1, EndedWhole DEF Own
        <3> QED BY <2>2, <3>2 DEF Matches, Docs
    <2> QED BY <1>1, <2>1, <2>2
<1>5. CASE GiveUp(p)
    BY <1>1, <1>5 DEF GiveUp, Undisturbed
<1>6. CASE Ready(p)
    BY <1>2, <1>6 DEF Ready, Dispatch, Return, Unsupported, TypeOK
<1>7. CASE Break(p)
    BY <1>7 DEF Break
<1> QED
    BY <1>2, <1>3, <1>4, <1>5, <1>6, <1>7
    DEF Next, vars, historyVars, Start, Ready, Dispatch, Unsupported, Send, DeleteOne,
        InsertOne, Lose, Answer, Verify, Expire, GiveUp, Break, Return, ReturnError, TypeOK

\* A document that is there after its deletion was written again by some run.
LEMMA NextSupplied ==
    ASSUME TypeOK, Supplied, [Next]_vars PROVE Supplied'
<1>1. ASSUME NEW p \in Runs, Other(p) PROVE Supplied'
    BY <1>1, OtherQuiet DEF Quiet, Supplied
<1>2. ASSUME NEW p \in Runs, NEW d \in Docs, DeleteOne(p, d) PROVE Supplied'
    BY <1>2, DeleteEffect DEF Supplied
<1>3. ASSUME NEW p \in Runs, NEW d \in Docs, InsertOne(p, d) PROVE Supplied'
    BY <1>3, InsertEffect DEF Supplied
<1>4. CASE UNCHANGED vars
    BY <1>4 DEF vars, Supplied, Cleared, Written, Reached
<1> QED BY <1>1, <1>2, <1>3, <1>4 DEF Next, Other, Docs

\* InsertMany reaches the least document left.
LEMMA NextOrdered ==
    ASSUME TypeOK, Ordered, [Next]_vars PROVE Ordered'
<1> USE DocumentFacts DEF Ordered
<1>1. ASSUME NEW p \in Runs, Send(p) PROVE Ordered'
    BY <1>1 DEF Send, TypeOK
<1>2. ASSUME NEW p \in Runs, NEW d \in Docs, DeleteOne(p, d) PROVE Ordered'
    BY <1>2 DEF DeleteOne, TypeOK
<1>3. ASSUME NEW p \in Runs, NEW d \in Docs, InsertOne(p, d) PROVE Ordered'
    <2>0. step[p] \in 1 .. 4 /\ todo[p] \in SUBSET Docs
        BY <1>3 DEF InsertOne, TypeOK, Docs
    <2>1. /\ step' = step /\ wire[p] = "sent" /\ d \in todo[p]
          /\ \A e \in todo[p] : d <= e
          /\ todo[p] \subseteq Nat /\ Documents(step[p]) \subseteq Nat
        BY <1>3, <2>0 DEF InsertOne
    <2>2. \A q \in Runs : q # p => todo'[q] = todo[q] /\ wire'[q] = wire[q]
        BY <1>3 DEF InsertOne, TypeOK
    <2>3. todo'[p] = todo[p] \/ todo'[p] = todo[p] \ {d}
        BY <1>3 DEF InsertOne, TypeOK
    <2>4. \A a, b \in Nat : a <= b /\ a # b => a < b
        OBVIOUS
    <2>5. ~IsDelete(step[p]) =>
            \A a \in Documents(step[p]) \ todo'[p], e \in todo'[p] : a < e
        BY <2>1, <2>3, <2>4
    <2> QED BY <2>1, <2>2, <2>5
<1>4. ASSUME NEW p \in Runs, Lose(p) PROVE Ordered'
    BY <1>4 DEF Lose, TypeOK
<1>5. ASSUME NEW p \in Runs, Answer(p) PROVE Ordered'
    BY <1>5 DEF Answer, TypeOK
<1>6. ASSUME NEW p \in Runs,
             \/ Start(p) \/ Ready(p) \/ Verify(p) \/ Expire(p) \/ GiveUp(p) \/ Break(p)
      PROVE  Ordered'
    BY <1>6 DEF Start, Ready, Verify, Expire, GiveUp, Break
<1>7. CASE UNCHANGED vars
    BY <1>7 DEF vars
<1> QED BY <1>1, <1>2, <1>3, <1>4, <1>5, <1>6, <1>7 DEF Next, Docs

\* Of any two runs, one has written all the other has.
LEMMA Chain ==
    ASSUME TypeOK, Ordered, NEW p \in Runs, NEW q \in Runs
    PROVE  Wrote(p) \subseteq Wrote(q) \/ Wrote(q) \subseteq Wrote(p)
<1> USE DocumentFacts DEF Written, Reached
<1>1. SUFFICES ASSUME NEW d \in Docs, NEW e \in Docs,
                      Written(p, d), ~Written(q, d), Written(q, e), ~Written(p, e)
               PROVE  FALSE
    BY DEF Wrote
<1>2. step[p] \in 1 .. 5 /\ step[q] \in 1 .. 5
    BY DEF TypeOK
<1>3. step[p] = step[q] /\ wire[p] # "none" /\ wire[q] # "none"
    BY <1>1, <1>2 DEF Docs
<1>4. /\ step[p] \in {2, 4} /\ d \in Documents(step[p]) /\ e \in Documents(step[p])
      /\ d \notin todo[p] /\ d \in todo[q] /\ e \notin todo[q] /\ e \in todo[p]
    BY <1>1, <1>2, <1>3 DEF Docs
<1>5. d < e /\ e < d
    BY <1>3, <1>4 DEF Ordered
<1> QED BY <1>5

\* A run that has written something is a reset past its first call.
LEMMA WriterResets ==
    ASSUME TypeOK, Shapes, NEW p \in Runs, NEW d, Written(p, d)
    PROVE  IsReset(p)
BY DocumentFacts DEF TypeOK, Shapes, Shape, Written, Reached, IsReset, Phases

\* A run that meets a duplicate leaves a run ahead of it that has met none.
LEMMA DuplicateLeader ==
    ASSUME TypeOK, Shapes, Supplied, Ordered, Leader, faulted = {},
           NEW p \in Runs \ Refused, NEW d \in Docs,
           d \in held, Cleared(p, d), ~Written(p, d)
    PROVE  \E q \in Runs \ (Refused \union {p}) :
              IsReset(q) /\ \A r \in Refused \union {p} : Wrote(r) \subseteq Wrote(q)
<1>1. PICK u \in Runs : Written(u, d)
    BY DEF Supplied
<1>2. ASSUME NEW q \in Runs, Written(q, d)
      PROVE  q # p /\ IsReset(q) /\ Wrote(p) \subseteq Wrote(q)
    BY <1>2, Chain, WriterResets DEF Wrote
<1>3. CASE Refused = {}
    BY <1>1, <1>2, <1>3
<1>4. CASE Refused # {}
    <2>1. PICK q \in Runs \ Refused :
             IsReset(q) /\ \A r \in Refused : Wrote(r) \subseteq Wrote(q)
        BY <1>4 DEF Leader
    <2>2. CASE Wrote(u) \subseteq Wrote(q)
        <3>1. Written(q, d)
            BY <1>1, <2>2 DEF Wrote
        <3> QED BY <1>2, <2>1, <3>1
    <2>3. CASE Wrote(q) \subseteq Wrote(u) /\ u \notin Refused
        BY <1>1, <1>2, <2>1, <2>3
    <2>4. CASE u \in Refused
        BY <2>1, <2>2, <2>4
    <2> QED BY <1>1, <2>2, <2>3, <2>4, Chain
<1> QED BY <1>3, <1>4

\* Every action leaves some run ahead.
LEMMA NextLeader ==
    ASSUME TypeOK, Shapes, Undisturbed, Supplied, Ordered, Leader, [Next]_vars
    PROVE  Leader'
<1>1. ASSUME NEW p \in Runs, Other(p) PROVE Leader'
    <2>1. SUFFICES ASSUME faulted' = {} PROVE Leader'
        BY DEF Leader
    <2>2. faulted = {} /\ ~Lose(p)
        BY <1>1, <2>1 DEF Other, Start, Ready, Dispatch, Unsupported, Send, Lose, Answer,
               Verify, Expire, GiveUp, Break, Return, ReturnError, historyVars
    <2>3. \A q \in Runs : wire'[q] = "error" <=> wire[q] = "error"
        BY <1>1, <2>2 DEF Other, Start, Ready, Send, Answer, Verify, Expire, GiveUp, Break,
               TypeOK
    <2>4. Refused' = Refused /\ \A q \in Runs : Wrote(q)' = Wrote(q)
        BY <1>1, <2>3, OtherQuiet DEF Refused, Wrote, Quiet
    <2>5. \A q \in Runs : IsReset(q) => IsReset(q)'
        BY <1>1 DEF Other, Start, Ready, Dispatch, Unsupported, Send, Lose, Answer, Verify,
               Expire, GiveUp, Break, Return, ReturnError, IsReset, TypeOK
    <2>6. ASSUME NEW q \in Runs, command'[q] = "reset", phase'[q] = "failed"
          PROVE  wire[q] = "error"
        <3>1. CASE phase[q] = "failed"
            BY <1>1, <2>2, <2>6, <3>1 DEF Leader, Refused, Other, Start, Ready, Send, Lose,
                   Answer, Verify, Expire, GiveUp, Break, TypeOK
        <3>2. CASE phase[q] # "failed" /\ Answer(p)
            BY <2>1, <2>6, <3>2 DEF Answer, Return, ReturnError, TypeOK
        <3>3. CASE phase[q] # "failed" /\ Verify(p)
            BY <2>1, <2>6, <3>3 DEF Verify, Return, ReturnError, TypeOK, Shapes, Shape
        <3>4. ~GiveUp(p)
            BY <2>2 DEF GiveUp, Undisturbed
        <3>5. CASE phase[q] # "failed" /\ ~Answer(p) /\ ~Verify(p)
            BY <1>1, <2>1, <2>6, <3>4, <3>5 DEF Other, Start, Ready, Dispatch, Unsupported,
                   Return, Send, Lose, Expire, Break, TypeOK
        <3> QED BY <3>1, <3>2, <3>3, <3>5
    <2> QED BY <2>1, <2>2, <2>4, <2>5, <2>6 DEF Leader, Refused
<1>2. ASSUME NEW p \in Runs, NEW d \in Docs, DeleteOne(p, d) PROVE Leader'
    <2>1. UNCHANGED <<faulted, command, phase, wire>>
        BY <1>2 DEF DeleteOne
    <2>2. Refused' = Refused /\ \A q \in Runs : Wrote(q)' = Wrote(q)
        BY <1>2, <2>1, DeleteEffect DEF Refused, Wrote
    <2>3. \A q \in Runs : IsReset(q)' <=> IsReset(q)
        BY <2>1 DEF IsReset
    <2> QED BY <2>1, <2>2, <2>3 DEF Leader, Refused
<1>3. ASSUME NEW p \in Runs, NEW d \in Docs, InsertOne(p, d) PROVE Leader'
    <2>1. UNCHANGED <<faulted, command, phase>> /\ wire[p] = "sent"
        BY <1>3 DEF InsertOne
    <2>2. SUFFICES ASSUME faulted = {} PROVE Leader'
        BY <2>1 DEF Leader
    <2>3. \A q \in Runs : IsReset(q)' <=> IsReset(q)
        BY <2>1 DEF IsReset
    <2>4. p \in Runs \ Refused
        BY <2>1 DEF Refused
    <2>5. CASE wire' = wire /\ Written(p, d)'
        <3>1. Refused' = Refused
            BY <2>5 DEF Refused
        <3>2. \A q \in Runs : Wrote(q) \subseteq Wrote(q)' /\ (q # p => Wrote(q)' = Wrote(q))
            BY <1>3, <2>5, InsertEffect DEF Wrote
        <3> QED BY <2>1, <2>2, <2>3, <2>4, <3>1, <3>2 DEF Leader, Refused
    <2>6. CASE d \in held /\ ~Written(p, d)' /\ wire' = [wire EXCEPT ![p] = "error"]
        <3>1. Refused' = Refused \union {p}
            BY <2>6 DEF Refused, TypeOK
        <3>2. \A q \in Runs : Wrote(q)' = Wrote(q)
            BY <1>3, <2>6, InsertEffect DEF Wrote
        <3>3. \E q \in Runs \ (Refused \union {p}) :
                 IsReset(q) /\ \A r \in Refused \union {p} : Wrote(r) \subseteq Wrote(q)
            BY <1>3, <2>2, <2>4, <2>6, InsertEffect, DuplicateLeader
        <3> QED BY <2>1, <2>2, <2>3, <3>1, <3>2, <3>3 DEF Leader, Refused
    <2> QED BY <1>3, <2>5, <2>6, InsertEffect
<1>4. CASE UNCHANGED vars
    BY <1>4 DEF vars, Leader, Refused, Wrote, Written, Reached, IsReset
<1> QED BY <1>1, <1>2, <1>3, <1>4 DEF Next, Other, Docs

-----------------------------------------------------------------------------

\* The invariant holds in every state.
THEOREM InvariantHolds == Spec => []IInv
<1>1. IInv /\ [Next]_vars => IInv'
    BY NextTypeOK, NextShapes, NextAccounted, NextUndisturbed, NextReplayable,
       NextSupplied, NextOrdered, NextLeader DEF IInv
<1> QED BY InitIInv, <1>1, PTL DEF Spec

\* The variables keep their types, and a run's bookkeeping fits the call of
\* ResetMongo (mongo.go) it is at: nothing is in flight past the last one.
THEOREM TypeCorrect == Spec => []TypeOK
BY InvariantHolds, PTL DEF IInv

\* A missing document is one no ResetMongo has reached or one that a run deleted
\* and still has to insert.
THEOREM AccountedHolds == Spec => []Accounted
BY InvariantHolds, PTL DEF IInv

\* Neither DeleteMany nor InsertMany of ResetMongo can be stopped by what an
\* interrupted run left: without a fault and without another run a reset succeeds.
THEOREM ReplayableHolds == Spec => []Replayable
BY InvariantHolds, PTL DEF IInv

\* When some reset or check has succeeded and none is unfinished or failed, both
\* collections are complete.
THEOREM SettledHolds == Spec => []Settled
<1>1. IInv => Settled
    <2>1. SUFFICES ASSUME IInv, NEW q \in Runs, IsReset(q), phase[q] = "ok",
                          \A p \in Runs : IsReset(p) => phase[p] = "ok"
                   PROVE  held = Docs
        BY DEF Settled, Docs
    <2>2. \A p \in Runs : IsReset(p) => step[p] = Steps + 1
        BY <2>1 DEF IInv, Shapes, Shape, IsReset
    <2>3. \A d \in Docs : Cleared(q, d)
        BY <2>1, <2>2, EndedWhole
    <2>4. \A p \in Runs, d \in Docs : Cleared(p, d) => Written(p, d)
        <3> SUFFICES ASSUME NEW p \in Runs, NEW d \in Docs, Cleared(p, d) PROVE Written(p, d)
            OBVIOUS
        <3>1. CASE IsReset(p)
            BY <2>2, <3>1, EndedWhole
        <3>2. CASE ~IsReset(p)
            <4>1. step[p] = 1 /\ wire[p] = "none"
                BY <2>1, <3>2 DEF IInv, Shapes, Shape, IsReset
            <4> QED BY <4>1, UnbegunClean
        <3> QED BY <3>1, <3>2
    <2>5. Docs \subseteq held
        BY <2>1, <2>3, <2>4 DEF IInv, Accounted, Owed, Docs
    <2> QED BY <2>1, <2>5 DEF IInv, TypeOK, Docs
<1> QED BY InvariantHolds, <1>1, PTL

\* However many resets run into each other, the order in which InsertMany goes
\* through the documents lets one of them succeed.
THEOREM SomeResetSurvivesHolds == Spec => []SomeResetSurvives
<1>1. IInv => SomeResetSurvives
    <2>1. SUFFICES ASSUME IInv, faulted = {}, NEW p \in Runs, IsReset(p),
                          \A q \in Runs : IsReset(q) =>
                             command[q] = "reset" /\ phase[q] \in {"ok", "failed"}
                   PROVE  \E q \in Runs : IsReset(q) /\ phase[q] = "ok"
        BY DEF SomeResetSurvives
    <2>2. CASE Refused = {}
        BY <2>1, <2>2 DEF IInv, Leader
    <2>3. CASE Refused # {}
        BY <2>1, <2>3 DEF IInv, Leader
    <2> QED BY <2>2, <2>3
<1> QED BY InvariantHolds, <1>1, PTL

-----------------------------------------------------------------------------

\* Nothing is owed before the first run begins.
LEMMA InitRefines == Init => Contract!Init
<1> SUFFICES ASSUME Init PROVE Contract!Init
    OBVIOUS
<1>1. \A p \in Runs : step[p] = 1 /\ wire[p] = "none" /\ phase[p] = "idle"
    BY DEF Init
<1>2. \A p \in Runs : \A d : ~Cleared(p, d)
    BY <1>1, UnbegunClean
<1>3. \A p \in Runs : Owed(p) = {} /\ ~IsReset(p)
    BY <1>1, <1>2 DEF Owed, IsReset
<1>4. held \in SUBSET Docs /\ lostBar = Docs \ held
    BY <1>2 DEF Init, lostBar, Docs
<1> QED BY <1>3, <1>4 DEF Contract!Init, owedBar, outcomeBar, Docs

\* A quiet step of run p is a step of the contract: the run begins, ends, or
\* makes progress the contract does not see.
LEMMA OtherRefines ==
    ASSUME IInv, IInv', NEW p \in Runs, Other(p)
    PROVE  Contract!Next \/ UNCHANGED Contract!vars
<1>1. UNCHANGED <<held, lostBar, owedBar>>
    BY OtherQuiet DEF IInv, Quiet, lostBar, owedBar, Owed
<1>2. \A q \in Runs : q # p => phase'[q] = phase[q] /\ command'[q] = command[q]
    BY DEF Other, Start, Ready, Dispatch, Unsupported, Send, Lose, Answer, Verify, Expire,
           GiveUp, Break, Return, ReturnError, IInv, TypeOK
<1>3. \A q \in Runs : q # p => outcomeBar'[q] = outcomeBar[q]
    BY <1>2 DEF outcomeBar, IsReset
<1>4. outcomeBar' = [outcomeBar EXCEPT ![p] = outcomeBar'[p]]
    BY <1>3 DEF outcomeBar
<1>5. CASE outcomeBar'[p] = outcomeBar[p]
    <2>1. outcomeBar' = outcomeBar
        BY <1>4, <1>5 DEF outcomeBar
    <2> QED BY <2>1, <1>1 DEF Contract!vars
<1>6. CASE outcomeBar[p] = "idle" /\ outcomeBar'[p] = "active"
    <2>1. Contract!Begin(p)
        BY <1>1, <1>4, <1>6 DEF Contract!Begin
    <2> QED BY <2>1 DEF Contract!Next
<1>7. CASE outcomeBar[p] = "active" /\ outcomeBar'[p] = "failed"
    <2>1. Contract!Fail(p)
        BY <1>1, <1>4, <1>7 DEF Contract!Fail
    <2> QED BY <2>1 DEF Contract!Next
<1>8. CASE outcomeBar[p] = "active" /\ outcomeBar'[p] = "ok"
    <2>1. step'[p] = Steps + 1
        BY <1>8 DEF outcomeBar, IsReset, IInv, Shapes, Shape, Steps, Resets
    <2>2. \A d \in Docs : Cleared(p, d)' /\ Written(p, d)'
        BY <2>1, DocumentFacts DEF Cleared, Written, Reached, Docs
    <2>3. owedBar'[p] = {} /\ lostBar' = {}
        BY <2>2 DEF owedBar, lostBar, Owed, Docs
    <2>4. Contract!Succeed(p)
        BY <1>1, <1>4, <1>8, <2>3 DEF Contract!Succeed
    <2> QED BY <2>4 DEF Contract!Next
<1>9. \/ outcomeBar'[p] = outcomeBar[p]
      \/ outcomeBar[p] = "idle" /\ outcomeBar'[p] = "active"
      \/ outcomeBar[p] = "active" /\ outcomeBar'[p] \in {"ok", "failed"}
    BY DEF outcomeBar, IsReset, Active, Phases, IInv, TypeOK, Other, Start, Ready, Dispatch,
           Unsupported, Send, Lose, Answer, Verify, Expire, GiveUp, Break, Return,
           ReturnError, Resets, historyVars
<1> QED BY <1>5, <1>6, <1>7, <1>8, <1>9

\* What a run that is deleting or inserting may be in the contract: its process may
\* be gone while the server goes on.
LEMMA WorkingOutcome ==
    ASSUME TypeOK, Shapes, NEW p \in Runs, wire[p] = "sent"
    PROVE  outcomeBar[p] \in {"active", "failed"}
<1>1. step[p] # Steps + 1 /\ phase[p] \notin {"idle", "waiting"} /\ command[p] \in Resets
    BY DocumentFacts DEF TypeOK, Shapes, Shape
<1>2. phase[p] \in {"resetting", "failed"}
    BY <1>1 DEF TypeOK, Shapes, Shape, Phases
<1> QED BY <1>1, <1>2 DEF outcomeBar, IsReset, Active

\* DeleteOne is the contract's Clear of one document.
LEMMA DeleteRefines ==
    ASSUME IInv, NEW p \in Runs, NEW d \in Docs, DeleteOne(p, d)
    PROVE  Contract!Next
<1>1. UNCHANGED outcomeBar /\ outcomeBar[p] \in {"active", "failed"}
    BY WorkingOutcome DEF DeleteOne, outcomeBar, IsReset, IInv
<1>2. /\ held' = held \ {d}
      /\ Cleared(p, d)' /\ ~Written(p, d)'
      /\ \A q \in Runs : \A e : /\ Written(q, e)' <=> Written(q, e)
                                /\ q # p \/ e # d => (Cleared(q, e)' <=> Cleared(q, e))
    BY DeleteEffect DEF IInv
<1>3. lostBar' = lostBar \ {d}
    BY <1>2 DEF lostBar
<1>4. /\ Owed(p)' = Owed(p) \union {d}
      /\ \A q \in Runs : q # p => Owed(q)' = Owed(q)
    BY <1>2 DEF Owed, Docs
<1>5. owedBar' = [owedBar EXCEPT ![p] = @ \union {d}]
    BY <1>4 DEF owedBar
<1>6. Contract!Clear(p, {d})
    BY <1>1, <1>2, <1>3, <1>5 DEF Contract!Clear
<1> QED BY <1>6 DEF Contract!Next, Docs

\* InsertOne is the contract's Restore of one document, or changes nothing.
LEMMA InsertRefines ==
    ASSUME IInv, NEW p \in Runs, NEW d \in Docs, InsertOne(p, d)
    PROVE  Contract!Next \/ UNCHANGED Contract!vars
<1>1. UNCHANGED outcomeBar /\ outcomeBar[p] \in {"active", "failed"}
    BY WorkingOutcome DEF InsertOne, outcomeBar, IsReset, IInv
<1>2. /\ Cleared(p, d) /\ ~Written(p, d)
      /\ \A q \in Runs : \A e : /\ Cleared(q, e)' <=> Cleared(q, e)
                                /\ q # p \/ e # d => (Written(q, e)' <=> Written(q, e))
    BY InsertEffect DEF IInv
<1>3. CASE held' = held /\ ~Written(p, d)'
    <2>1. UNCHANGED <<lostBar, owedBar>>
        BY <1>2, <1>3 DEF lostBar, owedBar, Owed
    <2> QED BY <1>1, <1>3, <2>1 DEF Contract!vars
<1>4. CASE held' = held \union {d} /\ Written(p, d)'
    <2>1. lostBar' = lostBar \ {d}
        BY <1>2, <1>4 DEF lostBar
    <2>2. /\ Owed(p)' = Owed(p) \ {d}
          /\ \A q \in Runs : q # p => Owed(q)' = Owed(q)
        BY <1>2, <1>4 DEF Owed, Docs
    <2>3. owedBar' = [owedBar EXCEPT ![p] = @ \ {d}]
        BY <2>2 DEF owedBar
    <2>4. Contract!Restore(p, {d})
        BY <1>1, <1>4, <2>1, <2>3 DEF Contract!Restore
    <2> QED BY <2>4 DEF Contract!Next, Docs
<1> QED BY <1>3, <1>4, InsertEffect DEF IInv

\* ResetMongo, document by document, implements FixtureContract: the promise that
\* exit statuses can be trusted holds for MongoDB with any runs and documents.
THEOREM RefinesHolds == Spec => Refines
<1>1. IInv /\ IInv' /\ [Next]_vars => [Contract!Next]_(Contract!vars)
    <2> SUFFICES ASSUME IInv, IInv', [Next]_vars
                 PROVE  Contract!Next \/ UNCHANGED Contract!vars
        OBVIOUS
    <2>1. CASE UNCHANGED vars
        BY <2>1 DEF vars, Contract!vars, lostBar, owedBar, outcomeBar, Owed, Cleared,
                    Written, Reached, IsReset
    <2>2. CASE Next
        BY <2>2, OtherRefines, DeleteRefines, InsertRefines DEF Next, Other, Docs
    <2> QED BY <2>1, <2>2
<1> QED BY InitRefines, InvariantHolds, <1>1, PTL DEF Spec, Refines, Contract!Spec

=============================================================================
