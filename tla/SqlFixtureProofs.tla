------------------------- MODULE SqlFixtureProofs -------------------------
(***************************************************************************)
(* Proofs about SqlFixture, for any runs, rows, dialect and commands.      *)
(*                                                                         *)
(* The argument.  What can be wrong with the table is always explained by  *)
(* a run that stands at a known place in the script: a missing table by a  *)
(* run that has dropped it and not yet created it, a missing index by a    *)
(* run between CREATE TABLE and CREATE INDEX, missing rows by a run between*)
(* its DROP and its INSERT.  A run leaves such a place only by executing   *)
(* the statement that repairs the damage, and a statement that is refused  *)
(* leaves it where it is.  That is Account; with Shape, which ties a run's *)
(* phase to its place in the script, it is inductive.  A run that nobody   *)
(* disturbed finds the table as its own statements left it, so none of     *)
(* them is refused (Undisturbed).  And without faults the run that damage  *)
(* is due to is still alive, and can only be stopped by a run that has     *)
(* repaired it first: somebody goes on, or has completed the script        *)
(* (Survival).                                                             *)
(***************************************************************************)
EXTENDS SqlFixture, TLAPS

Touched == \E p \in Runs : Executed(p) >= 1

\* How a run's phase, command and place in the script go together.
Shape(p) ==
    /\ phase[p] \in {"idle", "waiting"} => next[p] = 1 /\ wire[p] = "none"
    /\ command[p] \notin Resets => next[p] = 1 /\ wire[p] = "none"
    /\ phase[p] = "resetting" => command[p] \in Resets /\ next[p] \in 1 .. Steps
    /\ phase[p] \in {"verifying", "ok"} /\ command[p] \in Resets => next[p] = Steps + 1
    /\ next[p] > Steps => wire[p] = "none"

Shapes == \A p \in Runs : Shape(p)

\* Who is accountable for what the table lacks.
Account ==
    /\ Touched /\ table = "absent" => \E p \in Runs : Executed(p) = 1
    /\ table = "bare" => Dialect = "postgres" /\ \E p \in Runs : Executed(p) = 2
    /\ Touched /\ table # "absent" /\ rows # Ids => \E p \in Runs : Owes(p)

\* The table is as the statements that run p has had executed leave it.
Own(p) ==
    /\ Executed(p) = 1 => table = "absent"
    /\ Executed(p) = 2 => table = IF Dialect = "mysql" THEN "indexed" ELSE "bare"
    /\ Executed(p) >= 3 => table = "indexed"
    /\ Executed(p) = Steps => rows = Ids
    /\ Owes(p) => rows = {}

\* A run that met no fault and no other run has found what it left.
Undisturbed ==
    /\ expired \subseteq faulted
    /\ \A p \in Runs :
          phase[p] \in Active /\ p \notin faulted \union crossed
             => wire[p] # "error" /\ Own(p)

\* Run p's reset goes on, with no statement refused so far; run p's whole script has
\* been executed, and it has not found the table wanting since.
Alive(p) == phase[p] = "resetting" /\ wire[p] # "error"
Complete(p) == Executed(p) = Steps /\ phase[p] \in {"resetting", "verifying", "ok"}

\* Without faults, whatever the table lacks is about to be supplied by a run that is
\* alive, and rows that are there are a complete run's.
Survival ==
    faulted = {} =>
        /\ \A p \in Runs :
              /\ wire[p] \in {"sent", "done"} => phase[p] = "resetting"
              /\ wire[p] = "error" => next[p] >= 2
              /\ IsReset(p) /\ phase[p] = "failed" => Executed(p) >= 1
        /\ Touched =>
              /\ table = "absent" => \E p \in Runs : Alive(p) /\ Executed(p) = 1
              /\ table = "bare" => \E p \in Runs : Alive(p) /\ Executed(p) = 2
              /\ table = "indexed" =>
                    \/ \E p \in Runs : Alive(p) /\ Executed(p) \in Steps - 2 .. Steps - 1
                    \/ rows = Ids /\ \E p \in Runs : Complete(p)
              /\ rows # {} => rows = Ids /\ \E p \in Runs : Complete(p)

IInv ==
    /\ TypeOK /\ Shapes /\ Account
    /\ Undisturbed /\ Replayable
    /\ Survival

-----------------------------------------------------------------------------

\* The places of the statements in either dialect's scripts.
LEMMA ScriptFacts ==
    /\ Steps \in 4 .. 5
    /\ \A i \in 1 .. Steps :
          Script[i] \in {"drop", "create", "index", "delete", "insert"}
    /\ Dialect = "postgres" => Steps = 5
    /\ \A i \in 1 .. Steps :
          /\ Script[i] = "drop" <=> i = 1
          /\ Script[i] = "create" <=> i = 2
          /\ Script[i] = "index" <=> Dialect = "postgres" /\ i = 3
          /\ Script[i] = "insert" <=> i = Steps
<1>1. CASE Dialect = "mysql"
    <2>1. Script = <<"drop", "create", "delete", "insert">> /\ Steps = 4
        BY <1>1 DEF Script, Steps
    <2>2. \A i \in 1 .. Steps : i = 1 \/ i = 2 \/ i = 3 \/ i = 4
        BY <2>1
    <2>3. /\ Script[1] = "drop" /\ Script[2] = "create"
          /\ Script[3] = "delete" /\ Script[4] = "insert"
        BY <2>1
    <2> QED BY <1>1, <2>1, <2>2, <2>3
<1>2. CASE Dialect = "postgres"
    <2>1. Script = <<"drop", "create", "index", "delete", "insert">> /\ Steps = 5
        BY <1>2 DEF Script, Steps
    <2>2. \A i \in 1 .. Steps : i = 1 \/ i = 2 \/ i = 3 \/ i = 4 \/ i = 5
        BY <2>1
    <2>3. /\ Script[1] = "drop" /\ Script[2] = "create" /\ Script[3] = "index"
          /\ Script[4] = "delete" /\ Script[5] = "insert"
        BY <2>1
    <2> QED BY <1>2, <2>1, <2>2, <2>3
<1> QED BY <1>1, <1>2, DialectAssumption

\* The initial states satisfy the invariant: no statement has been executed.
LEMMA InitIInv == Init => IInv
<1> SUFFICES ASSUME Init PROVE IInv
    OBVIOUS
<1>1. TypeOK
    BY ScriptFacts DEF Init, TypeOK, Phases, Wire
<1>2. Shapes
    BY ScriptFacts DEF Init, Shapes, Shape, Resets
<1>3. ASSUME NEW p \in Runs PROVE Executed(p) = 0
    <2>1. next[p] = 1 /\ wire[p] = "none"
        BY DEF Init
    <2> QED BY <2>1 DEF Executed
<1>4. Account
    BY <1>3 DEF Init, Account, Touched
<1>5. Undisturbed /\ Replayable
    BY DEF Init, Undisturbed, Replayable, IsReset, Active
<1>6. Survival
    BY <1>3 DEF Init, Survival, Touched, IsReset
<1> QED BY <1>1, <1>2, <1>4, <1>5, <1>6 DEF IInv

-----------------------------------------------------------------------------

\* Executed counts statements, and a run that owes has had some executed.
LEMMA ExecutedType ==
    ASSUME TypeOK, NEW p \in Runs
    PROVE  Executed(p) \in 0 .. Steps /\ (Owes(p) => Executed(p) >= 1)
BY ScriptFacts DEF TypeOK, Executed, Owes

\* The actions other than Execute change neither the server nor how much of any
\* run's script has been executed.
Quiet == UNCHANGED serverVars /\ \A q \in Runs : Executed(q)' = Executed(q)

LEMMA OthersQuiet ==
    ASSUME TypeOK, NEW p \in Runs,
           \/ Start(p) \/ Ready(p) \/ Send(p) \/ Lose(p) \/ Answer(p)
           \/ Verify(p) \/ Expire(p) \/ GiveUp(p) \/ Break(p)
    PROVE  Quiet
<1> USE DEF Quiet, Executed, serverVars
<1>1. CASE Start(p)   BY <1>1 DEF Start
<1>2. CASE Ready(p)   BY <1>2 DEF Ready, Dispatch
<1>3. CASE Send(p)
    BY <1>3 DEF Send, TypeOK, Wire
<1>4. CASE Lose(p)
    BY <1>4 DEF Lose, TypeOK, Wire
<1>5. CASE Answer(p)
    <2>1. UNCHANGED serverVars
        BY <1>5 DEF Answer
    <2>2. CASE wire[p] = "done"
        <3>1. /\ wire' = [wire EXCEPT ![p] = "none"]
              /\ next' = [next EXCEPT ![p] = @ + 1]
            BY <1>5, <2>2 DEF Answer
        <3>2. ASSUME NEW q \in Runs PROVE Executed(q)' = Executed(q)
            BY <2>2, <3>1, ScriptFacts DEF TypeOK
        <3> QED BY <2>1, <3>2
    <2>3. CASE wire[p] = "error"
        BY <1>5, <2>1, <2>3 DEF Answer
    <2> QED BY <1>5, <2>2, <2>3 DEF Answer
<1>6. CASE Verify(p)  BY <1>6 DEF Verify
<1>7. CASE Expire(p)  BY <1>7 DEF Expire
<1>8. CASE GiveUp(p)  BY <1>8 DEF GiveUp
<1>9. CASE Break(p)   BY <1>9 DEF Break
<1> QED BY <1>1, <1>2, <1>3, <1>4, <1>5, <1>6, <1>7, <1>8, <1>9

\* A quiet step keeps the account.
LEMMA QuietAccount ==
    ASSUME Account, Quiet PROVE Account'
BY DEF Account, Quiet, Touched, Owes, serverVars

\* Execute: an accepted statement moves its run one place on and repairs what
\* that run was accountable for; a refused one moves nothing.
LEMMA ExecuteAccount ==
    ASSUME IInv, NEW p \in Runs, Execute(p) PROVE Account'
<1> DEFINE s == Script[next[p]]
<1>0. /\ wire[p] = "sent" /\ next[p] \in 1 .. Steps /\ Executed(p) = next[p] - 1
      /\ TypeOK /\ Account /\ Steps \in 4 .. 5
    BY ScriptFacts DEF Execute, IInv, Shapes, Shape, TypeOK, Executed
<1>1. \A q \in Runs : q # p => Executed(q)' = Executed(q)
    BY <1>0 DEF Execute, Executed, Effect, serverVars, TypeOK
<1>2. CASE ~Accepts(s)
    <2>1. Executed(p)' = Executed(p) /\ UNCHANGED serverVars
        BY <1>0, <1>2 DEF Execute, Executed, TypeOK
    <2> QED BY <1>1, <2>1, QuietAccount, <1>0 DEF Quiet
<1>3. CASE Accepts(s)
    <2>1. Executed(p)' = next[p] /\ Effect(s)
        BY <1>0, <1>3 DEF Execute, Executed, TypeOK
    <2>2. CASE next[p] = 1
        <3>1. table' = "absent"
            BY <2>1, <2>2, ScriptFacts DEF Effect
        <3>2. Executed(p)' = 1
            BY <2>1, <2>2
        <3> QED BY <3>1, <3>2 DEF Account
    <2>3. CASE next[p] = 2
        <3>1. Executed(p)' = 2 /\ Owes(p)'
            BY <2>1, <2>3, <1>0, ScriptFacts DEF Owes
        <3>2. table' = IF Dialect = "mysql" THEN "indexed" ELSE "bare"
            BY <2>1, <2>3, <1>0, ScriptFacts DEF Effect
        <3> QED BY <3>1, <3>2, DialectAssumption DEF Account
    <2>4. CASE next[p] = Steps
        <3>1. rows' = Ids /\ table' = table /\ table # "absent"
            BY <1>0, <1>3, <2>1, <2>4, ScriptFacts DEF Effect, Accepts
        <3>2. ASSUME table = "bare"
              PROVE  Dialect = "postgres" /\ \E q \in Runs : Executed(q)' = 2
            <4>1. PICK q \in Runs : Dialect = "postgres" /\ Executed(q) = 2
                BY <3>2, <1>0 DEF Account
            <4>2. q # p
                BY <4>1, <1>0, <2>4
            <4> QED BY <4>1, <4>2, <1>1
        <3> QED BY <3>1, <3>2 DEF Account
    <2>5. CASE next[p] \in 3 .. Steps - 1
        <3>1. Owes(p)'
            BY <2>1, <2>5, <1>0 DEF Owes
        <3>2. s \in {"index", "delete"} /\ table # "absent"
            <4>1. s \in {"index", "delete"}
                BY <1>0, <2>5, ScriptFacts
            <4> HIDE DEF s
            <4> QED BY <4>1, <1>3 DEF Accepts
        <3>3. table' # "absent"
            BY <2>1, <3>2 DEF Effect
        <3>4. ASSUME table' = "bare"
              PROVE  Dialect = "postgres" /\ \E q \in Runs : Executed(q)' = 2
            <4>1. s # "index" /\ table = "bare"
                BY <3>4, <3>2, <2>1 DEF Effect
            <4>2. PICK q \in Runs : Dialect = "postgres" /\ Executed(q) = 2
                BY <4>1, <1>0 DEF Account
            <4>3. q # p
                BY <4>1, <4>2, <1>0, <2>5, ScriptFacts
            <4> QED BY <4>2, <4>3, <1>1
        <3> QED BY <3>1, <3>3, <3>4 DEF Account
    <2> QED BY <2>2, <2>3, <2>4, <2>5, <1>0
<1> QED BY <1>2, <1>3

\* Every action keeps the types.
LEMMA NextTypeOK ==
    ASSUME TypeOK, Shapes, [Next]_vars PROVE TypeOK'
<1> USE ScriptFacts DEF TypeOK, Phases, Wire
<1>1. ASSUME NEW p \in Runs, Start(p) PROVE TypeOK'
    BY <1>1, CommandsAssumption DEF Start, serverVars, historyVars
<1>2. ASSUME NEW p \in Runs, Ready(p) PROVE TypeOK'
    BY <1>2 DEF Ready, Dispatch, Return, serverVars, historyVars, Shapes, Shape, Resets
<1>3. ASSUME NEW p \in Runs, Send(p) PROVE TypeOK'
    BY <1>3 DEF Send, serverVars, historyVars
<1>4. ASSUME NEW p \in Runs, Execute(p) PROVE TypeOK'
    <2>1. wire' \in [Runs -> Wire]
        BY <1>4 DEF Execute
    <2>2. /\ table' \in {"absent", "bare", "indexed"} /\ rows' \in SUBSET Ids
          /\ table' = "absent" => rows' = {}
        <3>1. CASE UNCHANGED serverVars
            BY <3>1 DEF serverVars
        <3>2. CASE Accepts(Script[next[p]]) /\ Effect(Script[next[p]])
            <4> DEFINE s == Script[next[p]]
            <4>1. s \in {"drop", "create", "index", "delete", "insert"}
                BY <1>4 DEF Execute
            <4> HIDE DEF s
            <4>2. CASE s = "drop" \/ s = "create"
                BY <3>2, <4>2 DEF Effect, s
            <4>3. CASE s = "index" \/ s = "delete" \/ s = "insert"
                <5>1. table # "absent"
                    BY <3>2, <4>3 DEF Accepts, s
                <5> QED BY <3>2, <4>3, <5>1 DEF Effect, s
            <4> QED BY <4>1, <4>2, <4>3
        <3> QED BY <1>4, <3>1, <3>2 DEF Execute
    <2>3. crossed' \in SUBSET Runs
        BY <1>4 DEF Execute, Between
    <2>4. UNCHANGED <<command, phase, next, expired, faulted>>
        BY <1>4 DEF Execute
    <2>5. next[p] \in 1 .. Steps
        BY <1>4 DEF Execute
    <2>6. \A q \in Runs : next'[q] > Steps => wire'[q] = "none"
        BY <1>4, <2>4, <2>5 DEF Execute
    <2> QED BY <2>1, <2>2, <2>3, <2>4, <2>6
<1>5. ASSUME NEW p \in Runs, Lose(p) PROVE TypeOK'
    BY <1>5 DEF Lose, serverVars
<1>6. ASSUME NEW p \in Runs, Answer(p) PROVE TypeOK'
    BY <1>6 DEF Answer, Return, ReturnError, serverVars, historyVars
<1>7. ASSUME NEW p \in Runs, Verify(p) PROVE TypeOK'
    BY <1>7 DEF Verify, Return, ReturnError, serverVars, historyVars
<1>8. ASSUME NEW p \in Runs, Expire(p) PROVE TypeOK'
    BY <1>8 DEF Expire, serverVars
<1>9. ASSUME NEW p \in Runs, GiveUp(p) PROVE TypeOK'
    BY <1>9 DEF GiveUp, ReturnError, serverVars, historyVars
<1>10. ASSUME NEW p \in Runs, Break(p) PROVE TypeOK'
    BY <1>10 DEF Break, serverVars
<1>11. CASE UNCHANGED vars
    BY <1>11 DEF vars
<1> QED
    BY <1>1, <1>2, <1>3, <1>4, <1>5, <1>6, <1>7, <1>8, <1>9, <1>10, <1>11 DEF Next

\* Every action keeps a run's phase in step with its place in the script.
LEMMA NextShapes ==
    ASSUME TypeOK, Shapes, [Next]_vars PROVE Shapes'
<1> USE ScriptFacts DEF Shapes, Shape, TypeOK, Phases, Resets, Active
<1>1. ASSUME NEW p \in Runs, Start(p) PROVE Shapes'
    BY <1>1 DEF Start
<1>2. ASSUME NEW p \in Runs, Ready(p) PROVE Shapes'
    BY <1>2 DEF Ready, Dispatch, Return
<1>3. ASSUME NEW p \in Runs, Send(p) PROVE Shapes'
    BY <1>3 DEF Send
<1>4. ASSUME NEW p \in Runs, Execute(p) PROVE Shapes'
    BY <1>4 DEF Execute
<1>5. ASSUME NEW p \in Runs, Lose(p) PROVE Shapes'
    BY <1>5 DEF Lose
<1>6. ASSUME NEW p \in Runs, Answer(p) PROVE Shapes'
    BY <1>6 DEF Answer, Return, ReturnError
<1>7. ASSUME NEW p \in Runs, Verify(p) PROVE Shapes'
    BY <1>7 DEF Verify, Return, ReturnError
<1>8. ASSUME NEW p \in Runs, Expire(p) PROVE Shapes'
    BY <1>8 DEF Expire
<1>9. ASSUME NEW p \in Runs, GiveUp(p) PROVE Shapes'
    BY <1>9 DEF GiveUp, ReturnError
<1>10. ASSUME NEW p \in Runs, Break(p) PROVE Shapes'
    BY <1>10 DEF Break
<1>11. CASE UNCHANGED vars
    BY <1>11 DEF vars
<1> QED
    BY <1>1, <1>2, <1>3, <1>4, <1>5, <1>6, <1>7, <1>8, <1>9, <1>10, <1>11 DEF Next

\* Every action keeps the account.
LEMMA NextAccount ==
    ASSUME IInv, [Next]_vars PROVE Account'
<1>1. ASSUME NEW p \in Runs, Execute(p) PROVE Account'
    BY <1>1, ExecuteAccount
<1>2. ASSUME NEW p \in Runs,
             \/ Start(p) \/ Ready(p) \/ Send(p) \/ Lose(p) \/ Answer(p)
             \/ Verify(p) \/ Expire(p) \/ GiveUp(p) \/ Break(p)
      PROVE  Account'
    BY <1>2, OthersQuiet, QuietAccount DEF IInv
<1>3. CASE UNCHANGED vars
    <2>1. Quiet
        BY <1>3 DEF vars, Quiet, serverVars, Executed
    <2> QED BY <2>1, QuietAccount DEF IInv
<1> QED BY <1>1, <1>2, <1>3 DEF Next

-----------------------------------------------------------------------------

\* What Execute does, statement by statement: what the table was if it was accepted,
\* or why it was refused.
LEMMA ExecuteEffect ==
    ASSUME TypeOK, Shapes, NEW p \in Runs, Execute(p)
    PROVE  /\ next[p] \in 1 .. Steps /\ Executed(p) = next[p] - 1
           /\ UNCHANGED <<command, phase, next, expired, faulted>>
           /\ crossed' = crossed \union Between(p)
           /\ \A q \in Runs : q # p => Executed(q)' = Executed(q) /\ wire'[q] = wire[q]
           /\ \/ /\ Executed(p)' = next[p] /\ wire'[p] = "done"
                 /\ \/ next[p] = 1 /\ table' = "absent" /\ rows' = {}
                    \/ /\ next[p] = 2 /\ table = "absent" /\ rows' = {}
                       /\ table' = IF Dialect = "mysql" THEN "indexed" ELSE "bare"
                    \/ /\ next[p] = 3 /\ Steps = 5 /\ table = "bare"
                       /\ table' = "indexed" /\ rows' = rows
                    \/ /\ next[p] = Steps - 1 /\ table # "absent"
                       /\ table' = table /\ rows' = {}
                    \/ /\ next[p] = Steps /\ table # "absent" /\ rows = {}
                       /\ table' = table /\ rows' = Ids
              \/ /\ Executed(p)' = Executed(p) /\ wire'[p] = "error"
                 /\ UNCHANGED serverVars
                 /\ \/ next[p] = 2 /\ table # "absent"
                    \/ next[p] = 3 /\ Steps = 5 /\ table # "bare"
                    \/ next[p] = Steps - 1 /\ table = "absent"
                    \/ next[p] = Steps /\ (table = "absent" \/ rows # {})
<1> DEFINE s == Script[next[p]]
<1>1. /\ wire[p] = "sent" /\ next[p] \in 1 .. Steps /\ Executed(p) = next[p] - 1
      /\ UNCHANGED <<command, phase, next, expired, faulted>>
      /\ crossed' = crossed \union Between(p)
    BY ScriptFacts DEF Execute, Shapes, Shape, TypeOK, Executed
<1>2. \A q \in Runs : q # p => Executed(q)' = Executed(q) /\ wire'[q] = wire[q]
    BY <1>1 DEF Execute, Executed, TypeOK
<1>3. /\ s \in {"drop", "create", "index", "delete", "insert"} /\ Steps \in 4 .. 5
      /\ s = "drop" <=> next[p] = 1
      /\ s = "create" <=> next[p] = 2
      /\ s = "index" <=> next[p] = 3 /\ Steps = 5
      /\ s = "delete" <=> next[p] = Steps - 1
      /\ s = "insert" <=> next[p] = Steps
    <2>1. Dialect = "mysql" => Steps = 4
        BY DEF Steps, Script
    <2>2. Dialect = "mysql" \/ Dialect = "postgres"
        BY DialectAssumption
    <2> HIDE DEF s
    <2>3. /\ s \in {"drop", "create", "index", "delete", "insert"} /\ Steps \in 4 .. 5
          /\ Dialect = "postgres" <=> Steps = 5
          /\ s = "drop" <=> next[p] = 1
          /\ s = "create" <=> next[p] = 2
          /\ s = "index" <=> Dialect = "postgres" /\ next[p] = 3
          /\ s = "insert" <=> next[p] = Steps
        BY <1>1, <2>1, <2>2, ScriptFacts DEF s
    <2> QED BY <1>1, <2>3
<1>4. CASE Accepts(s)
    <2>1. Executed(p)' = next[p] /\ wire'[p] = "done" /\ Effect(s)
        BY <1>1, <1>4 DEF Execute, Executed, TypeOK
    <2> HIDE DEF s
    <2>2. CASE s = "drop"    BY <1>1, <1>2, <1>3, <2>1, <2>2 DEF Effect
    <2>3. CASE s = "create"  BY <1>1, <1>2, <1>3, <1>4, <2>1, <2>3 DEF Effect, Accepts
    <2>4. CASE s = "index"   BY <1>1, <1>2, <1>3, <1>4, <2>1, <2>4 DEF Effect, Accepts
    <2>5. CASE s = "delete"  BY <1>1, <1>2, <1>3, <1>4, <2>1, <2>5 DEF Effect, Accepts
    <2>6. CASE s = "insert"  BY <1>1, <1>2, <1>3, <1>4, <2>1, <2>6 DEF Effect, Accepts
    <2> QED BY <1>3, <2>2, <2>3, <2>4, <2>5, <2>6
<1>5. CASE ~Accepts(s)
    <2>1. Executed(p)' = Executed(p) /\ wire'[p] = "error" /\ UNCHANGED serverVars
        BY <1>1, <1>5 DEF Execute, Executed, TypeOK
    <2> HIDE DEF s
    <2>2. \/ s = "create" /\ table # "absent"
          \/ s = "index" /\ table # "bare"
          \/ s = "delete" /\ table = "absent"
          \/ s = "insert" /\ (table = "absent" \/ rows # {})
        BY <1>3, <1>5 DEF Accepts
    <2> QED BY <1>1, <1>2, <1>3, <2>1, <2>2
<1> QED BY <1>4, <1>5

\* The actions of a run and its environment other than Execute.
Other(p) ==
    \/ Start(p) \/ Ready(p) \/ Send(p) \/ Lose(p) \/ Answer(p)
    \/ Verify(p) \/ Expire(p) \/ GiveUp(p) \/ Break(p)

\* What a run does between its statements leaves an undisturbed run undisturbed.
LEMMA OtherUndisturbed ==
    ASSUME TypeOK, Shapes, Undisturbed, NEW p \in Runs, Other(p)
    PROVE  Undisturbed'
<1>1. Quiet /\ crossed' = crossed
    BY OthersQuiet DEF Other, Start, Ready, Dispatch, Send, Lose, Answer, Verify, Expire,
           GiveUp, Break, Return, ReturnError, historyVars
<1>2. \A q \in Runs : Own(q) => Own(q)'
    BY <1>1 DEF Quiet, Own, Owes, serverVars
<1>3. /\ faulted \subseteq faulted' /\ expired' \subseteq faulted'
      /\ \A q \in Runs \ {p} : phase'[q] = phase[q] /\ wire'[q] = wire[q]
    BY DEF Other, Start, Ready, Dispatch, Send, Lose, Answer, Verify, Expire, GiveUp, Break,
           Return, ReturnError, historyVars, TypeOK, Undisturbed
<1>4. ASSUME phase'[p] \in Active, p \notin faulted' \union crossed'
      PROVE  wire'[p] # "error" /\ Own(p)'
    <2>1. CASE Start(p)
        <3>1. wire[p] = "none" /\ wire' = wire /\ next[p] = 1
            BY <2>1 DEF Start, Shapes, Shape
        <3>2. Executed(p) = 0
            BY <3>1 DEF Executed
        <3>3. Own(p)
            BY <3>2, ScriptFacts DEF Own, Owes
        <3> QED BY <3>1, <3>3, <1>2
    <2>2. CASE ~Start(p)
        <3>1. phase[p] \in Active
            BY <2>2, <1>4 DEF Other, Ready, Send, Lose, Answer, Verify, Expire, GiveUp, Break,
                              Active, TypeOK, Phases
        <3>2. wire[p] # "error" /\ Own(p)
            BY <3>1, <1>1, <1>3, <1>4 DEF Undisturbed
        <3>3. wire'[p] # "error"
            BY <2>2, <3>2, <1>4 DEF Other, Ready, Send, Lose, Answer, Verify, Expire,
                                    GiveUp, Break, TypeOK
        <3> QED BY <3>2, <3>3, <1>2
    <2> QED BY <2>1, <2>2
<1> QED BY <1>1, <1>2, <1>3, <1>4 DEF Undisturbed

\* A statement crosses every other run that has begun; to an undisturbed run of its
\* own it is the one the table is ready for.
LEMMA ExecuteUndisturbed ==
    ASSUME TypeOK, Shapes, Undisturbed, NEW p \in Runs, Execute(p)
    PROVE  Undisturbed'
<1>1. UNCHANGED <<phase, expired, faulted>> /\ crossed' = crossed \union Between(p)
    BY ExecuteEffect
<1>2. ASSUME NEW q \in Runs \ {p}, phase[q] \in Active, q \notin faulted' \union crossed'
      PROVE  wire'[q] # "error" /\ Own(q)'
    <2>1. ~(Executed(q) >= 1) /\ wire[q] # "error"
        BY <1>1, <1>2 DEF Between, Undisturbed
    <2>2. Executed(q)' = 0 /\ wire'[q] # "error"
        BY <2>1, ExecuteEffect, ExecutedType, ScriptFacts
    <2> QED BY <2>2, ScriptFacts DEF Own, Owes, Steps, Script
<1>3. ASSUME phase[p] \in Active, p \notin faulted' \union crossed'
      PROVE  wire'[p] # "error" /\ Own(p)'
    <2>1. Own(p) /\ Steps \in 4 .. 5 /\ (Steps = 5 <=> Dialect = "postgres")
        BY <1>1, <1>3, ScriptFacts, DialectAssumption DEF Undisturbed, Steps, Script
    <2>2. next[p] \in 1 .. Steps /\ Executed(p) = next[p] - 1 /\ Dialect \in {"mysql", "postgres"}
        BY ExecuteEffect, DialectAssumption
    <2>3. /\ next[p] = 2 => table = "absent"
          /\ next[p] = 3 /\ Steps = 5 => table = "bare"
          /\ next[p] >= 3 => table # "absent"
          /\ next[p] \in 2 .. Steps => rows = {}
          /\ next[p] >= 4 => table = "indexed"
          /\ next[p] = 3 /\ Steps = 4 => table = "indexed"
        BY <2>1, <2>2 DEF Own, Owes
    <2>4. /\ wire'[p] = "done" /\ Executed(p)' = next[p]
          /\ next[p] = 1 => table' = "absent" /\ rows' = {}
          /\ next[p] = 2 =>
                rows' = {} /\ table' = IF Dialect = "mysql" THEN "indexed" ELSE "bare"
          /\ next[p] >= 3 => table' = "indexed"
          /\ next[p] \in 3 .. Steps - 1 => rows' = {}
          /\ next[p] = Steps => rows' = Ids
        BY <2>1, <2>2, <2>3, ExecuteEffect
    <2>5. Own(p)'
        BY <2>1, <2>2, <2>4 DEF Own, Owes, Steps, Script
    <2> QED BY <2>4, <2>5
<1> QED BY <1>1, <1>2, <1>3 DEF Undisturbed

\* A reset or check fails by its deadline, by a fault, or by an error; a refused
\* statement and a table that does not match are what an undisturbed run does not meet.
LEMMA NextReplayable ==
    ASSUME TypeOK, Shapes, Undisturbed, Replayable, [Next]_vars PROVE Replayable'
<1>1. faulted \subseteq faulted' /\ crossed \subseteq crossed'
    BY DEF Next, vars, historyVars, Start, Ready, Dispatch, Send, Execute, Lose, Answer,
           Verify, Expire, GiveUp, Break, Return, ReturnError
<1>2. SUFFICES ASSUME NEW p \in Runs, phase'[p] = "failed", command'[p] \in Resets,
                      phase[p] # "failed"
               PROVE  p \in faulted' \union crossed'
    <2>1. \A p \in Runs : phase[p] = "failed" => command'[p] = command[p]
        BY DEF Next, vars, historyVars, Start, Ready, Send, Execute, Lose, Answer, Verify,
               Expire, GiveUp, Break, TypeOK
    <2> QED BY <1>1, <1>2, <2>1 DEF Replayable, IsReset
<1>3. CASE Answer(p)
    <2>1. CASE wire[p] = "error"
        BY <1>1, <1>3, <2>1 DEF Answer, Undisturbed, Active
    <2> QED BY <1>2, <1>3, <2>1 DEF Answer, Return, ReturnError, TypeOK, historyVars
<1>4. CASE Verify(p)
    <2>1. CASE Matches
        BY <1>2, <1>4, <2>1 DEF Verify, Return, TypeOK
    <2>2. CASE ~Matches /\ p \notin faulted \union crossed
        <3>1. next[p] = Steps + 1 /\ Own(p) /\ wire[p] = "none"
            BY <1>2, <1>4, <2>2, ScriptFacts DEF Verify, Shapes, Shape, Undisturbed, Active
        <3>2. Executed(p) = Steps /\ Steps >= 3
            BY <3>1, ScriptFacts DEF Executed
        <3>3. table = "indexed" /\ rows = Ids
            BY <3>1, <3>2 DEF Own
        <3> QED BY <2>2, <3>3 DEF Matches
    <2> QED BY <1>1, <2>1, <2>2
<1>5. CASE GiveUp(p)
    BY <1>1, <1>5 DEF GiveUp, Undisturbed
<1>6. CASE Ready(p)
    BY <1>2, <1>6 DEF Ready, Dispatch, Return, TypeOK
<1>7. CASE Break(p)
    BY <1>7 DEF Break
<1> QED
    BY <1>2, <1>3, <1>4, <1>5, <1>6, <1>7
    DEF Next, vars, historyVars, Start, Ready, Dispatch, Send, Execute, Lose, Answer, Verify,
        Expire, GiveUp, Break, Return, ReturnError, TypeOK

-----------------------------------------------------------------------------

\* Between statements, without faults: the end of a reset keeps it complete, and a
\* comparison fails only while some other run is alive.
LEMMA OtherSurvival ==
    ASSUME TypeOK, Shapes, Undisturbed, Survival, NEW p \in Runs, Other(p)
    PROVE  Survival'
<1>1. SUFFICES ASSUME faulted' = {} PROVE Survival'
    BY DEF Survival
<1>2. faulted = {} /\ ~Lose(p) /\ ~Expire(p) /\ ~Break(p)
    BY <1>1 DEF Other, Start, Ready, Dispatch, Send, Lose, Answer, Verify, Expire, GiveUp,
           Break, Return, ReturnError, historyVars
<1>3. ~GiveUp(p)
    BY <1>2 DEF GiveUp, Undisturbed
<1>4. UNCHANGED serverVars /\ \A q \in Runs : Executed(q)' = Executed(q)
    BY OthersQuiet DEF Other, Quiet
<1>5. \A q \in Runs \ {p} : /\ phase'[q] = phase[q] /\ command'[q] = command[q]
                            /\ wire'[q] = wire[q] /\ next'[q] = next[q]
    BY DEF Other, Start, Ready, Dispatch, Send, Lose, Answer, Verify, Expire, GiveUp, Break,
           Return, ReturnError, TypeOK
<1>6. /\ wire'[p] \in {"sent", "done"} => phase'[p] = "resetting"
      /\ wire'[p] = "error" => next'[p] >= 2
    <2>1. CASE Answer(p)
        BY <1>2, <2>1 DEF Answer, ReturnError, TypeOK, Survival
    <2>2. CASE Start(p) \/ Ready(p) \/ Send(p) \/ Verify(p)
        BY <1>2, <2>2 DEF Start, Ready, Send, Verify, TypeOK, Survival, Shapes, Shape
    <2> QED BY <1>2, <1>3, <2>1, <2>2 DEF Other
<1>7. ASSUME IsReset(p)', phase'[p] = "failed" PROVE Executed(p)' >= 1
    <2>1. (Answer(p) /\ wire[p] = "error") \/ Verify(p)
            \/ (phase[p] = "failed" /\ command'[p] = command[p])
        BY <1>1, <1>2, <1>3, <1>7 DEF Other, Start, Ready, Dispatch, Send, Answer, Verify,
               Return, ReturnError, TypeOK, IsReset, historyVars
    <2>2. CASE Answer(p) /\ wire[p] = "error"
        <3>1. next[p] >= 2 /\ next[p] \in Nat
            BY <1>2, <2>2 DEF Survival, TypeOK
        <3> QED BY <1>4, <2>2, <3>1 DEF Executed
    <2>3. CASE Verify(p)
        <3>1. next[p] = Steps + 1 /\ wire[p] = "none"
            BY <1>7, <2>3, ScriptFacts DEF Verify, Shapes, Shape, IsReset
        <3> QED BY <1>4, <3>1, ScriptFacts DEF Executed
    <2>4. CASE phase[p] = "failed" /\ command'[p] = command[p]
        BY <1>2, <1>4, <1>7, <2>4 DEF Survival, IsReset
    <2> QED BY <2>1, <2>2, <2>3, <2>4
<1>8. \A q \in Runs : Alive(q) /\ Executed(q) \in 1 .. Steps - 1 => Alive(q)'
    <2>1. ASSUME Alive(p), Executed(p) \in 1 .. Steps - 1 PROVE Alive(p)'
        BY <1>2, <1>3, <2>1, ScriptFacts
        DEF Alive, Other, Start, Ready, Send, Answer, Verify, Executed, TypeOK
    <2> QED BY <1>5, <2>1 DEF Alive
<1>9. \A q \in Runs : Complete(q) /\ rows = Ids /\ table # "absent" => Complete(q)'
    <2>1. ASSUME Complete(p), rows = Ids, table # "absent" PROVE Complete(p)'
        <3>1. wire[p] # "error"
            BY <1>2, <2>1, ScriptFacts DEF Complete, Executed, TypeOK, Shapes, Shape
        <3>2. phase'[p] \in {"resetting", "verifying", "ok"}
            BY <1>1, <1>2, <1>3, <2>1, <3>1
            DEF Complete, Other, Start, Ready, Send, Answer, Verify, Return, ReturnError,
                Matches, TypeOK
        <3> QED BY <1>4, <2>1, <3>2 DEF Complete, Steps, Script
    <2> QED BY <1>4, <1>5, <2>1 DEF Complete, Steps, Script
<1>10. Touched' <=> Touched
    BY <1>4 DEF Touched
<1>11. /\ 1 \in 1 .. Steps - 1 /\ 2 \in 1 .. Steps - 1
       /\ Steps - 2 .. Steps - 1 \subseteq 1 .. Steps - 1 /\ Steps' = Steps
    BY ScriptFacts DEF Steps, Script
<1>12. ASSUME Touched
       PROVE  /\ table = "absent" => \E q \in Runs : Alive(q)' /\ Executed(q)' = 1
              /\ table = "bare" => \E q \in Runs : Alive(q)' /\ Executed(q)' = 2
              /\ table = "indexed" =>
                    \/ \E q \in Runs : Alive(q)' /\ Executed(q)' \in Steps - 2 .. Steps - 1
                    \/ rows = Ids /\ \E q \in Runs : Complete(q)'
              /\ rows # {} => rows = Ids /\ \E q \in Runs : Complete(q)'
    BY <1>2, <1>4, <1>8, <1>9, <1>11, <1>12 DEF Survival, TypeOK
<1> QED BY <1>2, <1>4, <1>5, <1>6, <1>7, <1>10, <1>11, <1>12 DEF Survival, IsReset, serverVars

\* A statement that is accepted makes its run the one that is alive, or complete; one
\* that is refused was refused because of a run that is.
LEMMA ExecuteSurvival ==
    ASSUME TypeOK, Shapes, Account, Survival, NEW p \in Runs, Execute(p)
    PROVE  Survival'
<1>1. UNCHANGED <<command, phase, next, faulted>> /\ wire[p] = "sent"
    BY ExecuteEffect DEF Execute
<1>2. SUFFICES ASSUME faulted = {} PROVE Survival'
    BY <1>1 DEF Survival
<1>3. /\ phase[p] = "resetting" /\ Alive(p) /\ Executed(p) = next[p] - 1
      /\ next[p] \in 1 .. Steps /\ Steps \in 4 .. 5 /\ Steps' = Steps
      /\ (Steps = 5 <=> Dialect = "postgres") /\ Dialect \in {"mysql", "postgres"}
    BY <1>1, <1>2, ExecuteEffect, ScriptFacts, DialectAssumption
    DEF Survival, Alive, Steps, Script
<1>4. \A q \in Runs : q # p => /\ Executed(q)' = Executed(q)
                               /\ Alive(q)' <=> Alive(q)
                               /\ Complete(q)' <=> Complete(q)
    BY <1>1, ExecuteEffect DEF Alive, Complete, Steps, Script
<1>5. \A q \in Runs :
          /\ wire'[q] \in {"sent", "done"} => phase'[q] = "resetting"
          /\ wire'[q] = "error" => next'[q] >= 2
          /\ IsReset(q)' /\ phase'[q] = "failed" => Executed(q)' >= 1
    <2>1. \A q \in Runs : phase[q] = "failed" => q # p
        BY <1>3
    <2>2. wire'[p] = "error" => next[p] >= 2
        BY <1>3, ExecuteEffect
    <2> QED BY <1>1, <1>2, <1>3, <1>4, <2>1, <2>2, ExecuteEffect DEF Survival, IsReset, Resets
<1>6. CASE Executed(p)' = next[p] /\ wire'[p] = "done"
    <2>1. Alive(p)' /\ (next[p] = Steps => Complete(p)')
        BY <1>1, <1>3, <1>6 DEF Alive, Complete
    <2>2. next[p] > 1 => Touched
        BY <1>3 DEF Touched
    <2>3. CASE next[p] = 1 /\ table' = "absent" /\ rows' = {}
        BY <1>2, <1>5, <1>6, <2>1, <2>3 DEF Survival
    <2>4. CASE /\ next[p] = 2 /\ table = "absent" /\ rows' = {}
               /\ table' = IF Dialect = "mysql" THEN "indexed" ELSE "bare"
        BY <1>2, <1>3, <1>5, <1>6, <2>1, <2>4 DEF Survival
    <2>5. CASE /\ next[p] = 3 /\ Steps = 5 /\ table = "bare"
               /\ table' = "indexed" /\ rows' = rows
        <3>1. rows # {} => rows = Ids /\ \E q \in Runs : Complete(q)'
            <4>1. ~Complete(p)
                BY <1>3, <2>5 DEF Complete
            <4> QED BY <1>2, <1>4, <2>2, <2>5, <4>1 DEF Survival
        <3>2. Alive(p)' /\ Executed(p)' \in Steps - 2 .. Steps - 1
            BY <1>6, <2>1, <2>5
        <3> QED BY <1>2, <1>3, <1>5, <2>5, <3>1, <3>2 DEF Survival
    <2>6. CASE next[p] = Steps - 1 /\ table # "absent" /\ table' = table /\ rows' = {}
        <3>1. table = "bare" => \E q \in Runs : Alive(q)' /\ Executed(q)' = 2
            <4>1. table = "bare" => \E q \in Runs : Alive(q) /\ Executed(q) = 2
                BY <1>2, <1>3, <2>2, <2>6 DEF Survival
            <4>2. table = "bare" => Steps = 5
                BY <1>3 DEF Account
            <4>3. table = "bare" => Executed(p) # 2
                BY <1>3, <2>6, <4>2
            <4> QED BY <1>4, <4>1, <4>3
        <3>2. Alive(p)' /\ Executed(p)' \in Steps - 2 .. Steps - 1
            BY <1>3, <1>6, <2>1, <2>6
        <3> QED BY <1>2, <1>3, <1>5, <2>6, <3>1, <3>2 DEF Survival
    <2>7. CASE /\ next[p] = Steps /\ table # "absent" /\ rows = {}
               /\ table' = table /\ rows' = Ids
        <3>1. table = "bare" => \E q \in Runs : Alive(q)' /\ Executed(q)' = 2
            <4>1. table = "bare" => \E q \in Runs : Alive(q) /\ Executed(q) = 2
                BY <1>2, <1>3, <2>2, <2>7 DEF Survival
            <4> QED BY <1>3, <1>4, <2>7, <4>1
        <3> QED BY <1>2, <1>5, <2>1, <2>7, <3>1 DEF Survival
    <2> QED BY <1>6, <2>3, <2>4, <2>5, <2>6, <2>7, ExecuteEffect
<1>7. CASE Executed(p)' = Executed(p) /\ wire'[p] = "error"
    <2>1. /\ UNCHANGED serverVars
          /\ \/ next[p] = 2 /\ table # "absent"
             \/ next[p] = 3 /\ Steps = 5 /\ table # "bare"
             \/ next[p] = Steps - 1 /\ table = "absent"
             \/ next[p] = Steps /\ (table = "absent" \/ rows # {})
        BY <1>7, ExecuteEffect
    <2>2. Touched /\ ~Complete(p) /\ Executed(p) \in 1 .. Steps - 1
        BY <1>3, <2>1 DEF Touched, Complete
    <2>3. table = "absent" => \E q \in Runs : Alive(q)' /\ Executed(q)' = 1
        <3>1. table = "absent" => Executed(p) # 1
            BY <1>3, <2>1
        <3> QED BY <1>2, <1>4, <2>2, <3>1 DEF Survival
    <2>4. table = "bare" => \E q \in Runs : Alive(q)' /\ Executed(q)' = 2
        <3>1. table = "bare" => Executed(p) # 2
            BY <1>3, <2>1
        <3> QED BY <1>2, <1>4, <2>2, <3>1 DEF Survival
    <2>5. rows # {} => rows = Ids /\ \E q \in Runs : Complete(q)'
        BY <1>2, <1>4, <2>2 DEF Survival
    <2>6. table = "indexed" =>
              \/ \E q \in Runs : Alive(q)' /\ Executed(q)' \in Steps - 2 .. Steps - 1
              \/ rows = Ids /\ \E q \in Runs : Complete(q)'
        <3>1. table = "indexed" => rows # {} \/ Executed(p) \notin Steps - 2 .. Steps - 1
            BY <1>3, <2>1
        <3> QED BY <1>2, <1>3, <1>4, <2>2, <2>5, <3>1 DEF Survival
    <2> QED BY <1>2, <1>3, <1>5, <2>1, <2>3, <2>4, <2>5, <2>6 DEF Survival, serverVars
<1> QED BY <1>6, <1>7, ExecuteEffect

\* Every step keeps the invariant.
LEMMA NextIInv == IInv /\ [Next]_vars => IInv'
<1> SUFFICES ASSUME IInv, [Next]_vars PROVE IInv'
    OBVIOUS
<1>1. CASE UNCHANGED vars
    BY <1>1 DEF vars, IInv, TypeOK, Shapes, Shape, Account, Touched, Owes, Executed,
                Undisturbed, Own, Replayable, IsReset, Survival, Alive, Complete
<1>2. CASE Next
    <2>1. TypeOK' /\ Shapes' /\ Account' /\ Replayable'
        BY NextTypeOK, NextShapes, NextAccount, NextReplayable DEF IInv
    <2>2. Undisturbed' /\ Survival'
        BY <1>2, OtherUndisturbed, ExecuteUndisturbed, OtherSurvival, ExecuteSurvival
        DEF Next, Other, IInv
    <2> QED BY <2>1, <2>2 DEF IInv
<1> QED BY <1>1, <1>2

\* The invariant holds forever, for any runs, rows, dialect and commands.
THEOREM InvariantHolds == Spec => []IInv
BY InitIInv, NextIInv, PTL DEF Spec

-----------------------------------------------------------------------------

\* The variables of runForBackend and of ResetSQL's loop keep their types: a run
\* in the loop is at one of the script's statements, for any runs and rows.
THEOREM TypeCorrect == Spec => []TypeOK
BY InvariantHolds, PTL DEF IInv

\* With nobody in the middle of the script, the account leaves only a whole table.
LEMMA IInvAccounted == IInv => Accounted
<1> SUFFICES ASSUME IInv, Touched, \A p \in Runs : ~Owes(p) PROVE Whole
    BY DEF Accounted, Touched
<1>1. \A p \in Runs : Executed(p) # 1 /\ Executed(p) # 2
    <2>1. 1 \in 1 .. Steps - 1 /\ 2 \in 1 .. Steps - 1
        BY ScriptFacts
    <2> QED BY <2>1 DEF Owes
<1>2. table # "absent" /\ table # "bare" /\ rows = Ids
    BY <1>1 DEF IInv, Account
<1> QED BY <1>2 DEF IInv, TypeOK, Whole

\* Damage to the fixture is always some unfinished replay's: ResetSQL's statements
\* of any number of runs, interleaved, lost or executed late, leave the table
\* whole whenever no run is in the middle of the script.
THEOREM AccountedHolds == Spec => []Accounted
BY InvariantHolds, IInvAccounted, PTL

\* "Replaying this file restores the complete stable fixture" (001_schema.sql): with no
\* fault and no other run, no statement of ResetSQL is refused, whatever the table was.
THEOREM ReplayableHolds == Spec => []Replayable
BY InvariantHolds, PTL DEF IInv

\* Once all resets have ended without faults, none is alive: one is complete.
LEMMA IInvSomeRunSurvives == IInv => SomeRunSurvives
<1> SUFFICES ASSUME IInv, faulted = {}, NEW p \in Runs, IsReset(p),
                    \A q \in Runs : IsReset(q) => phase[q] \in {"ok", "failed"}
             PROVE  \E q \in Runs : IsReset(q) /\ phase[q] = "ok"
    BY DEF SomeRunSurvives
<1>1. \A q \in Runs : phase[q] = "resetting" => IsReset(q)
    BY DEF IInv, Shapes, Shape, IsReset
<1>2. \A q \in Runs : ~Alive(q)
    BY <1>1 DEF Alive
<1>3. CASE ~Touched
    BY <1>3 DEF IInv, Survival, Touched
<1>4. CASE Touched
    <2>1. PICK q \in Runs : Complete(q)
        BY <1>2, <1>4 DEF IInv, Survival, TypeOK
    <2>2. Executed(q) >= 1 /\ phase[q] \in {"verifying", "ok"}
        BY <1>1, <2>1, ScriptFacts DEF Complete
    <2>3. IsReset(q)
        BY <2>2, <2>1 DEF Executed, IsReset, IInv, Shapes, Shape
    <2> QED BY <2>2, <2>3
<1> QED BY <1>3, <1>4

\* Resets that drop, empty and refill the table under each other cannot all fail: a
\* run is stopped only by another that is further, and the last of them succeeds.
THEOREM SomeRunSurvivesHolds == Spec => []SomeRunSurvives
BY InvariantHolds, IInvSomeRunSurvives, PTL

\* A run that has succeeded has had the whole script executed, and owes nothing.
LEMMA IInvSettled == IInv => Settled
<1> SUFFICES ASSUME IInv,
                    NEW p \in Runs, IsReset(p), phase[p] = "ok",
                    \A q \in Runs : IsReset(q) => phase[q] = "ok"
             PROVE  Whole
    BY DEF Settled
<1>1. \A q \in Runs : IsReset(q) => Executed(q) = Steps
    BY ScriptFacts DEF IInv, Shapes, Shape, TypeOK, IsReset, Executed
<1>2. \A q \in Runs : ~IsReset(q) => Executed(q) = 0
    BY DEF IInv, Shapes, Shape, IsReset, Executed
<1>3. Executed(p) >= 1 /\ \A q \in Runs : ~Owes(q)
    BY <1>1, <1>2, ScriptFacts DEF Owes
<1> QED BY <1>3, IInvAccounted DEF Accounted

\* testbedctl's exit statuses can be relied on: at least one reset or check has
\* succeeded and none is unfinished or failed, so the fixture is whole.
THEOREM SettledHolds == Spec => []Settled
BY InvariantHolds, IInvSettled, PTL

-----------------------------------------------------------------------------

\* The initial states are initial states of the contract.
LEMMA InitRefines == Init => Contract!Init
<1> SUFFICES ASSUME Init PROVE Contract!Init
    OBVIOUS
<1>1. ASSUME NEW p \in Runs
      PROVE  Executed(p) = 0 /\ ~Owes(p) /\ ~IsReset(p)
    <2>1. next[p] = 1 /\ wire[p] = "none" /\ phase[p] = "idle"
        BY DEF Init
    <2>2. Executed(p) = 0
        BY <2>1 DEF Executed
    <2> QED BY <2>1, <2>2 DEF Owes, IsReset
<1>2. rows \in SUBSET Ids
    BY DEF Init
<1> QED BY <1>1, <1>2 DEF Contract!Init, lostBar, owedBar, outcomeBar

\* A run whose script is completely executed owes nothing, and nothing is lost.
LEMMA CompleteOwesNothing ==
    ASSUME TypeOK, NEW p \in Runs, next[p] = Steps + 1, wire[p] = "none"
    PROVE  ~Owes(p) /\ Touched
BY ScriptFacts DEF Owes, Executed, Touched

\* The contract's account depends only on the server and on what is executed.
LEMMA QuietBars ==
    ASSUME Quiet PROVE UNCHANGED <<rows, lostBar, owedBar>>
BY DEF Quiet, lostBar, owedBar, Owes, serverVars

\* A quiet step of run p is a step of the contract: the run begins, ends, or
\* makes progress the contract does not see.
LEMMA OthersRefine ==
    ASSUME IInv, IInv', NEW p \in Runs,
           \/ Start(p) \/ Ready(p) \/ Send(p) \/ Lose(p) \/ Answer(p)
           \/ Verify(p) \/ Expire(p) \/ GiveUp(p) \/ Break(p)
    PROVE  Contract!Next \/ UNCHANGED Contract!vars
<1>1. UNCHANGED <<rows, lostBar, owedBar>>
    BY OthersQuiet, QuietBars DEF IInv
<1>2. \A q \in Runs : q # p => phase'[q] = phase[q] /\ command'[q] = command[q]
    BY DEF Start, Ready, Dispatch, Send, Lose, Answer, Verify, Expire, GiveUp, Break,
           Return, ReturnError, IInv, TypeOK
<1>3. \A q \in Runs : q # p => outcomeBar'[q] = outcomeBar[q]
    BY <1>2 DEF outcomeBar, IsReset
<1>4. outcomeBar \in [Runs -> Contract!Outcomes]
    BY DEF IInv, TypeOK, Phases, Active, outcomeBar, IsReset, Contract!Outcomes
<1>5. outcomeBar' = [outcomeBar EXCEPT ![p] = outcomeBar'[p]]
    BY <1>3 DEF outcomeBar
<1>6. CASE outcomeBar'[p] = outcomeBar[p]
    <2>1. outcomeBar' = outcomeBar
        BY <1>5, <1>6 DEF outcomeBar
    <2> QED BY <2>1, <1>1 DEF Contract!vars
<1>7. CASE outcomeBar[p] = "idle" /\ outcomeBar'[p] = "active"
    <2>1. Contract!Begin(p)
        BY <1>1, <1>5, <1>7 DEF Contract!Begin
    <2> QED BY <2>1 DEF Contract!Next
<1>8. CASE outcomeBar[p] = "active" /\ outcomeBar'[p] = "failed"
    <2>1. Contract!Fail(p)
        BY <1>1, <1>5, <1>8 DEF Contract!Fail
    <2> QED BY <2>1 DEF Contract!Next
<1>9. CASE outcomeBar[p] = "active" /\ outcomeBar'[p] = "ok"
    <2>1. phase'[p] = "ok" /\ command'[p] \in Resets
        BY <1>9 DEF outcomeBar, IsReset
    <2>2. next'[p] = Steps + 1 /\ wire'[p] = "none"
        BY <2>1, ScriptFacts DEF IInv, Shapes, Shape, TypeOK
    <2>3. ~Owes(p)' /\ Touched'
        BY <2>2, ScriptFacts DEF Owes, Executed, Touched, Steps, Script
    <2>4. owedBar'[p] = {} /\ lostBar' = {}
        BY <2>3 DEF owedBar, lostBar, Touched
    <2>5. Contract!Succeed(p)
        BY <1>1, <1>5, <1>9, <2>4 DEF Contract!Succeed
    <2> QED BY <2>5 DEF Contract!Next
<1>10. \/ outcomeBar'[p] = outcomeBar[p]
       \/ outcomeBar[p] = "idle" /\ outcomeBar'[p] = "active"
       \/ outcomeBar[p] = "active" /\ outcomeBar'[p] \in {"ok", "failed"}
    <2> USE DEF outcomeBar, IsReset, Active, Phases, IInv, TypeOK
    <2>1. CASE Start(p)   BY <2>1 DEF Start
    <2>2. CASE Ready(p)   BY <2>2 DEF Ready, Dispatch, Return
    <2>3. CASE Send(p)    BY <2>3 DEF Send
    <2>4. CASE Lose(p)    BY <2>4 DEF Lose
    <2>5. CASE Answer(p)  BY <2>5 DEF Answer, Return, ReturnError
    <2>6. CASE Verify(p)  BY <2>6 DEF Verify, Return, ReturnError
    <2>7. CASE Expire(p)  BY <2>7 DEF Expire
    <2>8. CASE GiveUp(p)  BY <2>8 DEF GiveUp, ReturnError
    <2>9. CASE Break(p)   BY <2>9 DEF Break
    <2> QED BY <2>1, <2>2, <2>3, <2>4, <2>5, <2>6, <2>7, <2>8, <2>9
<1> QED BY <1>6, <1>7, <1>8, <1>9, <1>10

\* An executed statement is a step of the contract: the INSERT restores every
\* row, any other accepted statement makes the run responsible for them all.
LEMMA ExecuteRefines ==
    ASSUME IInv, IInv', NEW p \in Runs, Execute(p)
    PROVE  Contract!Next \/ UNCHANGED Contract!vars
<1> DEFINE s == Script[next[p]]
<1>0. /\ wire[p] = "sent" /\ next[p] \in 1 .. Steps /\ Executed(p) = next[p] - 1
      /\ TypeOK /\ Steps \in 4 .. 5 /\ rows \in SUBSET Ids
      /\ command[p] \in Resets /\ phase[p] \in {"resetting", "failed"}
    BY ScriptFacts DEF Execute, IInv, Shapes, Shape, TypeOK, Executed, Phases
<1>1. \A q \in Runs : q # p => Executed(q)' = Executed(q)
    BY <1>0 DEF Execute, Executed, Effect, serverVars, TypeOK
<1>2. UNCHANGED outcomeBar
    BY DEF Execute, outcomeBar, IsReset
<1>3. outcomeBar[p] \in {"active", "failed"}
    BY <1>0 DEF outcomeBar, IsReset, Active
<1>4. \A q \in Runs : q # p => (Owes(q)' <=> Owes(q))
    BY <1>1 DEF Owes
<1>5. CASE ~Accepts(s)
    <2>1. Executed(p)' = Executed(p) /\ UNCHANGED serverVars
        BY <1>0, <1>5 DEF Execute, Executed, TypeOK
    <2> QED BY <1>1, <1>2, <2>1, QuietBars DEF Quiet, Contract!vars
<1>6. CASE Accepts(s)
    <2>1. Executed(p)' = next[p] /\ Effect(s)
        BY <1>0, <1>6 DEF Execute, Executed, TypeOK
    <2>2. Touched'
        BY <2>1, <1>0 DEF Touched
    <2>3. lostBar' = {}
        BY <2>2 DEF lostBar, Touched
    <2>4. lostBar \subseteq Ids
        BY DEF lostBar
    <2>5. CASE next[p] = Steps
        <3>1. rows' = Ids
            BY <1>0, <2>1, <2>5, ScriptFacts DEF Effect
        <3>2. ~Owes(p)'
            BY <2>1, <2>5, <1>0 DEF Owes
        <3>3. owedBar' = [owedBar EXCEPT ![p] = {}]
            BY <3>2, <1>4 DEF owedBar
        <3>4. owedBar[p] \ Ids = {}
            BY DEF owedBar
        <3>5. Contract!Restore(p, Ids)
            BY <1>0, <1>2, <1>3, <2>3, <2>4, <3>1, <3>3, <3>4 DEF Contract!Restore
        <3> QED BY <3>5 DEF Contract!Next
    <2>6. CASE next[p] \in 1 .. Steps - 1
        <3>1. Owes(p)'
            BY <2>1, <2>6, <1>0 DEF Owes
        <3>2. owedBar' = [owedBar EXCEPT ![p] = Ids]
            BY <3>1, <1>4 DEF owedBar
        <3>3. s \in {"drop", "create", "delete"} \/ (s = "index" /\ next[p] = 3)
            BY <2>6, <1>0, ScriptFacts
        <3>4. CASE s \in {"drop", "create", "delete"}
            <4>1. rows' = {}
                BY <3>4, <2>1 DEF Effect
            <4>2. owedBar[p] \union Ids = Ids
                BY DEF owedBar
            <4>3. Contract!Clear(p, Ids)
                BY <1>0, <1>2, <1>3, <2>3, <2>4, <3>2, <4>1, <4>2 DEF Contract!Clear
            <4> QED BY <4>3 DEF Contract!Next
        <3>5. CASE s = "index" /\ next[p] = 3
            <4>1. rows' = rows
                BY <3>5, <2>1 DEF Effect
            <4>2. Owes(p) /\ Touched
                BY <3>5, <1>0 DEF Owes, Touched
            <4>3. owedBar[p] = Ids /\ lostBar = {}
                BY <4>2 DEF owedBar, lostBar, Touched
            <4>4. owedBar' = owedBar
                BY <3>2, <4>3 DEF owedBar
            <4> QED BY <1>2, <2>3, <4>1, <4>3, <4>4 DEF Contract!vars
        <3> QED BY <3>3, <3>4, <3>5
    <2> QED BY <2>5, <2>6, <1>0
<1> QED BY <1>5, <1>6

\* Every step is a step of the contract, or one it does not see.
LEMMA StepRefines ==
    ASSUME IInv, IInv', [Next]_vars PROVE Contract!Next \/ UNCHANGED Contract!vars
<1>1. ASSUME NEW p \in Runs, Execute(p)
      PROVE  Contract!Next \/ UNCHANGED Contract!vars
    BY <1>1, ExecuteRefines
<1>2. ASSUME NEW p \in Runs,
             \/ Start(p) \/ Ready(p) \/ Send(p) \/ Lose(p) \/ Answer(p)
             \/ Verify(p) \/ Expire(p) \/ GiveUp(p) \/ Break(p)
      PROVE  Contract!Next \/ UNCHANGED Contract!vars
    BY <1>2, OthersRefine
<1>3. CASE UNCHANGED vars
    BY <1>3 DEF vars, Contract!vars, lostBar, owedBar, outcomeBar, Owes,
                Executed, IsReset
<1> QED BY <1>1, <1>2, <1>3 DEF Next

\* Replaying the scripts statement by statement implements the contract of a
\* reset, for any runs, rows, dialect and commands.
THEOREM RefinesHolds == Spec => Refines
<1>1. IInv /\ IInv' /\ [Next]_vars => [Contract!Next]_(Contract!vars)
    BY StepRefines
<1> QED BY <1>1, InitRefines, InvariantHolds, PTL DEF Spec, Refines, Contract!Spec

=============================================================================
