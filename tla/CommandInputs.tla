-------------------------- MODULE CommandInputs --------------------------
(***************************************************************************)
(* What testbedctl reads before and between its requests: SQL scripts line *)
(* by line (splitSQLStatements), the bulk file pair by pair                *)
(* (ValidateElasticsearchBulk), the rows of the two SQL fixtures           *)
(* (CompareSQLRecords) and environment variables (the Load functions).     *)
(*                                                                         *)
(* These are sequential functions that share nothing, so a behaviour is    *)
(* about one subject: its input grows by any choice, the readers' local    *)
(* variables follow, and what they conclude at the end of the input is     *)
(* stated of every prefix.                                                 *)
(***************************************************************************)
EXTENDS FixtureFiles, Environment

CONSTANTS
    MaxLines,   \* bound: lines of a script
    MaxRows,    \* bound: rows of a SQL fixture
    RowIds      \* identifiers of rows; one of them may be Blank

ASSUME InputsAssumption == MaxLines \in Nat /\ MaxRows \in Nat

VARIABLES
    subject,      \* what is read
    \* "script"
    script,       \* the lines so far
    statements,   \* splitSQLStatements's result so far
    current,      \* the lines collected since the last boundary
    \* "bulk"
    pending,      \* the action line whose source line comes next; at most one
    seen,         \* the records accepted, in their order
    held,         \* held[id]: the source accepted for id
    refused,      \* the file is refused
    \* "rows"
    left, right,  \* the rows of the MySQL and of the PostgreSQL fixture
    \* "environment"
    service,      \* the service that is configured
    environment   \* its environment

scriptVars == <<script, statements, current>>
bulkVars == <<pending, seen, held, refused>>
rowVars == <<left, right>>
configVars == <<service, environment>>
vars == <<subject, scriptVars, bulkVars, rowVars, configVars>>

Subjects == {"script", "bulk", "rows", "environment"}
Rows == [id : RowIds, columns : {"c", "d"}]

\* An environment in which nothing is set.
Unset(s) == [names |-> [name \in Names(s) |-> ""], port |-> ""]

Init ==
    /\ subject \in Subjects
    /\ script = << >> /\ statements = << >> /\ current = << >>
    /\ pending = << >> /\ seen = << >> /\ held = << >> /\ refused = FALSE
    /\ left = << >> /\ right = << >>
    /\ service \in (IF subject = "environment" THEN Services ELSE {"mysql"})
    /\ environment = Unset(service)

-----------------------------------------------------------------------------

\* Mutant of ReadScriptLine: what has been collected is not reset at a boundary.
ReadScriptLineKeeping(line) ==
    /\ subject = "script"
    /\ Len(script) < MaxLines
    /\ script' = Append(script, line)
    /\ IF line = "boundary"
       THEN statements' = Flush(script, statements, current) /\ UNCHANGED current
       ELSE current' = Append(current, Len(script) + 1) /\ UNCHANGED statements
    /\ UNCHANGED <<subject, bulkVars, rowVars, configVars>>

\* One turn of splitSQLStatements's loop.
ReadScriptLine(line) ==
    /\ subject = "script"
    /\ Len(script) < MaxLines
    /\ script' = Append(script, line)
    /\ IF line = "boundary"
       THEN statements' = Flush(script, statements, current) /\ current' = << >>
       ELSE current' = Append(current, Len(script) + 1) /\ UNCHANGED statements
    /\ UNCHANGED <<subject, bulkVars, rowVars, configVars>>

\* The statements of a script that ends here; none is an error.
Statements == Flush(script, statements, current)

\* The scanner reads an action line.  It is judged with its source line.
ReadAction(action) ==
    /\ subject = "bulk" /\ ~refused
    /\ pending = << >>
    /\ pending' = <<action>>
    /\ UNCHANGED <<subject, scriptVars, seen, held, refused, rowVars, configVars>>

\* The pair names a canonical record not seen before, and its source is right.
Acceptable(action, source) ==
    /\ action.id \in Ids
    /\ action.id \notin Range(seen)
    /\ CompareSource(action.id, source)

\* The scanner reads a source line.
ReadSource(source) ==
    /\ subject = "bulk" /\ ~refused
    /\ pending # << >>
    /\ pending' = << >>
    /\ IF Acceptable(pending[1], source)
       THEN /\ seen' = Append(seen, pending[1].id)
            /\ held' = [id \in Range(seen') |-> IF id = pending[1].id THEN source ELSE held[id]]
            /\ UNCHANGED refused
       ELSE refused' = TRUE /\ UNCHANGED <<seen, held>>
    /\ UNCHANGED <<subject, scriptVars, rowVars, configVars>>

\* A line that is not the JSON object expected, which includes a source line
\* where an action should be, and the other way round.
ReadJunk ==
    /\ subject = "bulk" /\ ~refused
    /\ refused' = TRUE
    /\ UNCHANGED <<subject, scriptVars, pending, seen, held, rowVars, configVars>>

\* ValidateElasticsearchBulk returns nil for a file that ends here.
BulkAccepted ==
    /\ ~refused
    /\ pending = << >>
    /\ CompareIDs(Range(seen), Ids)

\* A fixture has one more row.
AddRow(row) ==
    /\ subject = "rows"
    /\ \/ Len(left) < MaxRows /\ left' = Append(left, row) /\ UNCHANGED right
       \/ Len(right) < MaxRows /\ right' = Append(right, row) /\ UNCHANGED left
    /\ UNCHANGED <<subject, scriptVars, bulkVars, configVars>>

\* A variable that is not set is given a text.
SetName(name, text) ==
    /\ subject = "environment"
    /\ name \in Names(service) /\ environment.names[name] = ""
    /\ environment' = [environment EXCEPT !.names[name] = text]
    /\ UNCHANGED <<subject, scriptVars, bulkVars, rowVars, service>>

SetPort(text) ==
    /\ subject = "environment"
    /\ environment.port = ""
    /\ environment' = [environment EXCEPT !.port = text]
    /\ UNCHANGED <<subject, scriptVars, bulkVars, rowVars, service>>

Next ==
    \/ \E line \in ScriptLines : ReadScriptLine(line)
    \/ \E action \in Actions : ReadAction(action)
    \/ \E source \in Sources : ReadSource(source)
    \/ ReadJunk
    \/ \E row \in Rows : AddRow(row)
    \/ \E s \in Services, text \in Texts \ {""} : \E name \in Names(s) : SetName(name, text)
    \/ \E text \in PortTexts \ {""} : SetPort(text)

Spec == Init /\ [][Next]_vars

-----------------------------------------------------------------------------

TextAt(i) == script[i] = "text"

\* Nothing that stands in a script is lost, repeated, reordered or executed
\* together with what a boundary separates it from, wherever boundaries and
\* blank lines fall: a statement is a part of the script that begins and ends
\* with text, the statements follow each other in the script's order, and two
\* lines of text are in one statement exactly when no boundary is between them,
\* so that every line of text is in one.
ScriptKept ==
    /\ \A n \in DOMAIN Statements :
          LET s == Statements[n] IN
          /\ s # << >> /\ TextAt(s[1]) /\ TextAt(s[Len(s)])
          /\ \A k \in DOMAIN s : s[k] = s[1] + k - 1
    /\ \A m, n \in DOMAIN Statements :
          m < n => Statements[m][Len(Statements[m])] < Statements[n][1]
    /\ \A i, j \in {k \in DOMAIN script : TextAt(k)} : i <= j =>
          ((\E n \in DOMAIN Statements : {i, j} \subseteq Range(Statements[n]))
           <=> \A k \in i .. j : script[k] # "boundary")

\* A bulk file is accepted exactly when it pairs every canonical record, in any
\* order, once, with its own source: what ResetElasticsearch sends after
\* deleting the index can restore the whole fixture.
BulkFaithful ==
    BulkAccepted <=> /\ ~refused /\ pending = << >>
                     /\ IsInjective(seen) /\ Range(seen) = Ids
                     /\ \A id \in Ids : held[id] = CanonicalSource(id)

\* What a backend holds after its reset of the record's nullable text.
HeldText(backend, id) ==
    CASE backend = "memory" -> MemoryState(Canonical[id].text)
      [] backend = "mongo" -> MongoState(Canonical[id].text)
      [] backend = "elasticsearch" -> held[id].text
      [] backend = "ldap" -> LDAPState(Canonical[id].text)
      [] backend = "sql" -> SQLState(Canonical[id].text)

\* The backends that declare DistinguishesMissing hold every record's field in
\* the same state, and the others keep null and missing apart from a value but
\* not from each other: the match sets the scenarios expect of a backend rest
\* on this.
StatesKept ==
    BulkAccepted =>
        /\ \A backend \in DistinguishesMissing, id \in Ids :
              HeldText(backend, id) = Canonical[id].text
        /\ \A backend \in {"ldap", "sql"}, i, j \in Ids :
              (HeldText(backend, i) = HeldText(backend, j))
              <=> ((Canonical[i].text = "value") <=> (Canonical[j].text = "value"))

\* The SQL fixtures are reported to match exactly when they hold the same rows,
\* each once, under identifiers that are not empty.
RecordsAgree ==
    CompareSQLRecords(left, right) <=>
        /\ IsInjective(IDs(left)) /\ IsInjective(IDs(right))
        /\ Range(left) = Range(right)
        /\ Blank \notin Range(IDs(left))

\* A configuration that is accepted is the one the environment asks for: every
\* variable that has a text is obeyed to the letter, the port is the number
\* given, and MongoDB authenticates against the database selected unless told
\* otherwise.  Nothing usable is refused.
Obeyed(s, env) ==
    LET config == Load(s, env)
        text(name) == env.names[name] IN
    /\ \A c \in config :
          /\ \A name \in Names(s) : text(name) # "" => c.names[name] = text(name)
          /\ env.port = "" => c.port = DefaultPort
          /\ env.port # "" => c.port = Numeral[env.port]
          /\ s = "mongo" /\ text("AUTH_SOURCE") = ""
             => c.names["AUTH_SOURCE"] = c.names["DATABASE"]
    /\ config = {} <=>
          \/ \E name \in Names(s) : text(name) = "  "
          \/ env.port \in {"port", "0", "65536", "65537"}
          \/ s = "ldap" /\ text("BASE_DN") \notin {"", "default"}
          \/ s = "elasticsearch" /\ text("INDEX") = "Other"

\* The service's environment is obeyed.
EnvironmentObeyed == Obeyed(service, environment)

=============================================================================
