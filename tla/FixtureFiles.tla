--------------------------- MODULE FixtureFiles ---------------------------
(***************************************************************************)
(* The files a reset reads, and how they and the canonical records say that*)
(* a field has a value, is null or is missing (internal/testenv/sql.go,    *)
(* internal/fixture/elasticsearch.go, mongo.go and ldap.go, and            *)
(* internal/demoharness/memory.go).                                        *)
(***************************************************************************)
EXTENDS RecordIdentities, FiniteSetsExt

CONSTANTS
    Ids,        \* StableIDs
    Unknown,    \* an identifier no canonical record has
    Canonical   \* the canonical records: [number, text] of each identifier

States == {"value", "null", "missing"}

ASSUME CanonicalAssumption ==
    /\ Canonical \in [Ids -> [number : States, text : States]]
    /\ Blank \notin Ids /\ Unknown \notin Ids \union {Blank}

-----------------------------------------------------------------------------
(* SQL scripts.  A line is a boundary, blank or text; a statement is the   *)
(* sequence of the positions of its lines.                                 *)

ScriptLines == {"boundary", "blank", "text"}

\* strings.TrimSpace, for blanks that are whole lines.
TrimSpace(script, statement) ==
    LET texts == {i \in DOMAIN statement : script[statement[i]] = "text"} IN
    IF texts = {} THEN << >> ELSE SubSeq(statement, Min(texts), Max(texts))

\* flush: the statements with what has been collected, unless it is empty.
Flush(script, statements, current) ==
    IF TrimSpace(script, current) = << >> THEN statements
    ELSE Append(statements, TrimSpace(script, current))

-----------------------------------------------------------------------------
(* The bulk file.  An action line names the record its source line is for. *)
(* A source has the required fields of one canonical record, each nullable *)
(* field in one of the states or with another value, and a companion       *)
(* marker for the nullable text.                                           *)

RawStates == States \union {"other"}

Actions == [id : Ids \union {Blank, Unknown}]
Sources == [of : Ids, number : RawStates, text : RawStates, marker : States]

\* The source line of a record in the committed file, records.ndjson.
CanonicalSource(id) ==
    [of |-> id, number |-> Canonical[id].number, text |-> Canonical[id].text,
     marker |-> Canonical[id].text]

\* A nullable field of a record is Present, and its pointer may be nil.
Present(state) == state # "missing"
NilPointer(state) == state # "value"

\* compareNullableRaw returns nil; marked says whether the field has a marker.
CompareNullableRaw(raw, marker, state, marked) ==
    /\ (raw # "missing") = Present(state)
    /\ \/ ~Present(state) /\ (marked => marker = "missing")
       \/ /\ Present(state) /\ NilPointer(state)
          /\ raw = "null" /\ (marked => marker = "null")
       \/ /\ Present(state) /\ ~NilPointer(state)
          /\ raw = "value" /\ (marked => marker = "value")

\* Mutant of CompareSource: the companion marker is not looked at.
CompareSourceUnmarked(id, source) ==
    /\ source.of = id
    /\ CompareNullableRaw(source.number, "missing", Canonical[id].number, FALSE)
    /\ CompareNullableRaw(source.text, source.marker, Canonical[id].text, FALSE)

\* compareElasticsearchCanonicalSource returns nil.
CompareSource(id, source) ==
    /\ source.of = id
    /\ CompareNullableRaw(source.number, "missing", Canonical[id].number, FALSE)
    /\ CompareNullableRaw(source.text, source.marker, Canonical[id].text, TRUE)

-----------------------------------------------------------------------------
(* What each backend holds of a nullable field in a state.                 *)

MemoryState(state) ==
    IF ~Present(state) THEN "missing" ELSE IF NilPointer(state) THEN "null" ELSE "value"

\* Mutant of MongoState: the pointer decides whether there is a field.
MongoStateOfPointer(state) == IF NilPointer(state) THEN "missing" ELSE "value"

\* MongoRecords: a field that is present, with or without a value.
MongoState(state) ==
    IF ~Present(state) THEN "missing" ELSE IF NilPointer(state) THEN "null" ELSE "value"

\* LDAPEntries: an attribute, if there is a value for it.
LDAPState(state) == IF NilPointer(state) THEN "missing" ELSE "value"

\* The rows of 002_seed.sql: a column always exists.
SQLState(state) == IF NilPointer(state) THEN "null" ELSE "value"

\* The harnesses that declare DistinguishesMissing.
DistinguishesMissing == {"memory", "mongo", "elasticsearch"}

=============================================================================
