------------------------- MODULE RecordIdentities -------------------------
(***************************************************************************)
(* Sets of record identifiers, and the contents of two SQL fixtures,       *)
(* compared (internal/fixture/record.go).                                  *)
(*                                                                         *)
(* A record is [id, columns]; what the columns hold is a value that is only*)
(* compared.  The records of a fixture are a sequence, as a query returns  *)
(* them.                                                                   *)
(***************************************************************************)
EXTENDS Naturals, Sequences, Functions

CONSTANT Blank   \* the empty string, as a name or an identifier

\* CompareIDs returns nil: equal as sets, and an empty identifier is an error.
CompareIDs(got, want) == Blank \notin got \union want /\ got = want

\* IDs.
IDs(records) == [i \in DOMAIN records |-> records[i].id]

\* The entry of rightByID that the record of the other fixture is compared with.
Other(record, records) == CHOOSE r \in Range(records) : r.id = record.id

\* Mutant of CompareSQLRecords: a repetition in the left fixture is not noticed.
CompareSQLRecordsOnce(left, right) ==
    /\ CompareIDs(Range(IDs(left)), Range(IDs(right)))
    /\ IsInjective(IDs(right))
    /\ \A record \in Range(left) : record.columns = Other(record, right).columns

\* CompareSQLRecords returns nil.  (differingField is columns # columns.)
CompareSQLRecords(left, right) ==
    /\ CompareIDs(Range(IDs(left)), Range(IDs(right)))
    /\ IsInjective(IDs(right))
    /\ IsInjective(IDs(left))
    /\ \A record \in Range(left) : record.columns = Other(record, right).columns

=============================================================================
