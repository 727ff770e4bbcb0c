SPECIFICATION Spec
CONSTANTS
    Ids = {"r01", "r03", "r04"}
    Unknown = "r99"
    Blank = ""
    Canonical <- MCCanonical
    MaxLines = 7
    MaxRows = 2
    RowIds = {"", "r01", "r03"}
INVARIANTS ScriptKept BulkFaithful StatesKept RecordsAgree EnvironmentObeyed
CHECK_DEADLOCK FALSE
