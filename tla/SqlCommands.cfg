SPECIFICATION FairSpec
CONSTANTS
    Runs = {p1, p2}
    Ids = {r1, r2}
    Dialect = "postgres"
    Commands = {"health", "reset", "verify", "check"}
INVARIANTS TypeOK Replayable Accounted Settled SomeRunSurvives
PROPERTIES Terminates Refines
CHECK_DEADLOCK FALSE
